----------------------------- MODULE PlicProofs -----------------------------
(***************************************************************************)
(* The claim / complete handshake is exclusive for any number of sources,  *)
(* contexts and priorities, but for sources that a handler completed under *)
(* another's service.  The inductive invariant is TypeOK, the agreement of *)
(* the claimed mask with the handlers' sets, and exclusion.                *)
(***************************************************************************)
EXTENDS PlicHandlers, WellFoundedInduction, TLAPS

\* Every nonempty set of naturals has a least element.
LEMMA LeastNatural ==
    ASSUME NEW T \in SUBSET Nat, T # {}
    PROVE  \E x \in T : \A y \in T : x <= y
<1> DEFINE R == OpToRel(<, Nat)
<1>1. PICK x \in T : \A y \in T : ~ (<<y, x>> \in R)
  BY WFMin, NatLessThanWellFounded
<1>2. ASSUME NEW y \in T PROVE x <= y
  <2>1. ~ (y < x)  BY <1>1 DEF OpToRel
  <2> QED  BY <2>1
<1> QED  BY <1>2

\* plic.rs best: any set of sources has a winner, the lowest-numbered source
\* of the highest priority.
LEMMA WinnerExists ==
    ASSUME PlicTypeOK, NEW T \in SUBSET Sources, T # {}
    PROVE  \E s \in T : \A t \in T : Beats(s, t)
<1>1. \A s \in T : s \in Nat /\ priority[s] \in 0 .. MaxWord
  BY MaxSourcesAssumption DEF PlicTypeOK, Sources, Bits, Words
<1> DEFINE G == {MaxWord - priority[s] : s \in T}
<1>2. G \in SUBSET Nat /\ G # {}  BY <1>1, MaxWordAssumption
<1> HIDE DEF G
<1>3. PICK g \in G : \A h \in G : g <= h  BY <1>2, LeastNatural
<1> DEFINE H == {s \in T : MaxWord - priority[s] = g}
<1>4. H \in SUBSET Nat /\ H # {}  BY <1>1, <1>3 DEF G
<1>5. PICK s \in H : \A t \in H : s <= t  BY <1>4, LeastNatural
<1>6. ASSUME NEW t \in T PROVE Beats(s, t)
  <2>1. priority[s] >= priority[t]
    BY <1>1, <1>3, <1>5, <1>6, MaxWordAssumption DEF G
  <2>2. priority[s] = priority[t] => s <= t  BY <1>5, <1>6
  <2> QED  BY <2>1, <2>2, <1>1, <1>5 DEF Beats
<1> QED  BY <1>5, <1>6

LEMMA CandidatesAreSources ==
    ASSUME PlicTypeOK, NEW c \in CONTEXTS PROVE Candidates(c) \in SUBSET Sources
BY DEF Candidates, pending, PlicTypeOK

\* plic.rs best returns 0 or a source that is asserted, unclaimed and enabled
\* for the context, whatever the priorities are.
LEMMA BestIsPending ==
    ASSUME PlicTypeOK, NEW c \in CONTEXTS, best(c) # 0
    PROVE  best(c) \in Sources /\ best(c) \notin claimed
<1>1. Candidates(c) # {}  BY DEF best
<1>2. \E s \in Candidates(c) : \A t \in Candidates(c) : Beats(s, t)
  BY <1>1, WinnerExists, CandidatesAreSources
<1>3. best(c) \in Candidates(c)  BY <1>1, <1>2 DEF best
<1> QED  BY <1>3 DEF Candidates, pending, PlicTypeOK

Inv == TypeOK /\ ClaimedIsHeld /\ Exclusive

LEMMA InitInv == Init => Inv
  BY MaxSourcesAssumption, MaxWordAssumption
  DEF Init, PlicInit, Inv, TypeOK, PlicTypeOK, ClaimedIsHeld, Exclusive, InService,
      Words, Bits, Sources

\* Who is in service after one context's set has changed.
LEMMA InServiceAfter ==
    ASSUME TypeOK, NEW c \in CONTEXTS, NEW S, held' = [held EXCEPT ![c] = S]
    PROVE  InService' = S \cup UNION {held[d] : d \in CONTEXTS \ {c}}
<1>1. held'[c] = S /\ \A d \in CONTEXTS \ {c} : held'[d] = held[d]  BY DEF TypeOK
<1>2. ASSUME NEW s PROVE s \in InService' <=> s \in S \/ \E d \in CONTEXTS \ {c} : s \in held[d]
  BY <1>1 DEF InService
<1> QED  BY <1>2

LEMMA InServiceParts ==
    ASSUME NEW c \in CONTEXTS
    PROVE  InService = held[c] \cup UNION {held[d] : d \in CONTEXTS \ {c}}
<1>1. ASSUME NEW s
      PROVE  s \in InService <=> s \in held[c] \/ \E d \in CONTEXTS \ {c} : s \in held[d]
  BY DEF InService
<1> QED  BY <1>1

\* plic.rs claim moves one unclaimed source into the claiming handler.
LEMMA ClaimInv ==
    ASSUME Inv, NEW c \in CONTEXTS, Claim(c)
    PROVE  Inv'
<1> USE DEF Inv
<1>0. early' = early  BY DEF Claim
<1>1. CASE best(c) = 0
  <2>1. claimed' = claimed /\ held' = held
    BY <1>1 DEF Claim, claim, TypeOK
  <2>2. TypeOK'  BY <1>0, <2>1 DEF Claim, claim, TypeOK, PlicTypeOK
  <2> QED  BY <1>0, <2>1, <2>2 DEF ClaimedIsHeld, Exclusive, InService
<1>2. CASE best(c) # 0
  <2>1. /\ claimed' = claimed \cup {best(c)}
        /\ held' = [held EXCEPT ![c] = held[c] \cup {best(c)}]
    BY <1>2 DEF Claim, claim
  <2>2. best(c) \in Sources /\ best(c) \notin claimed  BY <1>2, BestIsPending DEF TypeOK
  <2>3. TypeOK'  BY <1>0, <2>1, <2>2 DEF Claim, claim, TypeOK, PlicTypeOK
  <2>4. ClaimedIsHeld'
    <3>1. InService' = (held[c] \cup {best(c)}) \cup UNION {held[d] : d \in CONTEXTS \ {c}}
      BY <2>1, InServiceAfter
    <3>2. InService = held[c] \cup UNION {held[d] : d \in CONTEXTS \ {c}}
      BY InServiceParts
    <3> QED  BY <1>0, <2>1, <3>1, <3>2 DEF ClaimedIsHeld
  <2>5. \A d \in CONTEXTS : best(c) \in held[d] => best(c) \in early
    BY <2>2 DEF ClaimedIsHeld, InService
  <2>6. Exclusive'  BY <1>0, <2>1, <2>5 DEF TypeOK, Exclusive
  <2> QED  BY <2>3, <2>4, <2>6
<1> QED  BY <1>1, <1>2

\* plic.rs complete releases the source it names, whoever holds it, and no other.
LEMMA CompleteInv ==
    ASSUME Inv, NEW c \in CONTEXTS, NEW s \in 0 .. MAX_SOURCES, Complete(c, s)
    PROVE  Inv'
<1> USE DEF Inv
<1>1. held' = [held EXCEPT ![c] = held[c] \ {s}]  BY DEF Complete
<1>2. claimed' = claimed \ {s}
  BY MaxSourcesAssumption DEF Complete, complete, TypeOK, PlicTypeOK, Sources
<1>3. early' = (early \cup {s}) \cap InService'  BY DEF Complete
<1>4. TypeOK'
  <2>1. \A d \in CONTEXTS : held'[d] \subseteq Sources  BY <1>1 DEF TypeOK
  <2>2. InService' \subseteq Sources  BY <2>1 DEF InService
  <2> QED  BY <1>1, <1>2, <1>3, <2>2 DEF Complete, complete, TypeOK, PlicTypeOK
<1>5. ClaimedIsHeld'
  <2>1. /\ InService' = (held[c] \ {s}) \cup UNION {held[d] : d \in CONTEXTS \ {c}}
        /\ InService = held[c] \cup UNION {held[d] : d \in CONTEXTS \ {c}}
    BY <1>1, InServiceAfter, InServiceParts
  <2> QED  BY <1>2, <1>3, <2>1 DEF ClaimedIsHeld
<1>6. Exclusive'
  <2>1. \A d \in CONTEXTS : held'[d] \subseteq held[d] /\ held'[d] \subseteq InService'
    BY <1>1 DEF TypeOK, InService
  <2> QED  BY <1>3, <2>1 DEF Exclusive
<1> QED  BY <1>4, <1>5, <1>6

LEMMA NextInv == Inv /\ [Next]_vars => Inv'
<1> SUFFICES ASSUME Inv, [Next]_vars PROVE Inv'  OBVIOUS
<1> USE DEF Inv
<1>1. ASSUME NEW c \in CONTEXTS, Claim(c) PROVE Inv'  BY <1>1, ClaimInv
<1>2. ASSUME NEW c \in CONTEXTS, NEW s \in 0 .. MAX_SOURCES, Complete(c, s)
      PROVE  Inv'
  BY <1>2, CompleteInv
<1>3. ASSUME NEW s \in 0 .. MAX_SOURCES, NEW b \in BOOLEAN, Device(s, b)
      PROVE  Inv'
  BY <1>3 DEF Device, set_level, TypeOK, PlicTypeOK, ClaimedIsHeld, Exclusive, InService
<1>4. CASE Configure
  <2>1. claimed' = claimed /\ held' = held /\ levels' = levels /\ early' = early
    BY <1>4 DEF Configure, WritePriority, WriteEnable, WriteThreshold
  <2> USE DEF TypeOK, PlicTypeOK
  <2>2. priority' \in [Bits -> Words]
    BY <1>4 DEF Configure, WritePriority, WriteEnable, WriteThreshold
  <2>3. threshold' \in [CONTEXTS -> Words]
    BY <1>4 DEF Configure, WritePriority, WriteEnable, WriteThreshold
  <2>4. enable' \in [CONTEXTS -> SUBSET Sources]
    <3>1. \A w \in SUBSET Bits : w \ {0} \in SUBSET Sources
      BY MaxSourcesAssumption DEF Sources, Bits
    <3> QED  BY <1>4, <3>1 DEF Configure, WritePriority, WriteEnable, WriteThreshold
  <2> QED  BY <2>1, <2>2, <2>3, <2>4 DEF ClaimedIsHeld, Exclusive, InService
<1>5. CASE UNCHANGED vars
  BY <1>5 DEF vars, TypeOK, PlicTypeOK, ClaimedIsHeld, Exclusive, InService
<1> QED  BY <1>1, <1>2, <1>3, <1>4, <1>5 DEF Next

\* The controller and its handlers keep their types: in particular source 0
\* is never claimed, enabled or asserted.
THEOREM PlicTypeCorrect == Spec => []TypeOK
<1>1. Inv => TypeOK  BY DEF Inv
<1> QED  BY InitInv, NextInv, <1>1, PTL DEF Spec

\* A source is claimed only while a handler holds it, and as long as one does
\* unless it was completed early (plic.rs claim and complete).
THEOREM PlicClaimedIsHeld == Spec => []ClaimedIsHeld
<1>1. Inv => ClaimedIsHeld  BY DEF Inv
<1> QED  BY InitInv, NextInv, <1>1, PTL DEF Spec

\* No source is serviced in two contexts at once, unless it was completed by a
\* context that did not hold it (plic.rs claim).
THEOREM PlicExclusive == Spec => []Exclusive
<1>1. Inv => Exclusive  BY DEF Inv
<1> QED  BY InitInv, NextInv, <1>1, PTL DEF Spec

-----------------------------------------------------------------------------
(* The arbitration loop *)

\* The candidates among the first s sources, and what the loop should hold of
\* them: the winner and its priority, or the threshold while there is none.
Seen(c, s) == {t \in Candidates(c) : t <= s}
Winner(T) == CHOOSE t \in T : \A u \in T : Beats(t, u)
Lead(c, s) ==
    IF Seen(c, s) = {} THEN [best |-> 0, best_priority |-> threshold[c]]
    ELSE [best |-> Winner(Seen(c, s)), best_priority |-> priority[Winner(Seen(c, s))]]

\* A source that beats all of a set it is in is the winner.
LEMMA OneWinner ==
    ASSUME PlicTypeOK, NEW T \in SUBSET Sources, NEW t \in T, \A u \in T : Beats(t, u)
    PROVE  Winner(T) = t
<1>1. \A s \in Sources : s \in Nat /\ priority[s] \in Nat
  BY MaxSourcesAssumption, MaxWordAssumption DEF PlicTypeOK, Sources, Bits, Words
<1>2. Winner(T) \in T /\ \A u \in T : Beats(Winner(T), u)  BY DEF Winner
<1> HIDE DEF Winner
<1>3. Beats(Winner(T), t) /\ Beats(t, Winner(T))  BY <1>2
<1> QED  BY <1>1, <1>2, <1>3 DEF Beats

\* Any set of sources has one.
LEMMA SomeWinner ==
    ASSUME PlicTypeOK, NEW T \in SUBSET Sources, T # {}
    PROVE  Winner(T) \in T /\ \A u \in T : Beats(Winner(T), u)
BY WinnerExists DEF Winner

\* One turn of the loop takes the lead of s - 1 sources to that of s.
LEMMA ScanLeads ==
    ASSUME PlicTypeOK, NEW c \in CONTEXTS, NEW s \in Sources
    PROVE  Lead(c, s) = Scan(c, Lead(c, s - 1), s)
<1> DEFINE old == Seen(c, s - 1)
           new == Seen(c, s)
           open == s \in pending \cap enable[c]
<1>1. /\ \A t \in Sources : t \in Nat /\ t > 0 /\ priority[t] \in Nat
      /\ threshold[c] \in Nat
  BY MaxSourcesAssumption, MaxWordAssumption DEF PlicTypeOK, Sources, Bits, Words
<1>2. Candidates(c) \subseteq Sources  BY CandidatesAreSources
<1>3. old \in SUBSET Sources /\ new \in SUBSET Sources  BY <1>2 DEF Seen
<1>4. s \in Candidates(c) <=> open /\ priority[s] > threshold[c]  BY DEF Candidates
<1>5. new = IF s \in Candidates(c) THEN old \cup {s} ELSE old
  BY <1>1, <1>2 DEF Seen
<1>6. \A t \in old : t < s /\ priority[t] > threshold[c]  BY <1>1, <1>2 DEF Seen, Candidates
<1> HIDE DEF open
<1>7. CASE old = {}
  <2>1. Lead(c, s - 1) = [best |-> 0, best_priority |-> threshold[c]]  BY <1>7 DEF Lead
  <2>2. CASE s \in Candidates(c)
    <3>1. new = {s}  BY <1>5, <1>7, <2>2
    <3>2. Winner(new) = s  BY <3>1, <1>1, <1>3, OneWinner DEF Beats
    <3> QED  BY <1>4, <2>1, <2>2, <3>1, <3>2 DEF Lead, Scan, open
  <2>3. CASE s \notin Candidates(c)
    <3>1. new = {}  BY <1>5, <1>7, <2>3
    <3> QED  BY <1>4, <2>1, <2>3, <3>1 DEF Lead, Scan, open
  <2> QED  BY <2>2, <2>3
<1>8. CASE old # {}
  <2> DEFINE v == Winner(old)
  <2>1. v \in old /\ \A u \in old : Beats(v, u)  BY <1>3, <1>8, SomeWinner
  <2>2. Lead(c, s - 1) = [best |-> v, best_priority |-> priority[v]]  BY <1>8 DEF Lead
  <2> HIDE DEF v
  <2>3. v \in Sources /\ v < s /\ priority[v] > threshold[c]  BY <1>3, <1>6, <2>1
  <2>4. CASE open /\ priority[s] > priority[v]
    <3>1. priority[s] > threshold[c]  BY <1>1, <2>3, <2>4
    <3>2. new = old \cup {s}  BY <1>4, <1>5, <2>4, <3>1
    <3>3. \A u \in new : Beats(s, u)  BY <1>1, <1>3, <2>1, <2>3, <2>4, <3>2 DEF Beats
    <3>4. Winner(new) = s  BY <1>3, <3>2, <3>3, OneWinner
    <3>5. Lead(c, s) = [best |-> s, best_priority |-> priority[s]]
      BY <3>2, <3>4 DEF Lead
    <3> QED  BY <2>2, <2>4, <3>5 DEF Scan, open
  <2>5. CASE ~ (open /\ priority[s] > priority[v])
    <3>1. \A u \in new : Beats(v, u)
      <4>1. CASE s \in Candidates(c)
        <5>1. priority[v] >= priority[s]  BY <1>1, <1>4, <2>3, <2>5, <4>1
        <5>2. Beats(v, s)  BY <1>1, <2>3, <5>1 DEF Beats
        <5> QED  BY <1>5, <2>1, <4>1, <5>2
      <4>2. CASE s \notin Candidates(c)  BY <1>5, <2>1, <4>2
      <4> QED  BY <4>1, <4>2
    <3>2. v \in new  BY <1>5, <2>1
    <3>3. Winner(new) = v  BY <1>3, <3>1, <3>2, OneWinner
    <3>4. Lead(c, s) = [best |-> v, best_priority |-> priority[v]]
      BY <3>2, <3>3 DEF Lead
    <3> QED  BY <2>2, <2>5, <3>4 DEF Scan, open
  <2> QED  BY <2>4, <2>5
<1> QED  BY <1>7, <1>8

\* The loop's variables are the lead, turn by turn.
LEMMA LoopIsBest ==
    ASSUME PlicTypeOK, NEW c \in CONTEXTS PROVE best(c) = best_loop(c)
<1> DEFINE first == [best |-> 0, best_priority |-> threshold[c]]
           IsScan(g) == g = [s \in Bits |-> IF s = 0 THEN first ELSE Scan(c, g[s - 1], s)]
           lead == [s \in Bits |-> Lead(c, s)]
           scan == CHOOSE g : IsScan(g)
<1>1. 0 \in Bits /\ MAX_SOURCES - 1 \in Bits /\ Bits \subseteq Nat
      /\ \A s \in Bits : s # 0 => s \in Sources /\ s - 1 \in Bits
  BY MaxSourcesAssumption DEF Bits, Sources
<1>2. Candidates(c) \subseteq Sources  BY CandidatesAreSources
<1>3. IsScan(lead)
  <2>1. ASSUME NEW s \in Bits
        PROVE  lead[s] = IF s = 0 THEN first ELSE Scan(c, lead[s - 1], s)
    <3>1. CASE s = 0
      <4>1. Seen(c, 0) = {}  BY <1>2, MaxSourcesAssumption DEF Seen, Sources
      <4> QED  BY <3>1, <4>1 DEF Lead
    <3>2. CASE s # 0
      <4>1. lead[s] = Lead(c, s) /\ lead[s - 1] = Lead(c, s - 1)  BY <1>1, <2>1, <3>2
      <4> QED  BY <1>1, <3>2, <4>1, ScanLeads
    <3> QED  BY <3>1, <3>2
  <2> QED  BY <2>1
<1>4. IsScan(scan)  BY <1>3
<1>5. best_loop(c) = scan[MAX_SOURCES - 1].best  BY DEF best_loop
<1> HIDE DEF scan
<1>6. \A s \in Bits : scan[s] = lead[s]
  <2> DEFINE wrong == {s \in Bits : scan[s] # lead[s]}
  <2>1. SUFFICES ASSUME wrong # {} PROVE FALSE  OBVIOUS
  <2>2. wrong \in SUBSET Nat  BY <1>1
  <2>3. PICK s \in wrong : \A t \in wrong : s <= t  BY <2>1, <2>2, LeastNatural
  <2>4. s \in Bits /\ scan[s] # lead[s]  BY <2>3
  <2>5. scan[s] = IF s = 0 THEN first ELSE Scan(c, scan[s - 1], s)  BY <1>4, <2>4
  <2>6. lead[s] = IF s = 0 THEN first ELSE Scan(c, lead[s - 1], s)  BY <1>3, <2>4
  <2>7. s # 0 /\ s - 1 \in Bits  BY <1>1, <2>4, <2>5, <2>6
  <2>8. scan[s - 1] = lead[s - 1]  BY <1>1, <2>3, <2>7
  <2> QED  BY <2>4, <2>5, <2>6, <2>7, <2>8
<1>7. best_loop(c) = Lead(c, MAX_SOURCES - 1).best  BY <1>1, <1>5, <1>6
<1>8. Seen(c, MAX_SOURCES - 1) = Candidates(c)
  BY <1>2, MaxSourcesAssumption DEF Seen, Sources
<1>9. Lead(c, MAX_SOURCES - 1).best = IF Candidates(c) = {} THEN 0 ELSE Winner(Candidates(c))
  BY <1>8 DEF Lead
<1>10. best(c) = IF Candidates(c) = {} THEN 0 ELSE Winner(Candidates(c))
  BY Zenon DEF best, Winner
<1> QED  BY <1>7, <1>9, <1>10

\* The loop of plic.rs best, which raises its own threshold as it goes, finds
\* the winner the controller promises, for any number of sources.
THEOREM PlicLoopIsBest == Spec => []BestAgrees
<1>1. Inv => BestAgrees  BY LoopIsBest DEF Inv, TypeOK, BestAgrees
<1> QED  BY InitInv, NextInv, <1>1, PTL DEF Spec

=============================================================================
