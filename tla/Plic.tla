-------------------------------- MODULE Plic --------------------------------
(***************************************************************************)
(* The platform-level interrupt controller (emu/src/plic.rs): level-       *)
(* triggered sources, per-context enables and thresholds, and the claim /  *)
(* complete handshake.  A bit mask of the code (levels, claimed, enable[c])*)
(* is the set of the source numbers whose bits are set.                    *)
(***************************************************************************)
EXTENDS Naturals

CONSTANTS
    MAX_SOURCES,    \* sources are 1 .. MAX_SOURCES - 1; 0 is "no interrupt"
    CONTEXTS,       \* the hart's privilege levels the controller serves
    MaxWord         \* the largest value of a priority or threshold (a u32)

ASSUME MaxSourcesAssumption == MAX_SOURCES \in Nat \ {0}
ASSUME MaxWordAssumption == MaxWord \in Nat

VARIABLES priority, levels, claimed, enable, threshold

plicVars == <<priority, levels, claimed, enable, threshold>>

Sources == 1 .. MAX_SOURCES - 1
Bits == 0 .. MAX_SOURCES - 1
Words == 0 .. MaxWord

PlicTypeOK ==
    /\ priority \in [Bits -> Words]
    /\ levels \in SUBSET Sources
    /\ claimed \in SUBSET Sources
    /\ enable \in [CONTEXTS -> SUBSET Sources]
    /\ threshold \in [CONTEXTS -> Words]

PlicInit ==
    /\ priority = [s \in Bits |-> 0]
    /\ levels = {}
    /\ claimed = {}
    /\ enable = [c \in CONTEXTS |-> {}]
    /\ threshold = [c \in CONTEXTS |-> 0]

-----------------------------------------------------------------------------
(* Arbitration *)

\* The bug of leaving a claimed source in the race.
pending_while_claimed == levels

pending == levels \ claimed

\* The sources context c may be interrupted by: a priority equal to the
\* threshold is masked.
Candidates(c) == {s \in pending \cap enable[c] : priority[s] > threshold[c]}

\* s is taken before t: higher priority, ties to the lower number.
Beats(s, t) == priority[s] > priority[t] \/ (priority[s] = priority[t] /\ s <= t)

best(c) ==
    IF Candidates(c) = {} THEN 0
    ELSE CHOOSE s \in Candidates(c) : \A t \in Candidates(c) : Beats(s, t)

is_pending(c) == best(c) # 0

-----------------------------------------------------------------------------
(* Operations *)

\* Reading a context's claim register: marks best(c) claimed.
claim(c) ==
    /\ claimed' = IF best(c) # 0 THEN claimed \cup {best(c)} ELSE claimed
    /\ UNCHANGED <<priority, levels, enable, threshold>>

\* The bug of a mask that is not complemented.
complete_inverted(source) ==
    /\ claimed' = IF source < MAX_SOURCES THEN claimed \cap {source} ELSE claimed
    /\ UNCHANGED <<priority, levels, enable, threshold>>

\* Writing a context's claim register.  The context does not matter: the
\* code clears whatever source is named.
complete(source) ==
    /\ claimed' = IF source < MAX_SOURCES THEN claimed \ {source} ELSE claimed
    /\ UNCHANGED <<priority, levels, enable, threshold>>

set_level(source, asserted) ==
    /\ levels' = IF source \notin Sources THEN levels
                 ELSE IF asserted THEN levels \cup {source} ELSE levels \ {source}
    /\ UNCHANGED <<priority, claimed, enable, threshold>>

\* Source 0 has no priority register; a source past the array is ignored.
WritePriority(source, word) ==
    /\ priority' = IF source \in Sources THEN [priority EXCEPT ![source] = word]
                   ELSE priority
    /\ UNCHANGED <<levels, claimed, enable, threshold>>

\* The enable word is a set of bits, of which bit 0 is dropped.
WriteEnable(c, word) ==
    /\ enable' = [enable EXCEPT ![c] = word \ {0}]
    /\ UNCHANGED <<priority, levels, claimed, threshold>>

WriteThreshold(c, word) ==
    /\ threshold' = [threshold EXCEPT ![c] = word]
    /\ UNCHANGED <<priority, levels, claimed, enable>>

=============================================================================
