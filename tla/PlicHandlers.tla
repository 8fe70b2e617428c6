---------------------------- MODULE PlicHandlers ----------------------------
(***************************************************************************)
(* The controller together with its users: a handler per context that      *)
(* claims sources, services them and completes what it claimed, devices    *)
(* that move their lines at any moment, and software that reprograms       *)
(* priorities, enables and thresholds while claims are outstanding.        *)
(* held[c] is what the handlers running in context c believe they own; a   *)
(* handler may be preempted by another one of the same context, so it is a *)
(* set.  Nothing makes a handler complete only what it claimed: early is   *)
(* the history of sources completed under another handler's service.       *)
(***************************************************************************)
EXTENDS Plic

VARIABLES held, early

vars == <<priority, levels, claimed, enable, threshold, held, early>>

InService == UNION {held[c] : c \in CONTEXTS}

Init == PlicInit /\ held = [c \in CONTEXTS |-> {}] /\ early = {}

Claim(c) ==
    /\ claim(c)
    /\ held' = [held EXCEPT ![c] = IF best(c) # 0 THEN @ \cup {best(c)} ELSE @]
    /\ UNCHANGED early

\* A handler completes a source it holds, or one that another holds or nobody
\* does, or writes back the 0 of a claim that found nothing, or a number the
\* controller does not implement.  A source is completed early if somebody
\* still holds it, and until nobody does.
Complete(c, source) ==
    /\ complete(source)
    /\ held' = [held EXCEPT ![c] = @ \ {source}]
    /\ early' = (early \cup {source}) \cap InService'

Device(source, asserted) == set_level(source, asserted) /\ UNCHANGED <<held, early>>

Configure ==
    /\ \/ \E s \in 0 .. MAX_SOURCES, w \in Words : WritePriority(s, w)
       \/ \E c \in CONTEXTS, w \in SUBSET Bits : WriteEnable(c, w)
       \/ \E c \in CONTEXTS, w \in Words : WriteThreshold(c, w)
    /\ UNCHANGED <<held, early>>

Next ==
    \/ \E c \in CONTEXTS : Claim(c)
    \/ \E c \in CONTEXTS, s \in 0 .. MAX_SOURCES : Complete(c, s)
    \/ \E s \in 0 .. MAX_SOURCES, b \in BOOLEAN : Device(s, b)
    \/ Configure

Spec == Init /\ [][Next]_vars

-----------------------------------------------------------------------------
(* The arbitration as the loop of plic.rs best runs it *)

\* The bug of letting a later source of equal priority win.
ScanTies(c, acc, s) ==
    IF s \in pending \cap enable[c] /\ priority[s] >= acc.best_priority
    THEN [best |-> s, best_priority |-> priority[s]]
    ELSE acc

Scan(c, acc, s) ==
    IF s \in pending \cap enable[c] /\ priority[s] > acc.best_priority
    THEN [best |-> s, best_priority |-> priority[s]]
    ELSE acc

\* The loop's variables after source s; at 0, before the first.
best_loop(c) ==
    LET scan[s \in Bits] ==
          IF s = 0 THEN [best |-> 0, best_priority |-> threshold[c]] ELSE Scan(c, scan[s - 1], s)
    IN  scan[MAX_SOURCES - 1].best

-----------------------------------------------------------------------------
(* Properties *)

\* Type correctness of the controller and of the handlers' sets.
TypeOK ==
    /\ PlicTypeOK
    /\ held \in [CONTEXTS -> SUBSET Sources] /\ early \in SUBSET Sources

\* The claimed mask is what the handlers still own: no line change,
\* reconfiguration or other context's claim gives a source back or takes one
\* away, and a completion by the wrong handler gives back the source it names
\* and no other (plic.rs claim and complete).  No source stays claimed that
\* nobody holds.
ClaimedIsHeld == claimed \subseteq InService /\ InService \ claimed \subseteq early

\* "two harts racing on the same interrupt cannot both service it"
\* (plic.rs claim): no source is in service in two contexts, unless it was
\* completed by one that did not hold it and claimed again.
Exclusive ==
    \A c, d \in CONTEXTS : c # d => held[c] \cap held[d] \subseteq early

\* plic.rs best: the single pass that raises the threshold as it goes finds
\* the highest priority above the threshold, ties to the lowest number.
BestAgrees == \A c \in CONTEXTS : best(c) = best_loop(c)

=============================================================================
