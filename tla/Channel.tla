------------------------------ MODULE Channel ------------------------------
(***************************************************************************)
(* What a console input line promises: messages sent are delivered once,   *)
(* in order, and sooner or later.                                          *)
(***************************************************************************)
EXTENDS Sequences

CONSTANT Messages

VARIABLES
    queue,          \* sent and not yet delivered
    delivered       \* everything the receiver got

vars == <<queue, delivered>>

Init == queue = <<>> /\ delivered = <<>>

Send == \E msg \in Messages : queue' = Append(queue, msg) /\ delivered' = delivered

Receive ==
    /\ queue # <<>>
    /\ delivered' = Append(delivered, Head(queue))
    /\ queue' = Tail(queue)

Next == Send \/ Receive

Spec == Init /\ [][Next]_vars /\ WF_vars(Receive)
=============================================================================
