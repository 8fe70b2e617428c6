------------------------------ MODULE Atomics ------------------------------
(***************************************************************************)
(* The A extension on one hart: the reservation LR makes, SC's use of it,  *)
(* the read-modify-write of an AMO, and the early return of each when a    *)
(* page is not there (emu/src/cpu.rs execute, opcode 0x2f).                *)
(*                                                                         *)
(* The guest is a kernel with threads that add one to shared words, by an  *)
(* LR/SC pair or an AMO, and an interrupt handler that does the same.  As  *)
(* the kernel this emulator boots does, it stores conditionally to a       *)
(* scratch word when it changes threads.  It takes pages away and gives    *)
(* them back at any moment.                                                *)
(***************************************************************************)
EXTENDS Naturals

CONSTANTS
    Threads,
    Addrs,          \* the shared words, each on a page of its own
    Scratch,        \* the word the kernel's own SC names
    None,
    Modulus         \* 2^width: words wrap here

ASSUME AtomicsAssumption ==
    /\ None \notin Addrs /\ Scratch \notin Addrs /\ Scratch # None
    /\ Modulus \in Nat \ {0}

VARIABLES
    mem,            \* the shared words
    reservation,    \* the address of the last LR, if any
    page,           \* what each word's page allows: "none", "read" or "write"
    current,        \* the thread on the hart
    target,         \* the word a thread's next SC names, if it is in a pair
    seen,           \* what the thread's LR read
    added           \* history: increments that reported success

vars == <<mem, reservation, page, current, target, seen, added>>

Words == 0 .. Modulus - 1

Plus(v) == (v + 1) % Modulus

Init ==
    /\ mem = [a \in Addrs |-> 0] /\ reservation = None
    /\ page \in [Addrs -> {"none", "read", "write"}]
    /\ current \in Threads
    /\ target = [t \in Threads |-> None] /\ seen = [t \in Threads |-> 0]
    /\ added = [a \in Addrs |-> 0]

Readable(a) == page[a] # "none"
Writable(a) == page[a] = "write"

\* An access that faults returns before anything else is changed; the kernel
\* brings the page in and the instruction is run again.
PageFault(a) ==
    /\ page' = [page EXCEPT ![a] = "write"]
    /\ UNCHANGED <<mem, reservation, current, target, seen, added>>

Increment(a, v) ==
    mem' = [mem EXCEPT ![a] = Plus(v)] /\ added' = [added EXCEPT ![a] = Plus(@)]

-----------------------------------------------------------------------------
(* Instructions of the current thread *)

\* The bug of reserving before the read can fault.
Lr_reserving_early(a) ==
    /\ target[current] = None
    /\ reservation' = a
    /\ IF Readable(a)
       THEN /\ seen' = [seen EXCEPT ![current] = mem[a]]
            /\ target' = [target EXCEPT ![current] = a]
            /\ UNCHANGED <<mem, page, current, added>>
       ELSE /\ page' = [page EXCEPT ![a] = "write"]
            /\ UNCHANGED <<mem, current, target, seen, added>>

Lr(a) ==
    /\ target[current] = None
    /\ IF Readable(a)
       THEN /\ seen' = [seen EXCEPT ![current] = mem[a]]
            /\ reservation' = a
            /\ target' = [target EXCEPT ![current] = a]
            /\ UNCHANGED <<mem, page, current, added>>
       ELSE PageFault(a)

\* The bug of an SC that clears the reservation only when it succeeds.
AfterSc_if_matching(a) == IF reservation = a THEN None ELSE reservation

\* The reservation after an SC to a: cleared either way.
AfterSc(a) == None

\* A success stores and reports 0; a failure reports 1 and the pair starts
\* over.  A matching SC whose store faults keeps the reservation.
Sc(a) ==
    /\ target[current] = a
    /\ IF reservation = a /\ ~ Writable(a) THEN PageFault(a)
       ELSE /\ IF reservation = a THEN Increment(a, seen[current])
               ELSE UNCHANGED <<mem, added>>
            /\ reservation' = AfterSc(a)
            /\ target' = [target EXCEPT ![current] = None]
            /\ UNCHANGED <<page, current, seen>>

\* AMOADD reads, then writes; either may fault and neither is visible alone.
Amo(a) ==
    /\ target[current] = None
    /\ IF Writable(a)
       THEN Increment(a, mem[a]) /\ UNCHANGED <<reservation, page, current, target, seen>>
       ELSE PageFault(a)

-----------------------------------------------------------------------------
(* The kernel *)

\* An interrupt handler's own LR/SC pair, with interrupts masked, on a resident
\* word.
HandlerPair(a) ==
    /\ Writable(a)
    /\ Increment(a, mem[a])
    /\ reservation' = AfterSc(a)
    /\ UNCHANGED <<page, current, target, seen>>

Switch(t) ==
    /\ t # current /\ current' = t
    /\ reservation' = AfterSc(Scratch)
    /\ UNCHANGED <<mem, page, target, seen, added>>

\* The kernel write-protects or evicts a page.
Revoke(a) ==
    /\ \E p \in {"none", "read"} : page' = [page EXCEPT ![a] = p]
    /\ UNCHANGED <<mem, reservation, current, target, seen, added>>

Next ==
    \/ \E a \in Addrs : Lr(a) \/ Sc(a) \/ Amo(a) \/ HandlerPair(a) \/ Revoke(a)
    \/ \E t \in Threads : Switch(t)

Spec == Init /\ [][Next]_vars

-----------------------------------------------------------------------------
(* Properties *)

\* Type correctness: words keep their width (cpu.rs execute, memory.rs write).
TypeOK ==
    /\ mem \in [Addrs -> Words] /\ added \in [Addrs -> Words]
    /\ reservation \in Addrs \cup {None}
    /\ page \in [Addrs -> {"none", "read", "write"}]
    /\ current \in Threads
    /\ target \in [Threads -> Addrs \cup {None}] /\ seen \in [Threads -> Words]

\* A held reservation belongs to the pair the running thread is in, and the
\* value its LR read is still in memory, across faults, evictions, handlers
\* and preemption (cpu.rs LR and SC).
ReservationIsCurrent ==
    reservation # None =>
        target[current] = reservation /\ seen[current] = mem[reservation]

\* No update is lost: every word holds the sum of the increments that reported
\* success, however pairs, AMOs and handlers interleave (cpu.rs LR, SC, AMO).
NoLostUpdate == \A a \in Addrs : mem[a] = added[a]

=============================================================================
