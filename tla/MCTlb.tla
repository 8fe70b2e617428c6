------------------------------- MODULE MCTlb -------------------------------
(***************************************************************************)
(* Small instances of Tlb for TLC.  Pages 0 and 1 hold the root and a leaf *)
(* table, page 2 is data, and higher pages are outside memory.             *)
(***************************************************************************)
EXTENDS Tlb

Leaf(fs, p) == [flags |-> fs \cup {"V"}, ppn |-> p]
Pointer(p) == [flags |-> {"V"}, ppn |-> p]
Empty == [flags |-> {}, ppn |-> 0]

Paged(mode, priv, sum, mprv, mpp) ==
    [satp |-> [mode |-> mode, root |-> 0], priv_mode |-> priv,
     SUM |-> sum, MXR |-> FALSE, MPRV |-> mprv, MPP |-> mpp]

\* Virtual page 0 is a supervisor page, the leaf table itself; page 1 is a
\* user page with data; pages 2 and 3 are a superpage half outside memory.
SelfMapped ==
    [p \in Ram |->
        IF p = 0 THEN [o \in Offsets |-> IF o = 0 THEN Pointer(1) ELSE Leaf({"R", "W"}, 2)]
        ELSE IF p = 1 THEN [o \in Offsets |-> IF o = 0 THEN Leaf({"R", "W"}, 1)
                                              ELSE Leaf({"R", "W", "X", "U"}, 2)]
        ELSE [o \in Offsets |-> Empty]]

KernelAndUser ==
    {Paged("Sv32", Supervisor, FALSE, FALSE, 0), Paged("Sv32", Supervisor, TRUE, FALSE, 0),
     Paged("Sv32", User, FALSE, FALSE, 0)}

WithMprv ==
    {Paged("Sv32", Machine, FALSE, FALSE, 0), Paged("Sv32", Machine, FALSE, TRUE, User),
     Paged("Sv32", Machine, FALSE, TRUE, Supervisor)}

\* Three levels: a user execute-only page, and a superpage at the start of the
\* sign-extended half.
ThreeLevels ==
    [p \in Ram |->
        [o \in Offsets |->
            IF p = 0 THEN IF o = 0 THEN Pointer(1) ELSE Leaf({"R", "X", "A"}, 4)
            ELSE IF p = 1 THEN IF o = 0 THEN Pointer(2) ELSE Leaf({"R", "X"}, 1)
            ELSE IF p = 2 THEN IF o = 0 THEN Leaf({"X", "U"}, 4) ELSE Leaf({"R", "W", "X"}, 4)
            ELSE Empty]]

WithMxr ==
    {[Paged("Sv39", p, TRUE, FALSE, 0) EXCEPT !.MXR = mxr] :
        p \in {User, Supervisor}, mxr \in BOOLEAN}
    \cup {Paged("Sv39", Machine, FALSE, TRUE, User)}

Edits == {Leaf({"R", "W", "U"}, 2)}

Editing ==
    [vpns |-> {0, 1}, kinds |-> {"Load", "Store"}, contexts |-> KernelAndUser,
     mems |-> {SelfMapped}, values |-> Edits, tables |-> {0, 1}]
Fetching ==
    [vpns |-> {0, 1, 2, 4, 12}, kinds |-> {"Fetch", "Load"}, contexts |-> WithMxr,
     mems |-> {ThreeLevels}, values |-> Edits, tables |-> {0, 1, 2}]
Loading == [Editing EXCEPT !.kinds = {"Load"}, !.contexts = WithMprv]
Crossing == [Editing EXCEPT !.vpns = {1, 2}, !.kinds = {"Store"}]

FencedGuests == [sv32 |-> Editing, sv39 |-> Fetching]
MprvGuest == [mprv |-> Loading]
CrossingGuest == [crossing |-> Crossing]

=============================================================================
