------------------------------- MODULE MCHart -------------------------------
(***************************************************************************)
(* Small instances of Hart for TLC.                                        *)
(***************************************************************************)
EXTENDS Hart

Tv(b, m) == [base |-> b, mode |-> m]

Nothing == [a \in Csrs |-> {}]

StatusWith(ie, spp, mpp, mprv, traps) ==
    [ResetStatus EXCEPT !.SIE = ie, !.MIE = ie, !.SPP = spp, !.MPP = mpp,
                        !.MPRV = mprv, !.TVM = traps, !.TW = traps, !.TSR = traps]

\* A machine-mode guest that reconfigures delegation and privilege.
BareInputs ==
    [Nothing EXCEPT
        !["mstatus"] = {StatusWith(ie, FALSE, p, TRUE, FALSE) :
                          ie \in BOOLEAN, p \in {0, 2, 3}}
                       \cup {StatusWith(FALSE, TRUE, 1, TRUE, TRUE)},
        !["sstatus"] = {StatusWith(ie, ~ ie, 3, TRUE, TRUE) : ie \in BOOLEAN},
        !["mie"] = {{MSIP}}, !["sie"] = {{MSIP, SSIP, MTIP}},
        !["sip"] = {{}, {SSIP, MSIP}},
        !["medeleg"] = {{2, 8}}, !["mideleg"] = {{SSIP}},
        !["mtvec"] = {Tv(64, 0)}]

\* A kernel booted through SBI: it can reach the supervisor registers only,
\* and tries the machine ones in vain.
SbiInputs ==
    [Nothing EXCEPT
        !["sstatus"] = {StatusWith(ie, spp, 3, TRUE, TRUE) : ie \in BOOLEAN, spp \in BOOLEAN},
        !["mstatus"] = {StatusWith(TRUE, TRUE, 3, TRUE, TRUE)},
        !["sie"] = {{}, ALL}, !["sip"] = {{}, ALL},
        !["stvec"] = {Tv(0, 0), Tv(128, 1)}, !["sepc"] = {8},
        !["satp"] = {[mode |-> 8, root |-> 1], [mode |-> 9, root |-> 1]},
        !["scounteren"] = BOOLEAN, !["mcounteren"] = {FALSE}]

\* Machine-mode software exercising both trap vectors.
VectorInputs ==
    [Nothing EXCEPT
        !["mstatus"] = {StatusWith(TRUE, FALSE, 1, FALSE, FALSE)},
        !["mie"] = {ALL}, !["mip"] = {{}, {SSIP}},
        !["medeleg"] = {{}, {2, 8}}, !["mideleg"] = {{}, S_VISIBLE},
        !["mtvec"] = {Tv(64, 0), Tv(64, 1), Tv(96, 2)}, !["stvec"] = {Tv(128, 0)}]

\* The same with vectored interrupts from two devices and a software bit.
DeliveryInputs ==
    [Nothing EXCEPT
        !["mstatus"] = {StatusWith(TRUE, FALSE, p, FALSE, FALSE) : p \in {0, 1}},
        !["mie"] = {ALL}, !["mip"] = {{SSIP}}, !["medeleg"] = {{2, 8}},
        !["mideleg"] = {{}, {SSIP, SEIP}}, !["mtvec"] = {Tv(64, 1)}]

Bare == [sbi |-> FALSE, tohost |-> FALSE, lines |-> {MSIP}, causes |-> {2},
         inputs |-> BareInputs]
Kernel == [sbi |-> TRUE, tohost |-> FALSE, lines |-> {STIP, SEIP, MEIP},
           causes |-> FaultCauses, inputs |-> SbiInputs]
Delivery == [sbi |-> FALSE, tohost |-> TRUE, lines |-> {MSIP, SEIP}, causes |-> {2},
             inputs |-> DeliveryInputs]
Vectored == [sbi |-> FALSE, tohost |-> TRUE, lines |-> {}, causes |-> {2},
             inputs |-> VectorInputs]

AllGuests == {Bare, Kernel, Delivery}
VectoredOnly == {Vectored}

=============================================================================
