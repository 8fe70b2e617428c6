-------------------------------- MODULE Hart --------------------------------
(***************************************************************************)
(* The privileged architecture of the hart: privilege modes, the control   *)
(* and status registers that govern them, trap entry and return, interrupt *)
(* selection and delegation (emu/src/cpu.rs, csr.rs, trap.rs), and the run *)
(* loop's verdict.  Operators take and return the hart's registers as a    *)
(* record.                                                                 *)
(*                                                                         *)
(* Interrupt bit i of mie, mip and mideleg is also cause number i, so those*)
(* registers are sets of causes, and medeleg is a set of exception causes. *)
(* Which instruction faults, and with what cause, is left to the guest.    *)
(***************************************************************************)
EXTENDS InterruptBits

CONSTANTS
    Pcs,            \* addresses guest code runs at
    EntryPc,        \* where reset or the boot protocol enters
    Guests          \* the software this hart may be running

User == 0
Supervisor == 1
Machine == 3
Privs == {User, Supervisor, Machine}

from_bits(v) == IF v = 0 THEN User ELSE IF v = 1 THEN Supervisor ELSE Machine

IllegalInstruction == 2
\* Every cause Exception::cause can yield apart from the ECALLs.
FaultCauses == {0, 1, 2, 3, 4, 5, 6, 7, 12, 13, 15}
EcallCause(priv) == IF priv = User THEN 8 ELSE IF priv = Supervisor THEN 9 ELSE 11

Tvec == [base : Nat, mode : 0 .. 3]
Satp == [mode : Nat, root : Nat]
Status == [SIE : BOOLEAN, MIE : BOOLEAN, SPIE : BOOLEAN, MPIE : BOOLEAN,
           SPP : BOOLEAN, MPP : 0 .. 3, MPRV : BOOLEAN, SUM : BOOLEAN,
           MXR : BOOLEAN, TVM : BOOLEAN, TW : BOOLEAN, TSR : BOOLEAN]

\* The implemented CSRs of the model, with the privilege each one's address
\* demands, and the values software may put there.
CsrType ==
    [mstatus |-> Status, sstatus |-> Status,
     mie |-> SUBSET Nat, sie |-> SUBSET Nat, mip |-> SUBSET Nat, sip |-> SUBSET Nat,
     medeleg |-> SUBSET Nat, mideleg |-> SUBSET Nat,
     mtvec |-> Tvec, stvec |-> Tvec, mepc |-> Nat, sepc |-> Nat, satp |-> Satp,
     mcounteren |-> BOOLEAN, scounteren |-> BOOLEAN]

MachineCsrs ==
    {"mstatus", "mie", "mip", "medeleg", "mideleg", "mtvec", "mepc", "mcounteren"}
SupervisorCsrs == {"sstatus", "sie", "sip", "stvec", "sepc", "satp", "scounteren"}
Csrs == MachineCsrs \cup SupervisorCsrs

\* What a guest is made of: how it was booted, whether it declares tohost, the
\* interrupt bits its devices drive, the exceptions other than ECALL that its
\* instructions raise, and what it writes to each CSR.
ASSUME HartAssumption ==
    /\ Pcs \subseteq Nat /\ EntryPc \in Pcs
    /\ \A g \in Guests :
         /\ g.sbi \in BOOLEAN /\ g.tohost \in BOOLEAN
         /\ g.lines \subseteq ALL
         /\ g.causes \subseteq FaultCauses
         /\ \A a \in Csrs : g.inputs[a] \subseteq CsrType[a]

VARIABLES
    hart,       \* the architectural registers
    exit,       \* "running", or why run() returned
    guest       \* the software that is loaded

vars == <<hart, exit, guest>>

-----------------------------------------------------------------------------
(* Reset and boot *)

ResetStatus ==
    [SIE |-> FALSE, MIE |-> FALSE, SPIE |-> FALSE, MPIE |-> FALSE,
     SPP |-> FALSE, MPP |-> 0, MPRV |-> FALSE, SUM |-> FALSE,
     MXR |-> FALSE, TVM |-> FALSE, TW |-> FALSE, TSR |-> FALSE]

Reset ==
    [priv_mode |-> Machine, pc |-> EntryPc, sbi |-> FALSE, mstatus |-> ResetStatus,
     medeleg |-> {}, mideleg |-> {}, mie |-> {}, mip |-> {},
     mtvec |-> [base |-> 0, mode |-> 0], stvec |-> [base |-> 0, mode |-> 0],
     mepc |-> 0, sepc |-> 0, satp |-> [mode |-> 0, root |-> 0],
     mcounteren |-> FALSE, scounteren |-> FALSE]

\* The bug of forgetting to delegate a cause the kernel can raise.
DELEGATED_NO_FETCH_FAULT == (0 .. 8) \cup {13, 15}

\* The delegation mask 0xb1ff: everything but the ECALLs of S and M.
DELEGATED == (0 .. 8) \cup {12, 13, 15}

\* The bug of booting a kernel that may not read the clock.
boot_without_counters(h) ==
    [h EXCEPT !.medeleg = DELEGATED, !.mideleg = S_VISIBLE,
              !.scounteren = TRUE,
              !.sbi = TRUE, !.priv_mode = Supervisor, !.pc = EntryPc]

boot_supervisor(h) ==
    [h EXCEPT !.medeleg = DELEGATED, !.mideleg = S_VISIBLE,
              !.mcounteren = TRUE, !.scounteren = TRUE,
              !.sbi = TRUE, !.priv_mode = Supervisor, !.pc = EntryPc]

-----------------------------------------------------------------------------
(* Interrupt selection *)

\* ORDER in pending_interrupt: MEI, MSI, MTI, SEI, SSI, STI.
Rank(i) ==
    IF i = MEIP THEN 1 ELSE IF i = MSIP THEN 2 ELSE IF i = MTIP THEN 3
    ELSE IF i = SEIP THEN 4 ELSE IF i = SSIP THEN 5 ELSE 6

\* The bug of asking only the global enable of the current mode.
Enabled_ignoring_delegation(h, i) ==
    h.priv_mode = User \/ IF h.priv_mode = Machine THEN h.mstatus.MIE ELSE h.mstatus.SIE

Enabled(h, i) ==
    IF i \in h.mideleg
    THEN h.priv_mode = User \/ (h.priv_mode = Supervisor /\ h.mstatus.SIE)
    ELSE h.priv_mode < Machine \/ h.mstatus.MIE

Firing(h) == {i \in h.mie \cap h.mip : Enabled(h, i)}

\* 0 stands for None: no interrupt has cause 0.
pending_interrupt(h) ==
    IF Firing(h) = {} THEN 0
    ELSE CHOOSE i \in Firing(h) : \A j \in Firing(h) : Rank(i) <= Rank(j)

-----------------------------------------------------------------------------
(* Trap entry and return *)

trap_vector(tvec, cause, is_interrupt) ==
    IF tvec.mode = 1 /\ is_interrupt THEN tvec.base + 4 * cause ELSE tvec.base

\* The bug of honouring delegation in machine mode too.
ToSupervisor_from_any_mode(h, cause, is_interrupt) ==
    cause \in IF is_interrupt THEN h.mideleg ELSE h.medeleg

ToSupervisor(h, cause, is_interrupt) ==
    /\ h.priv_mode <= Supervisor
    /\ cause \in IF is_interrupt THEN h.mideleg ELSE h.medeleg

EnterSupervisor(h, cause, epc, is_interrupt) ==
    [h EXCEPT !.sepc = epc,
              !.mstatus = [@ EXCEPT !.SPIE = h.mstatus.SIE, !.SIE = FALSE,
                                    !.SPP = h.priv_mode = Supervisor],
              !.priv_mode = Supervisor,
              !.pc = trap_vector(h.stvec, cause, is_interrupt)]

\* The bug of not pushing the interrupt enable on entry.
EnterMachine_without_mpie(h, cause, epc, is_interrupt) ==
    [h EXCEPT !.mepc = epc,
              !.mstatus = [@ EXCEPT !.MIE = FALSE, !.MPP = h.priv_mode],
              !.priv_mode = Machine,
              !.pc = trap_vector(h.mtvec, cause, is_interrupt)]

EnterMachine(h, cause, epc, is_interrupt) ==
    [h EXCEPT !.mepc = epc,
              !.mstatus = [@ EXCEPT !.MPIE = h.mstatus.MIE, !.MIE = FALSE,
                                    !.MPP = h.priv_mode],
              !.priv_mode = Machine,
              !.pc = trap_vector(h.mtvec, cause, is_interrupt)]

take_trap(h, cause, epc, is_interrupt) ==
    IF ToSupervisor(h, cause, is_interrupt)
    THEN EnterSupervisor(h, cause, epc, is_interrupt)
    ELSE EnterMachine(h, cause, epc, is_interrupt)

\* The bug of leaving loads redirected after a return.
KeepMprv_always(h, target) == h.mstatus.MPRV

\* MPRV only has meaning in machine mode: a return below it clears the field.
KeepMprv(h, target) == h.mstatus.MPRV /\ target = Machine

\* The bug of leaving the popped privilege in MPP.
MachineReturn_keeping_mpp(h) ==
    LET target == from_bits(h.mstatus.MPP) IN
    [h EXCEPT !.mstatus = [@ EXCEPT !.MIE = h.mstatus.MPIE, !.MPIE = TRUE,
                                    !.MPRV = KeepMprv(h, target)],
              !.priv_mode = target, !.pc = h.mepc]

MachineReturn(h) ==
    LET target == from_bits(h.mstatus.MPP) IN
    [h EXCEPT !.mstatus = [@ EXCEPT !.MIE = h.mstatus.MPIE, !.MPIE = TRUE,
                                    !.MPP = User, !.MPRV = KeepMprv(h, target)],
              !.priv_mode = target, !.pc = h.mepc]

SupervisorReturn(h) ==
    LET target == IF h.mstatus.SPP THEN Supervisor ELSE User IN
    [h EXCEPT !.mstatus = [@ EXCEPT !.SIE = h.mstatus.SPIE, !.SPIE = TRUE,
                                    !.SPP = FALSE, !.MPRV = KeepMprv(h, target)],
              !.priv_mode = target, !.pc = h.sepc]

trap_return(h, from_machine) ==
    IF from_machine THEN MachineReturn(h) ELSE SupervisorReturn(h)

-----------------------------------------------------------------------------
(* Control and status registers *)

\* "time" is the one read-only, unprivileged register of the model.
counter_enabled(h) ==
    /\ h.priv_mode < Machine => h.mcounteren
    /\ h.priv_mode < Supervisor => h.scounteren

accessible(h, addr, write) ==
    /\ addr \in Csrs \cup {"time"}
    /\ addr \in MachineCsrs => h.priv_mode = Machine
    /\ addr \in SupervisorCsrs => h.priv_mode >= Supervisor
    /\ addr = "time" => ~ write /\ counter_enabled(h)
    /\ ~ (addr = "satp" /\ h.priv_mode = Supervisor /\ h.mstatus.TVM)

\* The reserved modes 2 and 3 become direct mode.
LegalTvec(v) == [base |-> v.base, mode |-> IF v.mode > 1 THEN 0 ELSE v.mode]

\* The bug of an alias that exposes a machine field.
WriteSstatus_with_mprv(old, v) ==
    [old EXCEPT !.SIE = v.SIE, !.SPIE = v.SPIE, !.SPP = v.SPP,
                !.SUM = v.SUM, !.MXR = v.MXR, !.MPRV = v.MPRV]

WriteSstatus(old, v) ==
    [old EXCEPT !.SIE = v.SIE, !.SPIE = v.SPIE, !.SPP = v.SPP,
                !.SUM = v.SUM, !.MXR = v.MXR]

SupportedSatp(v) == v.mode \in {0, 8}

csr_write(h, addr, v) ==
    CASE addr = "mstatus" -> [h EXCEPT !.mstatus = v]
      [] addr = "sstatus" -> [h EXCEPT !.mstatus = WriteSstatus(@, v)]
      [] addr = "mie" -> [h EXCEPT !.mie = v \cap ALL]
      [] addr = "sie" -> [h EXCEPT !.mie = Merge(@, v, S_VISIBLE)]
      [] addr = "mip" -> [h EXCEPT !.mip = Merge(@, v, MIP_WRITABLE)]
      [] addr = "sip" -> [h EXCEPT !.mip = Merge(@, v, SIP_WRITABLE)]
      [] addr = "medeleg" -> [h EXCEPT !.medeleg = v]
      [] addr = "mideleg" -> [h EXCEPT !.mideleg = v]
      [] addr = "mtvec" -> [h EXCEPT !.mtvec = LegalTvec(v)]
      [] addr = "stvec" -> [h EXCEPT !.stvec = LegalTvec(v)]
      [] addr = "mepc" -> [h EXCEPT !.mepc = v - (v % 2)]
      [] addr = "sepc" -> [h EXCEPT !.sepc = v - (v % 2)]
      [] addr = "mcounteren" -> [h EXCEPT !.mcounteren = v]
      [] addr = "scounteren" -> [h EXCEPT !.scounteren = v]
      [] addr = "satp" -> IF SupportedSatp(v) THEN [h EXCEPT !.satp = v] ELSE h

-----------------------------------------------------------------------------
(* One step of the hart *)

\* The mip bits tick_timer recomputes.  With SBI the timer is the firmware's
\* and only ever raises STIP.
Driven(h) == {MSIP, MEIP, SEIP} \cup IF h.sbi THEN {} ELSE {MTIP}
Raised(h) == IF h.sbi THEN {STIP} ELSE {}

tick_timer(h, lines) == [h EXCEPT !.mip = (@ \ Driven(h)) \cup lines]

\* Every state the hart can be in once step() has ticked, before it looks for
\* an interrupt.
Ticks == {tick_timer(hart, l) : l \in SUBSET (guest.lines \cap (Driven(hart) \cup Raised(hart)))}

\* The bug of asking for the machine vector whoever the firmware is.
no_handler_of_machine(h) == h.mtvec.base = 0 /\ h.mtvec.mode = 0

no_handler(h) ==
    LET tvec == IF h.sbi THEN h.stvec ELSE h.mtvec IN tvec.base = 0 /\ tvec.mode = 0

\* What run() makes of an exception that has just been taken.
Verdict(h, cause) ==
    IF cause \in {8, 9, 11} /\ ~ h.sbi /\ ~ guest.tohost THEN "ecall"
    ELSE IF no_handler(h) THEN "unhandled" ELSE "running"

TakeInterrupt(h) ==
    /\ pending_interrupt(h) # 0
    /\ hart' = take_trap(h, pending_interrupt(h), h.pc, TRUE)
    /\ exit' = exit

Trap(h, cause) ==
    /\ hart' = take_trap(h, cause, h.pc, FALSE)
    /\ exit' = Verdict(hart', cause)

\* Execution goes on at some address.
Goto(h) == \E pc \in Pcs : hart' = [h EXCEPT !.pc = pc]

Retire(h) == Goto(h) /\ exit' = exit

Privileged(h, allowed, effect) ==
    IF allowed THEN hart' = effect /\ exit' = exit ELSE Trap(h, IllegalInstruction)

Ordinary(h) == Retire(h)

Fault(h) == \E cause \in guest.causes : Trap(h, cause)

\* handle_sbi, as far as it touches this state; "other" stands for the calls
\* that only move data.
SbiCall(h) ==
    \/ Retire([h EXCEPT !.mip = @ \ {STIP}])        \* set_timer
    \/ Retire([h EXCEPT !.mip = @ \cup {SSIP}])     \* send_ipi
    \/ Retire([h EXCEPT !.mip = @ \ {SSIP}])        \* clear_ipi
    \/ Retire(h)                                    \* other
    \/ Goto(h) /\ exit' = "shutdown"

Ecall(h) ==
    IF h.sbi /\ h.priv_mode = Supervisor THEN SbiCall(h)
    ELSE Trap(h, EcallCause(h.priv_mode))

\* The bug of an MRET any mode may execute.
Mret_from_any_mode(h) == hart' = trap_return(h, TRUE) /\ exit' = exit

Mret(h) == Privileged(h, h.priv_mode = Machine, trap_return(h, TRUE))

Sret(h) ==
    Privileged(h, h.priv_mode > Supervisor
                  \/ (h.priv_mode = Supervisor /\ ~ h.mstatus.TSR),
               trap_return(h, FALSE))

Wfi(h) ==
    IF h.priv_mode < Machine /\ h.mstatus.TW THEN Trap(h, IllegalInstruction)
    ELSE Retire(h)

SfenceVma(h) ==
    IF h.priv_mode < Supervisor \/ (h.priv_mode = Supervisor /\ h.mstatus.TVM)
    THEN Trap(h, IllegalInstruction)
    ELSE Retire(h)

CsrWrite(h) ==
    \E addr \in Csrs \cup {"time", "unimplemented"} :
        IF accessible(h, addr, TRUE)
        THEN \E v \in guest.inputs[addr] : Retire(csr_write(h, addr, v))
        ELSE Trap(h, IllegalInstruction)

ReadTime(h) ==
    IF accessible(h, "time", FALSE) THEN Retire(h) ELSE Trap(h, IllegalInstruction)

\* A nonzero store to tohost: odd values stop the run, even ones are dropped.
StoreTohost(h) ==
    /\ guest.tohost
    /\ Goto(h)
    /\ exit' \in {"pass", "fail", exit}

Execute(h) ==
    /\ pending_interrupt(h) = 0
    /\ \/ Ordinary(h)
       \/ Fault(h)
       \/ Ecall(h)
       \/ Mret(h)
       \/ Sret(h)
       \/ Wfi(h)
       \/ SfenceVma(h)
       \/ CsrWrite(h)
       \/ ReadTime(h)
       \/ StoreTohost(h)

step ==
    /\ exit = "running"
    /\ \E h \in Ticks : TakeInterrupt(h) \/ Execute(h)
    /\ guest' = guest

Init ==
    /\ guest \in Guests
    /\ hart = IF guest.sbi THEN boot_supervisor(Reset) ELSE Reset
    /\ exit = "running"

\* run(): the step budget is left out, it only cuts a behaviour short.
Next == step

Spec == Init /\ [][Next]_vars

-----------------------------------------------------------------------------
(* Properties *)

HartType ==
    [priv_mode : Privs, pc : Nat, sbi : BOOLEAN, mstatus : Status,
     medeleg : SUBSET Nat, mideleg : SUBSET Nat, mie : SUBSET ALL, mip : SUBSET ALL,
     mtvec : Tvec, stvec : Tvec, mepc : Nat, sepc : Nat, satp : Satp,
     mcounteren : BOOLEAN, scounteren : BOOLEAN]

Exits == {"running", "pass", "fail", "ecall", "unhandled", "shutdown"}

\* Type correctness: the registers keep their shape, and mie and mip hold only
\* implemented interrupts whatever software writes (csr.rs write).
TypeOK == hart \in HartType /\ exit \in Exits /\ guest \in Guests

\* MPRV redirects loads only in machine mode: no sequence of traps, returns
\* and CSR writes leaves it set below (cpu.rs trap_return, csr.rs SSTATUS).
MprvOnlyInMachine == hart.mstatus.MPRV => hart.priv_mode = Machine

\* Under SBI the emulator is the firmware and the guest never gets into
\* machine mode: everything it can raise is delegated or answered
\* (cpu.rs boot_supervisor, step).
SbiStaysBelowMachine == hart.sbi => hart.priv_mode < Machine

\* The kernel can always read the clock (cpu.rs boot_supervisor).
KernelReadsTime ==
    hart.sbi /\ hart.priv_mode = Supervisor => accessible(hart, "time", FALSE)

\* Under SBI, run() reports an unhandled trap only when the trap really
\* vectored to address zero (cpu.rs no_handler).
SbiUnhandledVectorsToZero == hart.sbi /\ exit = "unhandled" => hart.pc = 0

\* The same of every guest, as the comment on no_handler has it: "Whether a
\* trap would vector to address zero".
UnhandledVectorsToZero == exit = "unhandled" => hart.pc = 0

Restored(h, r) ==
    /\ r.priv_mode = h.priv_mode
    /\ r.pc = h.pc
    /\ r.mstatus.MIE = h.mstatus.MIE
    /\ r.mstatus.SIE = h.mstatus.SIE
    /\ r.mstatus.MPRV = h.mstatus.MPRV

\* "xRET pops them back out": from every reachable state, a trap and the
\* return of the handler's mode resume the interrupted code with its
\* privilege, interrupt enables and MPRV (cpu.rs take_trap, trap_return).
TrapReturnRestores ==
    /\ Restored(hart, trap_return(EnterMachine(hart, 2, hart.pc, FALSE), TRUE))
    /\ hart.priv_mode < Machine =>
         Restored(hart, trap_return(EnterSupervisor(hart, 2, hart.pc, FALSE), FALSE))

\* "a handler that returns twice cannot accidentally return to machine mode
\* the second time" (cpu.rs trap_return).
DoubleReturnLeavesMachine ==
    LET once == trap_return(hart, TRUE) IN
    hart.priv_mode = Machine /\ once.priv_mode = Machine
        => trap_return(once, TRUE).priv_mode # Machine

GlobalEnable(h, priv) ==
    IF priv = Machine THEN h.mstatus.MIE ELSE priv = Supervisor /\ h.mstatus.SIE

\* "A less privileged mode's interrupt never preempts" (pending_interrupt):
\* the selection and the trap entry agree on the target mode, an interrupt of
\* the current mode needs that mode's enable, and entry masks the next one.
InterruptsRespectPrivilege ==
    \A h \in Ticks :
        LET i == pending_interrupt(h)
            t == take_trap(h, i, h.pc, TRUE)
        IN  i # 0 =>
              /\ t.priv_mode >= h.priv_mode
              /\ t.priv_mode = h.priv_mode => GlobalEnable(h, h.priv_mode)
              /\ ~ GlobalEnable(t, t.priv_mode)
              /\ i \in h.mideleg <=> t.priv_mode = Supervisor

MachineOwned(h) ==
    <<h.medeleg, h.mideleg, h.mtvec, h.mepc, h.mcounteren, h.mie \ S_VISIBLE,
      h.mstatus.MIE, h.mstatus.MPIE, h.mstatus.MPP, h.mstatus.MPRV,
      h.mstatus.TVM, h.mstatus.TW, h.mstatus.TSR>>

SupervisorOwned(h) ==
    <<h.stvec, h.sepc, h.satp, h.scounteren, h.mie, h.mstatus>>

\* The supervisor aliases are windows, not doors: a step that stays below a
\* mode changes nothing that mode owns (csr.rs write, accessible).
Isolation ==
    [][/\ hart.priv_mode < Machine /\ hart'.priv_mode < Machine
            => MachineOwned(hart') = MachineOwned(hart)
       /\ hart.priv_mode = User /\ hart'.priv_mode = User
            => SupervisorOwned(hart') = SupervisorOwned(hart)]_vars

Targets(tvec) == {tvec.base} \cup {tvec.base + 4 * i : i \in ALL}

\* Privilege rises only by entering the trap vector of the mode gained: no
\* return, CSR write or SBI call raises it (cpu.rs take_trap, trap_return).
PrivilegeRisesByTrap ==
    [][hart'.priv_mode > hart.priv_mode =>
         hart'.pc \in Targets(IF hart'.priv_mode = Machine THEN hart.mtvec ELSE hart.stvec)]_vars

=============================================================================
