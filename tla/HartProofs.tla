----------------------------- MODULE HartProofs -----------------------------
(***************************************************************************)
(* Safety of the privileged architecture for every guest: any set of code  *)
(* addresses, any CSR values, any interrupt lines and any faults.          *)
(***************************************************************************)
EXTENDS Hart, TLAPS

\* What holds of the hart at all times.  The last conjunct is what SBI rests
\* on: no interrupt of machine mode is ever enabled, and the delegation the
\* firmware set up is still in place.
Sound(h) ==
    /\ h \in HartType
    /\ h.mstatus.MPRV => h.priv_mode = Machine
    /\ h.sbi => /\ h.priv_mode < Machine
                /\ h.medeleg = DELEGATED
                /\ h.mideleg = S_VISIBLE
                /\ h.mie \subseteq S_VISIBLE
                /\ h.mcounteren

USE DEF Privs, User, Supervisor, Machine

LEMMA BitsType ==
    /\ ALL \subseteq Nat /\ S_VISIBLE \subseteq ALL
    /\ DELEGATED \subseteq Nat /\ FaultCauses \cup {8} \subseteq DELEGATED
  BY DEF ALL, S_VISIBLE, SSIP, MSIP, STIP, MTIP, SEIP, MEIP, DELEGATED, FaultCauses

LEMMA ResetSound == Reset \in HartType /\ Sound(Reset)
<1>1. ResetStatus \in Status  BY DEF ResetStatus, Status
<1>2. EntryPc \in Nat  BY HartAssumption
<1>3. [base |-> 0, mode |-> 0] \in Tvec  BY DEF Tvec
<1>4. [mode |-> 0, root |-> 0] \in Satp  BY DEF Satp
<1>5. Reset \in HartType  BY <1>1, <1>2, <1>3, <1>4 DEF Reset, HartType
<1> QED  BY <1>5 DEF Sound, Reset, ResetStatus

LEMMA BootSound == Sound(boot_supervisor(Reset))
<1>1. boot_supervisor(Reset) \in HartType
  BY ResetSound, HartAssumption, BitsType DEF boot_supervisor, HartType
<1>2. /\ boot_supervisor(Reset).mstatus = ResetStatus
      /\ boot_supervisor(Reset).mie = {}
  BY DEF boot_supervisor, Reset
<1>3. /\ boot_supervisor(Reset).priv_mode = Supervisor
      /\ boot_supervisor(Reset).medeleg = DELEGATED
      /\ boot_supervisor(Reset).mideleg = S_VISIBLE
      /\ boot_supervisor(Reset).mcounteren = TRUE
  BY ResetSound DEF boot_supervisor, HartType
<1>4. ResetStatus.MPRV = FALSE  BY DEF ResetStatus
<1> QED  BY <1>1, <1>2, <1>3, <1>4 DEF Sound

\* tick_timer changes mip only.
LEMMA TickSound ==
    ASSUME Sound(hart), guest \in Guests, NEW h \in Ticks
    PROVE  Sound(h) /\ h.mip \subseteq ALL /\ \E l : h = [hart EXCEPT !.mip = l]
<1>1. PICK l \in SUBSET (guest.lines \cap (Driven(hart) \cup Raised(hart))) : h = tick_timer(hart, l)
  BY DEF Ticks
<1>2. (hart.mip \ Driven(hart)) \cup l \in SUBSET ALL
  BY HartAssumption DEF Sound, HartType
<1>3. h = [hart EXCEPT !.mip = (hart.mip \ Driven(hart)) \cup l]
  BY <1>1 DEF tick_timer
<1>4. h \in HartType  BY <1>2, <1>3 DEF Sound, HartType
<1> QED  BY <1>2, <1>3, <1>4 DEF Sound, HartType

LEMMA VectorType ==
    ASSUME NEW t \in Tvec, NEW c \in Nat, NEW i \in BOOLEAN
    PROVE  trap_vector(t, c, i) \in Nat
  BY DEF trap_vector, Tvec

LEMMA EnterType ==
    ASSUME NEW h \in HartType, NEW c \in Nat, NEW i \in BOOLEAN
    PROVE  /\ EnterSupervisor(h, c, h.pc, i) \in HartType
           /\ EnterMachine(h, c, h.pc, i) \in HartType
<1>1. h.mstatus \in Status /\ h.priv_mode \in {0, 1, 3} /\ h.pc \in Nat  BY DEF HartType
<1>2. trap_vector(h.stvec, c, i) \in Nat /\ trap_vector(h.mtvec, c, i) \in Nat
  BY VectorType DEF HartType
<1>3. [h.mstatus EXCEPT !.SPIE = h.mstatus.SIE, !.SIE = FALSE,
                        !.SPP = h.priv_mode = Supervisor] \in Status
  BY <1>1 DEF Status
<1>0. h.priv_mode \in 0 .. 3  BY <1>1
<1>4. [h.mstatus EXCEPT !.MPIE = h.mstatus.MIE, !.MIE = FALSE, !.MPP = h.priv_mode] \in Status
  BY <1>0, <1>1 DEF Status
<1>5. EnterSupervisor(h, c, h.pc, i) \in HartType
  BY <1>1, <1>2, <1>3 DEF EnterSupervisor, HartType
<1>6. EnterMachine(h, c, h.pc, i) \in HartType
  BY <1>1, <1>2, <1>4 DEF EnterMachine, HartType
<1> QED  BY <1>5, <1>6

\* The selected interrupt is one that may fire.
LEMMA PendingFires ==
    ASSUME NEW h \in HartType, pending_interrupt(h) # 0
    PROVE  pending_interrupt(h) \in Firing(h)
<1> DEFINE F == Firing(h)
<1>1. F # {}  BY DEF pending_interrupt
<1>2. F \subseteq ALL  BY DEF Firing, HartType
<1> HIDE DEF F
<1>3. \E i \in F : \A j \in F : Rank(i) <= Rank(j)
  <2> USE DEF SSIP, MSIP, STIP, MTIP, SEIP, MEIP
  <2>1. /\ \A j \in F : Rank(j) \in 1 .. 6
        /\ \A j \in F : (MEIP \notin F => Rank(j) >= 2)
        /\ \A j \in F : (MEIP \notin F /\ MSIP \notin F => Rank(j) >= 3)
    BY <1>2 DEF Rank, ALL
  <2>2. /\ \A j \in F : (F \cap {MEIP, MSIP, MTIP} = {} => Rank(j) >= 4)
        /\ \A j \in F : (F \cap {MEIP, MSIP, MTIP, SEIP} = {} => Rank(j) >= 5)
        /\ \A j \in F : (F \cap {MEIP, MSIP, MTIP, SEIP, SSIP} = {} => Rank(j) = 6)
    BY <1>2 DEF Rank, ALL
  <2>3. /\ Rank(MEIP) = 1 /\ Rank(MSIP) = 2 /\ Rank(MTIP) = 3
        /\ Rank(SEIP) = 4 /\ Rank(SSIP) = 5 /\ Rank(STIP) = 6
    BY DEF Rank
  <2>4. CASE MEIP \in F  BY <2>1, <2>3, <2>4
  <2>5. CASE MEIP \notin F /\ MSIP \in F  BY <2>1, <2>3, <2>5
  <2>6. CASE MEIP \notin F /\ MSIP \notin F /\ MTIP \in F  BY <2>1, <2>3, <2>6
  <2>7. CASE F \cap {MEIP, MSIP, MTIP} = {} /\ SEIP \in F  BY <2>1, <2>2, <2>3, <2>7
  <2>8. CASE F \cap {MEIP, MSIP, MTIP, SEIP} = {} /\ SSIP \in F
    BY <2>1, <2>2, <2>3, <2>8
  <2>9. CASE F \cap {MEIP, MSIP, MTIP, SEIP, SSIP} = {}  BY <1>1, <2>1, <2>2, <2>9
  <2> QED  BY <2>4, <2>5, <2>6, <2>7, <2>8, <2>9
<1> QED  BY <1>1, <1>3 DEF pending_interrupt, F

\* Trap entry keeps the hart sound, provided a guest booted by SBI only ever
\* traps to its own supervisor.
LEMMA TrapSound ==
    ASSUME NEW h, Sound(h), NEW c \in Nat, NEW i \in BOOLEAN,
           h.sbi => ToSupervisor(h, c, i)
    PROVE  Sound(take_trap(h, c, h.pc, i))
<1> USE DEF Sound
<1>1. CASE ToSupervisor(h, c, i)
  <2> DEFINE t == EnterSupervisor(h, c, h.pc, i)
  <2>1. t \in HartType  BY EnterType
  <2>2. /\ t.priv_mode = Supervisor /\ t.mstatus.MPRV = h.mstatus.MPRV
        /\ t.sbi = h.sbi /\ t.medeleg = h.medeleg /\ t.mideleg = h.mideleg
        /\ t.mie = h.mie /\ t.mcounteren = h.mcounteren
    BY DEF EnterSupervisor, HartType, Status
  <2>3. h.mstatus.MPRV = FALSE
    <3>1. h.priv_mode # Machine  BY <1>1 DEF ToSupervisor
    <3>2. h.mstatus.MPRV \in BOOLEAN  BY DEF HartType, Status
    <3> QED  BY <3>1, <3>2
  <2> HIDE DEF t
  <2>4. Sound(t)  BY <2>1, <2>2, <2>3
  <2> QED  BY <1>1, <2>4 DEF take_trap, t
<1>2. CASE ~ ToSupervisor(h, c, i)
  <2> DEFINE t == EnterMachine(h, c, h.pc, i)
  <2>1. t \in HartType  BY EnterType
  <2>2. t.priv_mode = Machine /\ t.sbi = h.sbi  BY DEF EnterMachine, HartType
  <2> HIDE DEF t
  <2>3. Sound(t)  BY <1>2, <2>1, <2>2
  <2> QED  BY <1>2, <2>3 DEF take_trap, t
<1> QED  BY <1>1, <1>2

\* An interrupt a booted guest can take is delegated: mie holds no other.
LEMMA InterruptSound ==
    ASSUME NEW h, Sound(h), TakeInterrupt(h)
    PROVE  Sound(hart')
<1>1. pending_interrupt(h) \in Firing(h)  BY PendingFires DEF Sound, TakeInterrupt
<1>2. pending_interrupt(h) \in Nat  BY <1>1, BitsType DEF Firing, Sound, HartType
<1>3. h.sbi => ToSupervisor(h, pending_interrupt(h), TRUE)
  BY <1>1 DEF Firing, Sound, ToSupervisor, HartType
<1> QED  BY <1>2, <1>3, TrapSound DEF TakeInterrupt

\* Every exception a booted guest raises is delegated: an ECALL from
\* supervisor mode is answered by the firmware before it becomes a trap.
LEMMA ExceptionSound ==
    ASSUME NEW h, Sound(h), NEW c \in FaultCauses \cup {8, 9, 11},
           h.sbi => c \notin {9, 11}, Trap(h, c)
    PROVE  Sound(hart') /\ exit' \in Exits
<1>1. c \in Nat  BY DEF FaultCauses
<1>2. h.sbi => ToSupervisor(h, c, FALSE)
  BY BitsType DEF Sound, ToSupervisor, HartType
<1>3. Sound(hart')  BY <1>1, <1>2, TrapSound DEF Trap
<1>4. exit' \in Exits  BY DEF Trap, Verdict, Exits
<1> QED  BY <1>3, <1>4

LEMMA IllegalSound ==
    ASSUME NEW h, Sound(h), Trap(h, IllegalInstruction)
    PROVE  Sound(hart') /\ exit' \in Exits
<1>1. IllegalInstruction \in FaultCauses /\ IllegalInstruction \notin {9, 11}
  BY DEF IllegalInstruction, FaultCauses
<1> QED  BY <1>1, ExceptionSound

LEMMA GotoSound ==
    ASSUME NEW h, Sound(h), Goto(h)
    PROVE  Sound(hart')
<1>1. PICK pc \in Pcs : hart' = [h EXCEPT !.pc = pc]  BY DEF Goto
<1>2. pc \in Nat  BY HartAssumption
<1> QED  BY <1>1, <1>2 DEF Sound, HartType

\* MRET needs machine mode, which a booted guest is never in.
LEMMA MretSound ==
    ASSUME NEW h, Sound(h), h.priv_mode = Machine
    PROVE  Sound(trap_return(h, TRUE))
<1> DEFINE t == MachineReturn(h)
           target == from_bits(h.mstatus.MPP)
           s == [h.mstatus EXCEPT !.MIE = h.mstatus.MPIE, !.MPIE = TRUE,
                                  !.MPP = User, !.MPRV = KeepMprv(h, target)]
<1>1. target \in Privs  BY DEF from_bits
<1> HIDE DEF target
<1>2. h.mstatus \in Status /\ h.mstatus.MPIE \in BOOLEAN  BY DEF Sound, HartType, Status
<1>3. KeepMprv(h, target) \in BOOLEAN /\ (KeepMprv(h, target) => target = Machine)
  BY DEF KeepMprv
<1>9. User \in 0 .. 3  OBVIOUS
<1>4. s \in Status /\ s.MPRV = KeepMprv(h, target)
  BY <1>2, <1>3, <1>9 DEF Status
<1> HIDE DEF s
<1>5. t = [h EXCEPT !.mstatus = s, !.priv_mode = target, !.pc = h.mepc]
  BY DEF MachineReturn, s, target
<1>6. t \in HartType  BY <1>1, <1>4, <1>5 DEF Sound, HartType
<1>7. t.priv_mode = target /\ t.mstatus = s /\ t.sbi = h.sbi
  BY <1>5 DEF Sound, HartType
<1>8. h.sbi = FALSE  BY DEF Sound, HartType
<1> QED  BY <1>3, <1>4, <1>6, <1>7, <1>8 DEF Sound, trap_return

\* SRET lands in supervisor or user mode, so it clears MPRV.
LEMMA SretSound ==
    ASSUME NEW h, Sound(h)
    PROVE  Sound(trap_return(h, FALSE))
<1> DEFINE t == SupervisorReturn(h)
           target == IF h.mstatus.SPP THEN Supervisor ELSE User
           s == [h.mstatus EXCEPT !.SIE = h.mstatus.SPIE, !.SPIE = TRUE,
                                  !.SPP = FALSE, !.MPRV = KeepMprv(h, target)]
<1>1. target \in {0, 1}  OBVIOUS
<1> HIDE DEF target
<1>2. h.mstatus \in Status /\ h.mstatus.SPIE \in BOOLEAN  BY DEF Sound, HartType, Status
<1>3. KeepMprv(h, target) = FALSE  BY <1>1 DEF KeepMprv
<1>4. s \in Status /\ s.MPRV = FALSE  BY <1>2, <1>3 DEF Status
<1> HIDE DEF s
<1>5. t = [h EXCEPT !.mstatus = s, !.priv_mode = target, !.pc = h.sepc]
  BY DEF SupervisorReturn, s, target
<1>6. t \in HartType  BY <1>1, <1>4, <1>5 DEF Sound, HartType
<1>7. /\ t.priv_mode = target /\ t.mstatus = s /\ t.sbi = h.sbi
      /\ t.medeleg = h.medeleg /\ t.mideleg = h.mideleg
      /\ t.mie = h.mie /\ t.mcounteren = h.mcounteren
  BY <1>5 DEF Sound, HartType
<1> QED  BY <1>1, <1>4, <1>6, <1>7 DEF Sound, trap_return

\* CSR writes: the supervisor aliases reach no machine field, and the machine
\* registers need machine mode, which a booted guest is never in.
LEMMA MachineCsrSound ==
    ASSUME NEW h, Sound(h), h.priv_mode = Machine, guest \in Guests,
           NEW a \in MachineCsrs, NEW v \in guest.inputs[a]
    PROVE  Sound(csr_write(h, a, v))
<1>0. v \in CsrType[a]  BY HartAssumption DEF Csrs
<1>1. h \in HartType /\ h.sbi = FALSE  BY DEF Sound, HartType
<1>2. SUFFICES /\ csr_write(h, a, v) \in HartType
               /\ csr_write(h, a, v).priv_mode = Machine
               /\ csr_write(h, a, v).sbi = FALSE
  BY DEF Sound
<1>3. CASE a = "mstatus"
  <2>1. v \in Status  BY <1>0, <1>3 DEF CsrType
  <2>2. csr_write(h, a, v) = [h EXCEPT !.mstatus = v]  BY <1>3 DEF csr_write
  <2> QED  BY <1>1, <2>1, <2>2 DEF HartType
<1>4. CASE a = "mie"
  <2>1. csr_write(h, a, v) = [h EXCEPT !.mie = v \cap ALL]  BY <1>4 DEF csr_write
  <2> QED  BY <1>1, <2>1 DEF HartType
<1>5. CASE a = "mip"
  <2> DEFINE m == Merge(h.mip, v, MIP_WRITABLE)
  <2>1. m \in SUBSET ALL  BY <1>1 DEF Merge, HartType, ALL, MIP_WRITABLE
  <2>2. csr_write(h, a, v) = [h EXCEPT !.mip = m]  BY <1>5 DEF csr_write
  <2> HIDE DEF m
  <2> QED  BY <1>1, <2>1, <2>2 DEF HartType
<1>6. CASE a = "medeleg"
  <2>1. v \in SUBSET Nat  BY <1>0, <1>6 DEF CsrType
  <2>2. csr_write(h, a, v) = [h EXCEPT !.medeleg = v]  BY <1>6 DEF csr_write
  <2> QED  BY <1>1, <2>1, <2>2 DEF HartType
<1>7. CASE a = "mideleg"
  <2>1. v \in SUBSET Nat  BY <1>0, <1>7 DEF CsrType
  <2>2. csr_write(h, a, v) = [h EXCEPT !.mideleg = v]  BY <1>7 DEF csr_write
  <2> QED  BY <1>1, <2>1, <2>2 DEF HartType
<1>8. CASE a = "mtvec"
  <2>1. v \in Tvec  BY <1>0, <1>8 DEF CsrType
  <2>2. LegalTvec(v) \in Tvec  BY <2>1 DEF LegalTvec, Tvec
  <2>3. csr_write(h, a, v) = [h EXCEPT !.mtvec = LegalTvec(v)]  BY <1>8 DEF csr_write
  <2> QED  BY <1>1, <2>2, <2>3 DEF HartType
<1>9. CASE a = "mepc"
  <2>1. v \in Nat  BY <1>0, <1>9 DEF CsrType
  <2>2. v - (v % 2) \in Nat  BY <2>1
  <2>3. csr_write(h, a, v) = [h EXCEPT !.mepc = v - (v % 2)]  BY <1>9 DEF csr_write
  <2> QED  BY <1>1, <2>2, <2>3 DEF HartType
<1>10. CASE a = "mcounteren"
  <2>1. v \in BOOLEAN  BY <1>0, <1>10 DEF CsrType
  <2>2. csr_write(h, a, v) = [h EXCEPT !.mcounteren = v]  BY <1>10 DEF csr_write
  <2> QED  BY <1>1, <2>1, <2>2 DEF HartType
<1> QED
  BY <1>3, <1>4, <1>5, <1>6, <1>7, <1>8, <1>9, <1>10 DEF MachineCsrs

\* What a write to a supervisor register leaves alone.
Untouched(h, g) ==
    /\ g.priv_mode = h.priv_mode /\ g.sbi = h.sbi
    /\ g.medeleg = h.medeleg /\ g.mideleg = h.mideleg
    /\ g.mtvec = h.mtvec /\ g.mepc = h.mepc /\ g.mcounteren = h.mcounteren
    /\ g.mie \ S_VISIBLE = h.mie \ S_VISIBLE
    /\ g.mstatus.MIE = h.mstatus.MIE /\ g.mstatus.MPIE = h.mstatus.MPIE
    /\ g.mstatus.MPP = h.mstatus.MPP /\ g.mstatus.MPRV = h.mstatus.MPRV
    /\ g.mstatus.TVM = h.mstatus.TVM /\ g.mstatus.TW = h.mstatus.TW
    /\ g.mstatus.TSR = h.mstatus.TSR

LEMMA SupervisorCsrUntouched ==
    ASSUME NEW h \in HartType, guest \in Guests,
           NEW a \in SupervisorCsrs, NEW v \in guest.inputs[a]
    PROVE  csr_write(h, a, v) \in HartType /\ Untouched(h, csr_write(h, a, v))
<1>0. v \in CsrType[a]  BY HartAssumption DEF Csrs
<1>1. h.mstatus \in Status  BY DEF HartType
<1>2. CASE a = "sstatus"
  <2> DEFINE s == WriteSstatus(h.mstatus, v)
  <2>1. v \in Status  BY <1>0, <1>2 DEF CsrType
  <2>2. s \in Status  BY <1>1, <2>1 DEF WriteSstatus, Status
  <2>3. /\ s.MIE = h.mstatus.MIE /\ s.MPIE = h.mstatus.MPIE /\ s.MPP = h.mstatus.MPP
        /\ s.MPRV = h.mstatus.MPRV /\ s.TVM = h.mstatus.TVM /\ s.TW = h.mstatus.TW
        /\ s.TSR = h.mstatus.TSR
    BY <1>1 DEF WriteSstatus, Status
  <2>4. csr_write(h, a, v) = [h EXCEPT !.mstatus = s]  BY <1>2 DEF csr_write
  <2> HIDE DEF s
  <2> QED  BY <2>2, <2>3, <2>4 DEF HartType, Untouched
<1>3. CASE a = "sie"
  <2> DEFINE m == Merge(h.mie, v, S_VISIBLE)
  <2>1. m \in SUBSET ALL /\ m \ S_VISIBLE = h.mie \ S_VISIBLE
    BY BitsType DEF Merge, HartType
  <2>2. csr_write(h, a, v) = [h EXCEPT !.mie = m]  BY <1>3 DEF csr_write
  <2> HIDE DEF m
  <2> QED  BY <2>1, <2>2 DEF HartType, Untouched
<1>4. CASE a = "sip"
  <2> DEFINE m == Merge(h.mip, v, SIP_WRITABLE)
  <2>1. m \in SUBSET ALL  BY DEF Merge, HartType, ALL, SIP_WRITABLE
  <2>2. csr_write(h, a, v) = [h EXCEPT !.mip = m]  BY <1>4 DEF csr_write
  <2> HIDE DEF m
  <2> QED  BY <2>1, <2>2 DEF HartType, Untouched
<1>5. CASE a = "stvec"
  <2>1. v \in Tvec  BY <1>0, <1>5 DEF CsrType
  <2>2. LegalTvec(v) \in Tvec  BY <2>1 DEF LegalTvec, Tvec
  <2>3. csr_write(h, a, v) = [h EXCEPT !.stvec = LegalTvec(v)]  BY <1>5 DEF csr_write
  <2> QED  BY <2>2, <2>3 DEF HartType, Untouched
<1>6. CASE a = "sepc"
  <2>1. v \in Nat  BY <1>0, <1>6 DEF CsrType
  <2>2. v - (v % 2) \in Nat  BY <2>1
  <2>3. csr_write(h, a, v) = [h EXCEPT !.sepc = v - (v % 2)]  BY <1>6 DEF csr_write
  <2> QED  BY <2>2, <2>3 DEF HartType, Untouched
<1>7. CASE a = "satp"
  <2>1. v \in Satp  BY <1>0, <1>7 DEF CsrType
  <2>2. csr_write(h, a, v) \in {h, [h EXCEPT !.satp = v]}  BY <1>7 DEF csr_write
  <2> QED  BY <2>1, <2>2 DEF HartType, Untouched
<1>8. CASE a = "scounteren"
  <2>1. v \in BOOLEAN  BY <1>0, <1>8 DEF CsrType
  <2>2. csr_write(h, a, v) = [h EXCEPT !.scounteren = v]  BY <1>8 DEF csr_write
  <2> QED  BY <2>1, <2>2 DEF HartType, Untouched
<1> QED
  BY <1>2, <1>3, <1>4, <1>5, <1>6, <1>7, <1>8 DEF SupervisorCsrs

LEMMA CsrWriteSound ==
    ASSUME NEW h, Sound(h), guest \in Guests, CsrWrite(h), exit \in Exits
    PROVE  Sound(hart') /\ exit' \in Exits
<1>1. PICK a \in Csrs \cup {"time", "unimplemented"} :
        IF accessible(h, a, TRUE)
        THEN \E v \in guest.inputs[a] : Retire(csr_write(h, a, v))
        ELSE Trap(h, IllegalInstruction)
  BY DEF CsrWrite
<1>2. CASE ~ accessible(h, a, TRUE)  BY <1>1, <1>2, IllegalSound
<1>3. CASE accessible(h, a, TRUE)
  <2>1. PICK v \in guest.inputs[a] : Retire(csr_write(h, a, v))  BY <1>1, <1>3
  <2>2. a \in Csrs  BY <1>3 DEF accessible
  <2>3. CASE a \in MachineCsrs
    <3>1. h.priv_mode = Machine  BY <1>3, <2>3 DEF accessible
    <3>2. Sound(csr_write(h, a, v))  BY <2>3, <3>1, MachineCsrSound
    <3> QED  BY <2>1, <3>2, GotoSound DEF Retire
  <2>4. CASE a \in SupervisorCsrs
    <3>1. h \in HartType  BY DEF Sound
    <3>2. csr_write(h, a, v) \in HartType /\ Untouched(h, csr_write(h, a, v))
      BY <2>4, <3>1, SupervisorCsrUntouched
    <3>3. Sound(csr_write(h, a, v))  BY <3>1, <3>2 DEF Sound, Untouched
    <3> QED  BY <2>1, <3>3, GotoSound DEF Retire
  <2> QED  BY <2>2, <2>3, <2>4 DEF Csrs
<1> QED  BY <1>2, <1>3

LEMMA SbiCallSound ==
    ASSUME NEW h, Sound(h), SbiCall(h), exit \in Exits
    PROVE  Sound(hart') /\ exit' \in Exits
<1>1. ASSUME NEW m \in SUBSET ALL PROVE Sound([h EXCEPT !.mip = m])
  BY DEF Sound, HartType
<1>2. /\ h.mip \ {STIP} \in SUBSET ALL
      /\ h.mip \cup {SSIP} \in SUBSET ALL
      /\ h.mip \ {SSIP} \in SUBSET ALL
  BY DEF Sound, HartType, ALL
<1>3. /\ Sound([h EXCEPT !.mip = h.mip \ {STIP}])
      /\ Sound([h EXCEPT !.mip = h.mip \cup {SSIP}])
      /\ Sound([h EXCEPT !.mip = h.mip \ {SSIP}])
  BY <1>1, <1>2
<1>4. \/ Goto([h EXCEPT !.mip = h.mip \ {STIP}])
      \/ Goto([h EXCEPT !.mip = h.mip \cup {SSIP}])
      \/ Goto([h EXCEPT !.mip = h.mip \ {SSIP}])
      \/ Goto(h)
  BY DEF SbiCall, Retire
<1>5. exit' \in Exits  BY DEF SbiCall, Retire, Exits
<1> QED  BY <1>3, <1>4, <1>5, GotoSound

LEMMA ExecuteSound ==
    ASSUME NEW h, Sound(h), guest \in Guests, Execute(h), exit \in Exits
    PROVE  Sound(hart') /\ exit' \in Exits
<1>1. CASE Retire(h)  BY <1>1, GotoSound DEF Retire
<1>2. CASE Trap(h, IllegalInstruction)  BY <1>2, IllegalSound
<1>3. CASE Fault(h)
  <2>1. PICK c \in guest.causes : Trap(h, c)  BY <1>3 DEF Fault
  <2>2. c \in FaultCauses /\ c \notin {9, 11}  BY HartAssumption DEF FaultCauses
  <2> QED  BY <2>1, <2>2, ExceptionSound
<1>4. CASE Ecall(h)
  <2>1. CASE h.sbi /\ h.priv_mode = Supervisor
    BY <1>4, <2>1, SbiCallSound DEF Ecall
  <2>2. CASE ~ (h.sbi /\ h.priv_mode = Supervisor)
    <3>1. Trap(h, EcallCause(h.priv_mode))  BY <1>4, <2>2 DEF Ecall
    <3>2. /\ EcallCause(h.priv_mode) \in FaultCauses \cup {8, 9, 11}
          /\ h.sbi => EcallCause(h.priv_mode) \notin {9, 11}
      BY <2>2 DEF EcallCause, Sound, HartType
    <3> QED  BY <3>1, <3>2, ExceptionSound
  <2> QED  BY <2>1, <2>2
<1>5. CASE Mret(h)  BY <1>2, <1>5, MretSound DEF Mret, Privileged
<1>6. CASE Sret(h)  BY <1>2, <1>6, SretSound DEF Sret, Privileged
<1>7. CASE Wfi(h) \/ SfenceVma(h) \/ ReadTime(h)
  BY <1>1, <1>2, <1>7 DEF Wfi, SfenceVma, ReadTime
<1>8. CASE CsrWrite(h)  BY <1>8, CsrWriteSound
<1>9. CASE StoreTohost(h)
  <2>1. Sound(hart')  BY <1>9, GotoSound DEF StoreTohost
  <2>2. exit' \in Exits  BY <1>9 DEF StoreTohost, Exits
  <2> QED  BY <2>1, <2>2
<1>10. CASE Ordinary(h)  BY <1>1, <1>10 DEF Ordinary
<1> QED
  BY <1>3, <1>4, <1>5, <1>6, <1>7, <1>8, <1>9, <1>10 DEF Execute

Inv == Sound(hart) /\ exit \in Exits /\ guest \in Guests

LEMMA InitInv == Init => Inv
<1>1. Init => Sound(hart)  BY ResetSound, BootSound DEF Init
<1> QED  BY <1>1 DEF Init, Inv, Exits

LEMMA NextInv == Inv /\ [Next]_vars => Inv'
<1> SUFFICES ASSUME Inv, [Next]_vars PROVE Inv'  OBVIOUS
<1>1. CASE step
  <2>1. PICK h \in Ticks : TakeInterrupt(h) \/ Execute(h)  BY <1>1 DEF step
  <2>2. Sound(h)  BY TickSound DEF Inv
  <2>5. guest' \in Guests  BY <1>1 DEF step, Inv
  <2>3. CASE TakeInterrupt(h)
    BY <2>2, <2>3, <2>5, InterruptSound DEF Inv, TakeInterrupt
  <2>4. CASE Execute(h)  BY <2>2, <2>4, <2>5, ExecuteSound DEF Inv
  <2> QED  BY <2>1, <2>3, <2>4, <2>5 DEF Inv
<1>2. CASE UNCHANGED vars  BY <1>2 DEF Inv, vars
<1> QED  BY <1>1, <1>2 DEF Next

\* The registers keep their shape under every guest (csr.rs write, cpu.rs).
THEOREM HartTypeCorrect == Spec => []TypeOK
<1>1. Inv => TypeOK  BY DEF Inv, Sound, TypeOK
<1> QED  BY InitInv, NextInv, <1>1, PTL DEF Spec

\* MPRV is never set below machine mode (cpu.rs trap_return).
THEOREM MprvSafe == Spec => []MprvOnlyInMachine
<1>1. Inv => MprvOnlyInMachine  BY DEF Inv, Sound, MprvOnlyInMachine
<1> QED  BY InitInv, NextInv, <1>1, PTL DEF Spec

\* A guest booted by SBI never runs in machine mode (cpu.rs boot_supervisor).
THEOREM SbiSafe == Spec => []SbiStaysBelowMachine
<1>1. Inv => SbiStaysBelowMachine  BY DEF Inv, Sound, SbiStaysBelowMachine
<1> QED  BY InitInv, NextInv, <1>1, PTL DEF Spec

\* A kernel booted by SBI can always read the clock (cpu.rs counter_enabled).
THEOREM ClockReadable == Spec => []KernelReadsTime
<1>1. Inv => KernelReadsTime
  BY DEF Inv, Sound, KernelReadsTime, accessible, counter_enabled, MachineCsrs, SupervisorCsrs
<1> QED  BY InitInv, NextInv, <1>1, PTL DEF Spec

-----------------------------------------------------------------------------
(* Trap entry followed by the return of the entered mode *)

LEMMA EnterMachineFields ==
    ASSUME NEW h \in HartType
    PROVE  LET t == EnterMachine(h, 2, h.pc, FALSE)
           IN  /\ t.mepc = h.pc /\ t.mstatus.MPIE = h.mstatus.MIE
               /\ t.mstatus.MPP = h.priv_mode /\ t.mstatus.SIE = h.mstatus.SIE
               /\ t.mstatus.MPRV = h.mstatus.MPRV
  BY DEF EnterMachine, HartType, Status

LEMMA EnterSupervisorFields ==
    ASSUME NEW h \in HartType
    PROVE  LET t == EnterSupervisor(h, 2, h.pc, FALSE)
           IN  /\ t.sepc = h.pc /\ t.mstatus.SPIE = h.mstatus.SIE
               /\ t.mstatus.SPP = (h.priv_mode = Supervisor)
               /\ t.mstatus.MIE = h.mstatus.MIE
               /\ t.mstatus.MPRV = h.mstatus.MPRV
  BY DEF EnterSupervisor, HartType, Status

LEMMA MachineReturnFields ==
    ASSUME NEW h \in HartType
    PROVE  LET r == MachineReturn(h)
           IN  /\ r.priv_mode = from_bits(h.mstatus.MPP) /\ r.pc = h.mepc
               /\ r.mstatus.MIE = h.mstatus.MPIE /\ r.mstatus.SIE = h.mstatus.SIE
               /\ r.mstatus.MPRV = KeepMprv(h, from_bits(h.mstatus.MPP))
  BY DEF MachineReturn, HartType, Status

LEMMA SupervisorReturnFields ==
    ASSUME NEW h \in HartType
    PROVE  LET r == SupervisorReturn(h)
           IN  /\ r.priv_mode = (IF h.mstatus.SPP THEN Supervisor ELSE User)
               /\ r.pc = h.sepc
               /\ r.mstatus.SIE = h.mstatus.SPIE /\ r.mstatus.MIE = h.mstatus.MIE
               /\ r.mstatus.MPRV = KeepMprv(h, IF h.mstatus.SPP THEN Supervisor ELSE User)
  BY DEF SupervisorReturn, HartType, Status

LEMMA RoundTrip == Inv => TrapReturnRestores
<1> SUFFICES ASSUME Inv PROVE TrapReturnRestores  OBVIOUS
<1>1. /\ hart \in HartType
      /\ hart.mstatus.MPRV \in BOOLEAN
      /\ hart.mstatus.MPRV => hart.priv_mode = Machine
      /\ hart.priv_mode \in {0, 1, 3}
  BY DEF Inv, Sound, HartType, Status
<1>2. Restored(hart, trap_return(EnterMachine(hart, 2, hart.pc, FALSE), TRUE))
  <2> DEFINE t == EnterMachine(hart, 2, hart.pc, FALSE)
             r == MachineReturn(t)
  <2>1. t \in HartType  BY <1>1, EnterType
  <2>2. /\ t.mepc = hart.pc /\ t.mstatus.MPIE = hart.mstatus.MIE
        /\ t.mstatus.MPP = hart.priv_mode /\ t.mstatus.SIE = hart.mstatus.SIE
        /\ t.mstatus.MPRV = hart.mstatus.MPRV
    BY <1>1, EnterMachineFields
  <2> HIDE DEF t
  <2>3. /\ r.priv_mode = from_bits(t.mstatus.MPP) /\ r.pc = t.mepc
        /\ r.mstatus.MIE = t.mstatus.MPIE /\ r.mstatus.SIE = t.mstatus.SIE
        /\ r.mstatus.MPRV = KeepMprv(t, from_bits(t.mstatus.MPP))
    BY <2>1, MachineReturnFields
  <2>4. from_bits(t.mstatus.MPP) = hart.priv_mode  BY <1>1, <2>2 DEF from_bits
  <2>5. KeepMprv(t, hart.priv_mode) = hart.mstatus.MPRV  BY <1>1, <2>2 DEF KeepMprv
  <2> HIDE DEF r
  <2>6. Restored(hart, r)  BY <2>2, <2>3, <2>4, <2>5 DEF Restored
  <2> QED  BY <2>6 DEF trap_return, r, t
<1>3. ASSUME hart.priv_mode < Machine
      PROVE  Restored(hart, trap_return(EnterSupervisor(hart, 2, hart.pc, FALSE), FALSE))
  <2> DEFINE t == EnterSupervisor(hart, 2, hart.pc, FALSE)
             r == SupervisorReturn(t)
             target == IF t.mstatus.SPP THEN Supervisor ELSE User
  <2>1. t \in HartType  BY <1>1, EnterType
  <2>2. /\ t.sepc = hart.pc /\ t.mstatus.SPIE = hart.mstatus.SIE
        /\ t.mstatus.SPP = (hart.priv_mode = Supervisor)
        /\ t.mstatus.MIE = hart.mstatus.MIE /\ t.mstatus.MPRV = hart.mstatus.MPRV
    BY <1>1, EnterSupervisorFields
  <2> HIDE DEF t
  <2>3. /\ r.priv_mode = target /\ r.pc = t.sepc
        /\ r.mstatus.SIE = t.mstatus.SPIE /\ r.mstatus.MIE = t.mstatus.MIE
        /\ r.mstatus.MPRV = KeepMprv(t, target)
    BY <2>1, SupervisorReturnFields
  <2>4. target = hart.priv_mode
    <3>1. CASE hart.priv_mode = 1  BY <2>2, <3>1
    <3>2. CASE hart.priv_mode = 0
      <4>0. (hart.priv_mode = Supervisor) = FALSE  BY <3>2
      <4>1. t.mstatus.SPP = FALSE  BY <2>2, <4>0, Zenon
      <4> QED  BY <4>1, <3>2
    <3> QED  BY <1>1, <1>3, <3>1, <3>2
  <2>7. hart.mstatus.MPRV = FALSE /\ target # Machine  BY <1>1, <1>3, <2>4
  <2>5. KeepMprv(t, target) = hart.mstatus.MPRV  BY <2>7 DEF KeepMprv
  <2> HIDE DEF r, target
  <2>6. Restored(hart, r)  BY <2>2, <2>3, <2>4, <2>5 DEF Restored
  <2> QED  BY <2>6 DEF trap_return, r, t
<1> QED  BY <1>2, <1>3 DEF TrapReturnRestores

\* A trap and the matching return resume the interrupted context exactly.
THEOREM TrapsReturn == Spec => []TrapReturnRestores
  BY InitInv, NextInv, RoundTrip, PTL DEF Spec

-----------------------------------------------------------------------------
(* Isolation *)

Isolated(h, g) ==
    /\ h.priv_mode < Machine /\ g.priv_mode < Machine => MachineOwned(g) = MachineOwned(h)
    /\ h.priv_mode = User /\ g.priv_mode = User => SupervisorOwned(g) = SupervisorOwned(h)

\* A trap that stays below machine mode entered the supervisor, and pushed
\* nothing but the supervisor's own fields.
LEMMA TrapIsolated ==
    ASSUME NEW h \in HartType, NEW c, NEW i
    PROVE  Isolated(h, take_trap(h, c, h.pc, i))
<1>1. CASE ToSupervisor(h, c, i)
  <2> DEFINE t == EnterSupervisor(h, c, h.pc, i)
  <2>1. MachineOwned(t) = MachineOwned(h) /\ t.priv_mode = Supervisor
    BY DEF EnterSupervisor, MachineOwned, HartType, Status
  <2> HIDE DEF t
  <2>2. Isolated(h, t)  BY <2>1 DEF Isolated
  <2> QED  BY <1>1, <2>2 DEF take_trap, t
<1>2. CASE ~ ToSupervisor(h, c, i)
  <2> DEFINE t == EnterMachine(h, c, h.pc, i)
  <2>1. t.priv_mode = Machine  BY DEF EnterMachine, HartType
  <2> HIDE DEF t
  <2>2. Isolated(h, t)  BY <2>1 DEF Isolated
  <2> QED  BY <1>2, <2>2 DEF take_trap, t
<1> QED  BY <1>1, <1>2

\* SRET pops the supervisor's fields; MPRV was clear below machine mode.
LEMMA SretIsolated ==
    ASSUME NEW h, Sound(h), h.priv_mode >= Supervisor
    PROVE  Isolated(h, trap_return(h, FALSE))
<1> DEFINE target == IF h.mstatus.SPP THEN Supervisor ELSE User
           t == SupervisorReturn(h)
           s == [h.mstatus EXCEPT !.SIE = h.mstatus.SPIE, !.SPIE = TRUE,
                                  !.SPP = FALSE, !.MPRV = KeepMprv(h, target)]
<1>1. h \in HartType /\ h.mstatus \in Status  BY DEF Sound, HartType
<1>2. /\ s.MIE = h.mstatus.MIE /\ s.MPIE = h.mstatus.MPIE /\ s.MPP = h.mstatus.MPP
      /\ s.MPRV = KeepMprv(h, target) /\ s.TVM = h.mstatus.TVM
      /\ s.TW = h.mstatus.TW /\ s.TSR = h.mstatus.TSR
  BY <1>1 DEF Status
<1>3. h.priv_mode < Machine => h.mstatus.MPRV = FALSE
  BY <1>1 DEF Sound, Status
<1>4. KeepMprv(h, target) = FALSE  BY DEF KeepMprv
<1> HIDE DEF s, target
<1>5. t = [h EXCEPT !.mstatus = s, !.priv_mode = target, !.pc = h.sepc]
  BY DEF SupervisorReturn, s, target
<1>6. h.priv_mode < Machine => MachineOwned(t) = MachineOwned(h)
  BY <1>1, <1>2, <1>3, <1>4, <1>5 DEF MachineOwned, HartType
<1>7. h.priv_mode # User  BY <1>1 DEF HartType
<1> QED  BY <1>6, <1>7 DEF Isolated, trap_return

\* Moving the program counter or raising an interrupt is nobody's register.
LEMMA PcMipIsolated ==
    ASSUME NEW h \in HartType, NEW m, NEW pc
    PROVE  /\ MachineOwned([h EXCEPT !.pc = pc]) = MachineOwned(h)
           /\ SupervisorOwned([h EXCEPT !.pc = pc]) = SupervisorOwned(h)
           /\ [h EXCEPT !.pc = pc].priv_mode = h.priv_mode
           /\ MachineOwned([h EXCEPT !.mip = m]) = MachineOwned(h)
           /\ SupervisorOwned([h EXCEPT !.mip = m]) = SupervisorOwned(h)
           /\ [h EXCEPT !.mip = m].priv_mode = h.priv_mode
  BY DEF HartType, MachineOwned, SupervisorOwned

LEMMA GotoIsolated ==
    ASSUME NEW h \in HartType, NEW g \in HartType, Goto(g), Isolated(h, g)
    PROVE  Isolated(h, hart')
<1>1. PICK pc \in Pcs : hart' = [g EXCEPT !.pc = pc]  BY DEF Goto
<1> QED  BY <1>1, PcMipIsolated DEF Isolated

LEMMA CsrIsolated ==
    ASSUME NEW h, Sound(h), guest \in Guests, CsrWrite(h)
    PROVE  Isolated(h, hart')
<1>0. h \in HartType  BY DEF Sound
<1>1. PICK a \in Csrs \cup {"time", "unimplemented"} :
        IF accessible(h, a, TRUE)
        THEN \E v \in guest.inputs[a] : Retire(csr_write(h, a, v))
        ELSE Trap(h, IllegalInstruction)
  BY DEF CsrWrite
<1>2. CASE ~ accessible(h, a, TRUE)  BY <1>0, <1>1, <1>2, TrapIsolated DEF Trap
<1>3. CASE accessible(h, a, TRUE)
  <2>1. PICK v \in guest.inputs[a] : Retire(csr_write(h, a, v))  BY <1>1, <1>3
  <2>2. a \in Csrs  BY <1>3 DEF accessible
  <2> DEFINE g == csr_write(h, a, v)
  <2>3. g \in HartType /\ Isolated(h, g)
    <3>1. CASE a \in MachineCsrs
      <4>1. h.priv_mode = Machine  BY <1>3, <3>1 DEF accessible
      <4>2. g \in HartType  BY <3>1, <4>1, MachineCsrSound DEF Sound
      <4> QED  BY <4>1, <4>2 DEF Isolated
    <3>2. CASE a \in SupervisorCsrs
      <4>1. h.priv_mode >= Supervisor  BY <1>3, <3>2 DEF accessible
      <4>2. g \in HartType /\ Untouched(h, g)  BY <1>0, <3>2, SupervisorCsrUntouched
      <4> HIDE DEF g
      <4>3. MachineOwned(g) = MachineOwned(h)  BY <4>2 DEF Untouched, MachineOwned
      <4> QED  BY <1>0, <4>1, <4>2, <4>3 DEF Isolated, HartType
    <3> QED  BY <2>2, <3>1, <3>2 DEF Csrs
  <2> HIDE DEF g
  <2>4. Goto(g)  BY <2>1 DEF Retire, g
  <2> QED  BY <1>0, <2>3, <2>4, GotoIsolated
<1> QED  BY <1>2, <1>3

LEMMA ExecuteIsolated ==
    ASSUME NEW h, Sound(h), guest \in Guests, TakeInterrupt(h) \/ Execute(h)
    PROVE  Isolated(h, hart')
<1>0. h \in HartType /\ Isolated(h, h)  BY DEF Sound, Isolated
<1>1. CASE Goto(h)  BY <1>0, <1>1, GotoIsolated
<1>2. ASSUME NEW c, Trap(h, c) PROVE Isolated(h, hart')
  BY <1>0, <1>2, TrapIsolated DEF Trap
<1>3. CASE TakeInterrupt(h)  BY <1>0, <1>3, TrapIsolated DEF TakeInterrupt
<1>4. CASE SbiCall(h)
  <2>1. ASSUME NEW m \in SUBSET ALL PROVE [h EXCEPT !.mip = m] \in HartType
    BY <1>0 DEF HartType
  <2>2. ASSUME NEW m \in SUBSET ALL, Goto([h EXCEPT !.mip = m])
        PROVE  Isolated(h, hart')
    <3>1. Isolated(h, [h EXCEPT !.mip = m])  BY <1>0, PcMipIsolated DEF Isolated
    <3> QED  BY <1>0, <2>1, <2>2, <3>1, GotoIsolated
  <2>3. /\ h.mip \ {STIP} \in SUBSET ALL
        /\ h.mip \cup {SSIP} \in SUBSET ALL
        /\ h.mip \ {SSIP} \in SUBSET ALL
    BY <1>0 DEF HartType, ALL
  <2>4. \/ Goto([h EXCEPT !.mip = h.mip \ {STIP}])
        \/ Goto([h EXCEPT !.mip = h.mip \cup {SSIP}])
        \/ Goto([h EXCEPT !.mip = h.mip \ {SSIP}])
        \/ Goto(h)
    BY <1>4 DEF SbiCall, Retire
  <2> QED  BY <1>1, <2>2, <2>3, <2>4
<1>5. CASE Ecall(h)  BY <1>2, <1>4, <1>5 DEF Ecall
<1>6. CASE Mret(h)
  <2>1. CASE h.priv_mode = Machine  BY <2>1 DEF Isolated
  <2>2. CASE h.priv_mode # Machine  BY <1>2, <1>6, <2>2 DEF Mret, Privileged
  <2> QED  BY <2>1, <2>2
<1>7. CASE Sret(h)
  <2>1. CASE hart' = trap_return(h, FALSE) /\ h.priv_mode >= Supervisor
    BY <2>1, SretIsolated
  <2>2. CASE Trap(h, IllegalInstruction)  BY <1>2, <2>2
  <2>3. h.priv_mode \in {0, 1, 3}  BY <1>0 DEF HartType
  <2> DEFINE ok == h.priv_mode > Supervisor
                   \/ (h.priv_mode = Supervisor /\ ~ h.mstatus.TSR)
  <2>4. ok => h.priv_mode >= Supervisor  BY <2>3
  <2>5. IF ok THEN hart' = trap_return(h, FALSE) ELSE Trap(h, IllegalInstruction)
    BY <1>7 DEF Sret, Privileged
  <2> HIDE DEF ok
  <2> QED  BY <2>1, <2>2, <2>4, <2>5
<1>8. CASE CsrWrite(h)  BY <1>8, CsrIsolated
<1>9. CASE Fault(h)  BY <1>2, <1>9 DEF Fault
<1>10. CASE Wfi(h) \/ SfenceVma(h) \/ ReadTime(h) \/ Ordinary(h) \/ StoreTohost(h)
  BY <1>1, <1>2, <1>10 DEF Wfi, SfenceVma, ReadTime, Ordinary, StoreTohost, Retire
<1> QED
  BY <1>3, <1>5, <1>6, <1>7, <1>8, <1>9, <1>10 DEF Execute

LEMMA StepIsolated == Inv /\ [Next]_vars => Isolated(hart, hart') \/ UNCHANGED vars
<1> SUFFICES ASSUME Inv, step PROVE Isolated(hart, hart')  BY DEF Next
<1>1. PICK h \in Ticks : TakeInterrupt(h) \/ Execute(h)  BY DEF step
<1>2. Sound(h) /\ \E l : h = [hart EXCEPT !.mip = l]  BY TickSound DEF Inv
<1>3. Isolated(h, hart')  BY <1>1, <1>2, ExecuteIsolated DEF Inv
<1>5. PICK l : h = [hart EXCEPT !.mip = l]  BY <1>2
<1>6. hart \in HartType  BY DEF Inv, Sound
<1>4. /\ MachineOwned(h) = MachineOwned(hart)
      /\ SupervisorOwned(h) = SupervisorOwned(hart)
      /\ h.priv_mode = hart.priv_mode
  BY <1>5, <1>6, PcMipIsolated
<1> QED  BY <1>3, <1>4 DEF Isolated

\* No step below a mode changes a register that mode owns (csr.rs).
THEOREM HartIsolation == Spec => Isolation
<1>1. Inv /\ [Next]_vars =>
        [/\ hart.priv_mode < Machine /\ hart'.priv_mode < Machine
              => MachineOwned(hart') = MachineOwned(hart)
         /\ hart.priv_mode = User /\ hart'.priv_mode = User
              => SupervisorOwned(hart') = SupervisorOwned(hart)]_vars
  BY StepIsolated DEF Isolated
<1> QED  BY InitInv, NextInv, <1>1, PTL DEF Spec, Isolation

-----------------------------------------------------------------------------
(* Returning twice, and the target of an interrupt *)

LEMMA TwoReturns == Inv => DoubleReturnLeavesMachine
<1> SUFFICES ASSUME Inv, hart.priv_mode = Machine
             PROVE  MachineReturn(MachineReturn(hart)).priv_mode # Machine
  BY DEF DoubleReturnLeavesMachine, trap_return
<1> DEFINE once == MachineReturn(hart)
<1>1. hart \in HartType  BY DEF Inv, Sound
<1>2. once \in HartType  BY MretSound DEF Inv, Sound, trap_return
<1>3. once.mstatus.MPP = User  BY <1>1 DEF MachineReturn, HartType, Status
<1> HIDE DEF once
<1>4. MachineReturn(once).priv_mode = from_bits(once.mstatus.MPP)
  BY <1>2, MachineReturnFields
<1>5. MachineReturn(once).priv_mode # Machine  BY <1>3, <1>4 DEF from_bits
<1> QED  BY <1>5 DEF once

\* A second MRET cannot land in machine mode: the first one emptied MPP
\* (cpu.rs trap_return).
THEOREM SecondReturnLeavesMachine == Spec => []DoubleReturnLeavesMachine
  BY InitInv, NextInv, TwoReturns, PTL DEF Spec

\* Entry into a mode masks that mode's interrupts.
LEMMA EntryMasks ==
    ASSUME NEW h \in HartType, NEW c, NEW i
    PROVE  /\ EnterSupervisor(h, c, h.pc, i).priv_mode = Supervisor
           /\ EnterSupervisor(h, c, h.pc, i).mstatus.SIE = FALSE
           /\ EnterMachine(h, c, h.pc, i).priv_mode = Machine
           /\ EnterMachine(h, c, h.pc, i).mstatus.MIE = FALSE
  BY DEF EnterSupervisor, EnterMachine, HartType, Status

LEMMA TargetsAgree == Inv => InterruptsRespectPrivilege
<1> SUFFICES ASSUME Inv, NEW h \in Ticks, pending_interrupt(h) # 0
             PROVE  LET i == pending_interrupt(h)
                        t == take_trap(h, i, h.pc, TRUE)
                    IN  /\ t.priv_mode >= h.priv_mode
                        /\ t.priv_mode = h.priv_mode => GlobalEnable(h, h.priv_mode)
                        /\ ~ GlobalEnable(t, t.priv_mode)
                        /\ i \in h.mideleg <=> t.priv_mode = Supervisor
  BY DEF InterruptsRespectPrivilege
<1> DEFINE i == pending_interrupt(h)
           t == take_trap(h, i, h.pc, TRUE)
<1>1. h \in HartType  BY TickSound DEF Inv, Sound
<1>2. Enabled(h, i)  BY <1>1, PendingFires DEF Firing
<1>3. h.priv_mode \in {0, 1, 3} /\ h.mstatus.SIE \in BOOLEAN /\ h.mstatus.MIE \in BOOLEAN
  BY <1>1 DEF HartType, Status
<1> HIDE DEF i
<1>4. CASE i \in h.mideleg
  <2>1. h.priv_mode = User \/ (h.priv_mode = Supervisor /\ h.mstatus.SIE)
    BY <1>2, <1>4 DEF Enabled
  <2>7. ToSupervisor(h, i, TRUE)  BY <1>4, <2>1 DEF ToSupervisor
  <2>2. t = EnterSupervisor(h, i, h.pc, TRUE)  BY <2>7 DEF take_trap
  <2>3. t.priv_mode = Supervisor /\ t.mstatus.SIE = FALSE  BY <1>1, <2>2, EntryMasks
  <2> HIDE DEF t
  <2>4. t.priv_mode >= h.priv_mode  BY <2>1, <2>3
  <2>5. t.priv_mode = h.priv_mode => GlobalEnable(h, h.priv_mode)
    BY <2>1, <2>3 DEF GlobalEnable
  <2>6. ~ GlobalEnable(t, t.priv_mode)  BY <2>3 DEF GlobalEnable
  <2>8. i \in h.mideleg <=> t.priv_mode = Supervisor  BY <1>4, <2>3
  <2> QED  BY <2>4, <2>5, <2>6, <2>8 DEF i, t
<1>5. CASE i \notin h.mideleg
  <2>1. h.priv_mode < Machine \/ h.mstatus.MIE  BY <1>2, <1>5 DEF Enabled
  <2>2. t = EnterMachine(h, i, h.pc, TRUE)  BY <1>5 DEF take_trap, ToSupervisor
  <2>3. t.priv_mode = Machine /\ t.mstatus.MIE = FALSE  BY <1>1, <2>2, EntryMasks
  <2> HIDE DEF t
  <2>4. t.priv_mode >= h.priv_mode  BY <1>3, <2>3
  <2>5. t.priv_mode = h.priv_mode => GlobalEnable(h, h.priv_mode)
    BY <2>1, <2>3 DEF GlobalEnable
  <2>6. ~ GlobalEnable(t, t.priv_mode)  BY <2>3 DEF GlobalEnable
  <2>8. i \in h.mideleg <=> t.priv_mode = Supervisor  BY <1>5, <2>3
  <2> QED  BY <2>4, <2>5, <2>6, <2>8 DEF i, t
<1> QED  BY <1>4, <1>5

\* Interrupt selection and trap entry agree on the target mode, whatever the
\* delegation and the enables (cpu.rs pending_interrupt, take_trap).
THEOREM InterruptTargets == Spec => []InterruptsRespectPrivilege
  BY InitInv, NextInv, TargetsAgree, PTL DEF Spec

-----------------------------------------------------------------------------
(* What run() reports as unhandled *)

\* Only an exception ends the run as "unhandled", and under SBI it is one the
\* supervisor takes.
LEMMA UnhandledByTrap ==
    ASSUME NEW h, Sound(h), guest \in Guests, exit = "running",
           TakeInterrupt(h) \/ Execute(h), exit' = "unhandled"
    PROVE  \E c \in FaultCauses \cup {8, 9, 11} :
               Trap(h, c) /\ (h.sbi => ToSupervisor(h, c, FALSE))
<1> DEFINE P == \E c \in FaultCauses \cup {8, 9, 11} :
                    Trap(h, c) /\ (h.sbi => ToSupervisor(h, c, FALSE))
<1>1. ASSUME NEW c \in FaultCauses \cup {8, 9, 11}, Trap(h, c),
             h.sbi => c \notin {9, 11}
      PROVE  P
  BY <1>1, BitsType DEF Sound, ToSupervisor, HartType
<1>2. CASE Trap(h, IllegalInstruction)
  <2>1. IllegalInstruction \in FaultCauses /\ IllegalInstruction \notin {9, 11}
    BY DEF IllegalInstruction, FaultCauses
  <2> QED  BY <1>1, <1>2, <2>1
<1> HIDE DEF P
<1>3. ASSUME NEW g PROVE ~ Retire(g)  BY DEF Retire
<1>4. CASE Fault(h)
  <2>1. PICK c \in guest.causes : Trap(h, c)  BY <1>4 DEF Fault
  <2>2. c \in FaultCauses /\ c \notin {9, 11}  BY HartAssumption DEF FaultCauses
  <2> QED  BY <1>1, <2>1, <2>2 DEF P
<1>5. CASE Ecall(h)
  <2>1. ~ SbiCall(h)  BY <1>3 DEF SbiCall
  <2>2. /\ Trap(h, EcallCause(h.priv_mode))
        /\ ~ (h.sbi /\ h.priv_mode = Supervisor)
    BY <1>5, <2>1 DEF Ecall
  <2>3. /\ EcallCause(h.priv_mode) \in FaultCauses \cup {8, 9, 11}
        /\ h.sbi => EcallCause(h.priv_mode) \notin {9, 11}
    BY <2>2 DEF EcallCause, Sound, HartType
  <2> QED  BY <1>1, <2>2, <2>3 DEF P
<1>6. CASE Mret(h) \/ Sret(h)
  BY <1>2, <1>6 DEF Mret, Sret, Privileged, P
<1>7. CASE Wfi(h) \/ SfenceVma(h) \/ ReadTime(h)
  BY <1>2, <1>3, <1>7 DEF Wfi, SfenceVma, ReadTime, P
<1>8. CASE CsrWrite(h)  BY <1>2, <1>3, <1>8 DEF CsrWrite, P
<1>9. ~ StoreTohost(h) /\ ~ Ordinary(h) /\ ~ TakeInterrupt(h)
  BY <1>3 DEF StoreTohost, Ordinary, TakeInterrupt
<1>10. P  BY <1>4, <1>5, <1>6, <1>7, <1>8, <1>9 DEF Execute, P
<1> QED  BY <1>10 DEF P

UnhandledInv == Inv /\ SbiUnhandledVectorsToZero

LEMMA NextUnhandled == UnhandledInv /\ [Next]_vars => UnhandledInv'
<1> SUFFICES ASSUME UnhandledInv, [Next]_vars,
                    hart'.sbi, exit' = "unhandled"
             PROVE  hart'.pc = 0
  BY NextInv DEF UnhandledInv, SbiUnhandledVectorsToZero
<1>1. CASE UNCHANGED vars  BY <1>1 DEF UnhandledInv, SbiUnhandledVectorsToZero, vars
<1>2. CASE step
  <2>1. PICK h \in Ticks : TakeInterrupt(h) \/ Execute(h)  BY <1>2 DEF step
  <2>2. Sound(h)  BY TickSound DEF UnhandledInv, Inv
  <2>3. exit = "running" /\ guest \in Guests  BY <1>2 DEF step, UnhandledInv, Inv
  <2>4. PICK c \in FaultCauses \cup {8, 9, 11} :
          Trap(h, c) /\ (h.sbi => ToSupervisor(h, c, FALSE))
    BY <2>1, <2>2, <2>3, UnhandledByTrap
  <2>5. h \in HartType  BY <2>2 DEF Sound
  <2>6. hart'.sbi = h.sbi
    BY <2>4, <2>5 DEF Trap, take_trap, EnterSupervisor, EnterMachine, HartType
  <2>7. hart' = EnterSupervisor(h, c, h.pc, FALSE)  BY <2>4, <2>6 DEF Trap, take_trap
  <2>8. hart'.stvec = h.stvec /\ hart'.pc = h.stvec.base
    BY <2>5, <2>7 DEF EnterSupervisor, HartType, trap_vector
  <2>9. no_handler(hart')  BY <2>4 DEF Trap, Verdict
  <2> QED  BY <2>8, <2>9 DEF no_handler
<1> QED  BY <1>1, <1>2 DEF Next

\* Under SBI the run is reported unhandled only when the trap vectored to
\* address zero (cpu.rs run, no_handler).
THEOREM SbiUnhandledIsReal == Spec => []SbiUnhandledVectorsToZero
<1>1. Init => UnhandledInv
  BY InitInv DEF Init, UnhandledInv, SbiUnhandledVectorsToZero
<1>2. UnhandledInv => SbiUnhandledVectorsToZero  BY DEF UnhandledInv
<1> QED  BY <1>1, <1>2, NextUnhandled, PTL DEF Spec

-----------------------------------------------------------------------------
(* Privilege rises only through a trap vector *)

Guarded(h, g) ==
    g.priv_mode > h.priv_mode =>
        g.pc \in Targets(IF g.priv_mode = Machine THEN h.mtvec ELSE h.stvec)

LEMMA TrapGuarded ==
    ASSUME NEW h \in HartType, NEW c, NEW i \in BOOLEAN, i => c \in ALL
    PROVE  Guarded(h, take_trap(h, c, h.pc, i))
<1>1. ASSUME NEW tvec PROVE trap_vector(tvec, c, i) \in Targets(tvec)
  BY DEF trap_vector, Targets
<1>2. CASE ToSupervisor(h, c, i)
  <2> DEFINE t == EnterSupervisor(h, c, h.pc, i)
  <2>1. t.priv_mode = Supervisor /\ t.pc = trap_vector(h.stvec, c, i)
    BY DEF EnterSupervisor, HartType
  <2> HIDE DEF t
  <2>2. t.priv_mode # Machine  BY <2>1
  <2>3. Guarded(h, t)  BY <1>1, <2>1, <2>2 DEF Guarded
  <2> QED  BY <1>2, <2>3 DEF take_trap, t
<1>3. CASE ~ ToSupervisor(h, c, i)
  <2> DEFINE t == EnterMachine(h, c, h.pc, i)
  <2>1. t.priv_mode = Machine /\ t.pc = trap_vector(h.mtvec, c, i)
    BY DEF EnterMachine, HartType
  <2> HIDE DEF t
  <2>2. Guarded(h, t)  BY <1>1, <2>1 DEF Guarded
  <2> QED  BY <1>3, <2>2 DEF take_trap, t
<1> QED  BY <1>2, <1>3

\* A step that does not raise the privilege is guarded.
LEMMA LevelGuarded ==
    ASSUME NEW h \in HartType, NEW g \in HartType, g.priv_mode <= h.priv_mode
    PROVE  Guarded(h, g)
<1>1. h.priv_mode \in {0, 1, 3} /\ g.priv_mode \in {0, 1, 3}  BY DEF HartType
<1> QED  BY <1>1 DEF Guarded

LEMMA GotoGuarded ==
    ASSUME NEW h \in HartType, NEW g \in HartType, Goto(g), g.priv_mode = h.priv_mode
    PROVE  Guarded(h, hart')
<1>1. PICK pc \in Pcs : hart' = [g EXCEPT !.pc = pc]  BY DEF Goto
<1>2. hart'.priv_mode = h.priv_mode  BY <1>1 DEF HartType
<1>3. hart' \in HartType
  <2>1. pc \in Nat  BY HartAssumption
  <2> QED  BY <1>1, <2>1 DEF HartType
<1>4. h.priv_mode \in {0, 1, 3}  BY DEF HartType
<1>5. hart'.priv_mode <= h.priv_mode  BY <1>2, <1>4
<1> QED  BY <1>3, <1>5, LevelGuarded

\* A CSR write leaves the hart in its mode.
LEMMA CsrGuarded ==
    ASSUME NEW h, Sound(h), guest \in Guests, CsrWrite(h)
    PROVE  Guarded(h, hart')
<1>0. h \in HartType  BY DEF Sound
<1>1. PICK a \in Csrs \cup {"time", "unimplemented"} :
        IF accessible(h, a, TRUE)
        THEN \E v \in guest.inputs[a] : Retire(csr_write(h, a, v))
        ELSE Trap(h, IllegalInstruction)
  BY DEF CsrWrite
<1>2. CASE ~ accessible(h, a, TRUE)  BY <1>0, <1>1, <1>2, TrapGuarded DEF Trap
<1>3. CASE accessible(h, a, TRUE)
  <2>1. PICK v \in guest.inputs[a] : Retire(csr_write(h, a, v))  BY <1>1, <1>3
  <2>2. a \in Csrs  BY <1>3 DEF accessible
  <2> DEFINE g == csr_write(h, a, v)
  <2>3. CASE a \in SupervisorCsrs
    <3>1. g \in HartType /\ g.priv_mode = h.priv_mode
      BY <1>0, <2>3, SupervisorCsrUntouched DEF Untouched
    <3> QED  BY <1>0, <2>1, <3>1, GotoGuarded DEF Retire
  <2>4. CASE a \in MachineCsrs
    <3>1. h.priv_mode = Machine  BY <1>3, <2>4 DEF accessible
    <3>2. Sound(g)  BY <2>4, <3>1, MachineCsrSound
    <3> HIDE DEF g
    <3>3. hart' \in HartType  BY <2>1, <3>2, GotoSound DEF Retire, Sound, g
    <3>4. hart'.priv_mode <= h.priv_mode  BY <3>1, <3>3 DEF HartType
    <3> QED  BY <1>0, <3>3, <3>4, LevelGuarded
  <2> QED  BY <2>2, <2>3, <2>4 DEF Csrs
<1> QED  BY <1>2, <1>3

LEMMA ExecuteGuarded ==
    ASSUME NEW h, Sound(h), guest \in Guests, TakeInterrupt(h) \/ Execute(h)
    PROVE  Guarded(h, hart')
<1>0. h \in HartType /\ h.priv_mode \in {0, 1, 3}  BY DEF Sound, HartType
<1>1. CASE Goto(h)  BY <1>0, <1>1, GotoGuarded
<1>2. ASSUME NEW c, Trap(h, c) PROVE Guarded(h, hart')
  BY <1>0, <1>2, TrapGuarded DEF Trap
<1>3. CASE TakeInterrupt(h)
  <2>1. pending_interrupt(h) \in ALL
    BY <1>0, <1>3, PendingFires DEF TakeInterrupt, Firing, HartType
  <2> QED  BY <1>0, <1>3, <2>1, TrapGuarded DEF TakeInterrupt
<1>4. CASE SbiCall(h)
  <2>1. ASSUME NEW m \in SUBSET ALL, Goto([h EXCEPT !.mip = m])
        PROVE  Guarded(h, hart')
    <3>1. [h EXCEPT !.mip = m] \in HartType /\ [h EXCEPT !.mip = m].priv_mode = h.priv_mode
      BY <1>0 DEF HartType
    <3> QED  BY <1>0, <2>1, <3>1, GotoGuarded
  <2>2. /\ h.mip \ {STIP} \in SUBSET ALL
        /\ h.mip \cup {SSIP} \in SUBSET ALL
        /\ h.mip \ {SSIP} \in SUBSET ALL
    BY <1>0 DEF HartType, ALL
  <2>3. \/ Goto([h EXCEPT !.mip = h.mip \ {STIP}])
        \/ Goto([h EXCEPT !.mip = h.mip \cup {SSIP}])
        \/ Goto([h EXCEPT !.mip = h.mip \ {SSIP}])
        \/ Goto(h)
    BY <1>4 DEF SbiCall, Retire
  <2> QED  BY <1>1, <2>1, <2>2, <2>3
<1>5. CASE Ecall(h)  BY <1>2, <1>4, <1>5 DEF Ecall
<1>6. CASE Mret(h)
  <2>1. CASE h.priv_mode = Machine
    <3>1. hart' \in HartType  BY <1>6, <2>1, MretSound DEF Mret, Privileged, Sound
    <3>2. hart'.priv_mode <= h.priv_mode  BY <2>1, <3>1 DEF HartType
    <3> QED  BY <1>0, <3>1, <3>2, LevelGuarded
  <2>2. CASE h.priv_mode # Machine  BY <1>2, <1>6, <2>2 DEF Mret, Privileged
  <2> QED  BY <2>1, <2>2
<1>7. CASE Sret(h)
  <2> DEFINE ok == h.priv_mode > Supervisor
                   \/ (h.priv_mode = Supervisor /\ ~ h.mstatus.TSR)
  <2>1. IF ok THEN hart' = trap_return(h, FALSE) ELSE Trap(h, IllegalInstruction)
    BY <1>7 DEF Sret, Privileged
  <2>2. CASE ok
    <3>1. hart' = SupervisorReturn(h)  BY <2>1, <2>2 DEF trap_return
    <3>2. hart' \in HartType  BY <2>1, <2>2, SretSound DEF Sound
    <3>3. hart'.priv_mode = (IF h.mstatus.SPP THEN Supervisor ELSE User)
      BY <1>0, <3>1, SupervisorReturnFields
    <3>4. hart'.priv_mode <= h.priv_mode  BY <1>0, <2>2, <3>3
    <3> QED  BY <1>0, <3>2, <3>4, LevelGuarded
  <2>3. CASE ~ ok  BY <1>2, <2>1, <2>3
  <2> QED  BY <2>2, <2>3
<1>8. CASE CsrWrite(h)  BY <1>8, CsrGuarded
<1>9. CASE Fault(h)  BY <1>2, <1>9 DEF Fault
<1>10. CASE Wfi(h) \/ SfenceVma(h) \/ ReadTime(h) \/ Ordinary(h) \/ StoreTohost(h)
  BY <1>1, <1>2, <1>10 DEF Wfi, SfenceVma, ReadTime, Ordinary, StoreTohost, Retire
<1> QED
  BY <1>3, <1>5, <1>6, <1>7, <1>8, <1>9, <1>10 DEF Execute

LEMMA StepGuarded == Inv /\ [Next]_vars => Guarded(hart, hart') \/ UNCHANGED vars
<1> SUFFICES ASSUME Inv, step PROVE Guarded(hart, hart')  BY DEF Next
<1>1. PICK h \in Ticks : TakeInterrupt(h) \/ Execute(h)  BY DEF step
<1>2. Sound(h) /\ \E l : h = [hart EXCEPT !.mip = l]  BY TickSound DEF Inv
<1>3. Guarded(h, hart')  BY <1>1, <1>2, ExecuteGuarded DEF Inv
<1>4. PICK l : h = [hart EXCEPT !.mip = l]  BY <1>2
<1>5. hart \in HartType  BY DEF Inv, Sound
<1>6. h.priv_mode = hart.priv_mode /\ h.mtvec = hart.mtvec /\ h.stvec = hart.stvec
  BY <1>4, <1>5 DEF HartType
<1> QED  BY <1>3, <1>6 DEF Guarded

\* No return, CSR write, SBI call or ordinary instruction raises the
\* privilege: the code it rises into is a trap vector of the mode gained
\* (cpu.rs take_trap, trap_return).
THEOREM PrivilegeGuarded == Spec => PrivilegeRisesByTrap
<1>1. Inv /\ [Next]_vars =>
        [hart'.priv_mode > hart.priv_mode =>
           hart'.pc \in Targets(IF hart'.priv_mode = Machine THEN hart.mtvec
                                ELSE hart.stvec)]_vars
  BY StepGuarded DEF Guarded
<1> QED  BY InitInv, NextInv, <1>1, PTL DEF Spec, PrivilegeRisesByTrap

=============================================================================
