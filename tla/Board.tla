-------------------------------- MODULE Board --------------------------------
(***************************************************************************)
(* The devices behind the memory map and how they reach the hart: PLIC,    *)
(* UART and CLINT (emu/src/memory.rs), the per-step refresh of mip         *)
(* (cpu.rs tick_timer) with its dirty flag and periodic sweep, and the SBI *)
(* calls that touch a device (sbi.rs).                                     *)
(*                                                                         *)
(* A step of the hart is two actions: tick_timer, after which phase is     *)
(* "exec" and pending_interrupt looks at mip, and then one instruction,    *)
(* device access or SBI call of an arbitrary guest.                        *)
(***************************************************************************)
EXTENDS Plic, Uart, InterruptBits, FiniteSets

CONSTANTS
    UART_IRQ,               \* the UART's source number
    CONTEXT_MACHINE, CONTEXT_SUPERVISOR,
    DEVICE_POLL_INTERVAL,   \* steps between unconditional sweeps
    TimeModulus,            \* mtime wraps here (2^64 in the code)
    Guests,                 \* the software this board may be running
    Buffers                 \* where the bytes of a debug-console buffer lie

\* What is at a physical address: memory, the UART's receive register, a PLIC
\* claim register, another device register, or nothing (below memory or past it).
Mapped == {"dram", "rbr", "claim", "register"}
BelowDram == {"rbr", "claim", "register", "hole"}
Places == Mapped \cup {"hole", "beyond"}

\* A guest is booted through SBI or not, is RV32 or RV64, and uses some of the
\* operations.  A buffer is short enough to cover one claim register.
ASSUME BoardAssumption ==
    /\ UART_IRQ \in Sources
    /\ CONTEXTS = {CONTEXT_MACHINE, CONTEXT_SUPERVISOR}
    /\ CONTEXT_MACHINE # CONTEXT_SUPERVISOR
    /\ DEVICE_POLL_INTERVAL \in Nat \ {0}
    /\ TimeModulus \in Nat \ {0}
    /\ \A g \in Guests : g.sbi \in BOOLEAN /\ g.rv32 \in BOOLEAN
    /\ \A b \in Buffers : /\ b \in Seq(Places)
                         /\ \A i, j \in DOMAIN b : b[i] = "claim" /\ b[j] = "claim" => i = j

VARIABLES
    msip, mtimecmp, mtime,  \* the CLINT
    mip,                    \* pending interrupts, a set of bits
    timer_armed,            \* an SBI timer is scheduled and has not fired
    devices_dirty,          \* a device register was touched since the sweep
    cycle,                  \* the step counter modulo the poll interval
    phase,                  \* "tick" between steps, "exec" inside one
    ipi_due,                \* history: the IPIs sent to this hart and not yet cleared
    guest                   \* the software that is loaded

clintVars == <<msip, mtimecmp, mtime>>
cpuVars == <<mip, timer_armed, devices_dirty, cycle, phase, ipi_due>>
vars == <<plicVars, uartVars, clintVars, cpuVars, guest>>

Times == 0 .. TimeModulus - 1

\* An IPI names this hart by the base that means every hart, or otherwise.
IpiKinds == {"all_ones", "other"}

ExtBit(c) == IF c = CONTEXT_MACHINE THEN MEIP ELSE SEIP

Init ==
    /\ PlicInit /\ UartInit
    /\ msip = 0 /\ mtimecmp = 0 /\ mtime = 0
    /\ mip = {} /\ timer_armed = FALSE
    /\ devices_dirty = TRUE
    /\ cycle = 0 /\ phase = "tick"
    /\ ipi_due = {}
    /\ guest \in Guests

-----------------------------------------------------------------------------
(* tick_timer *)

\* The off-by-one of a comparator that fires one tick late.
Expired_late == mtime' > mtimecmp

Expired == mtime' >= mtimecmp

\* The machine timer follows its comparator; the firmware's raises STIP once.
TimerBits ==
    IF guest.sbi THEN IF timer_armed /\ Expired THEN {STIP} ELSE {}
    ELSE IF Expired THEN {MTIP} ELSE {}

\* The bug of disarming whether or not the timer fired.
disarm_always == timer_armed' = FALSE

disarm == timer_armed' = (timer_armed /\ ~ (guest.sbi /\ Expired))

\* The bug of sweeping only when something happened.
SweepNeeded_no_poll == devices_dirty \/ has_input

\* The bug of relying on the dirty flag alone.
SweepNeeded_dirty_only == devices_dirty

SweepNeeded == devices_dirty \/ has_input \/ cycle' = 0

ExternalBits ==
    IF SweepNeeded THEN {ExtBit(c) : c \in {d \in CONTEXTS : is_pending(d)'}}
    ELSE mip \cap {MEIP, SEIP}

tick_timer ==
    /\ phase = "tick" /\ phase' = "exec"
    /\ cycle' = (cycle + 1) % DEVICE_POLL_INTERVAL
    /\ mtime' = (mtime + 1) % TimeModulus
    /\ UNCHANGED <<uartVars, msip, mtimecmp, ipi_due, guest>>
    /\ IF SweepNeeded THEN set_level(UART_IRQ, is_interrupting) /\ devices_dirty' = FALSE
       ELSE UNCHANGED plicVars /\ devices_dirty' = devices_dirty
    /\ disarm
    /\ mip' = (mip \cap ({SSIP, STIP} \cup IF guest.sbi THEN {MTIP} ELSE {}))
              \cup TimerBits
              \cup (IF msip # 0 THEN {MSIP} ELSE {})
              \cup ExternalBits

-----------------------------------------------------------------------------
(* One instruction *)

Executes(op) ==
    /\ op \in guest.ops /\ phase = "exec" /\ phase' = "tick"
    /\ UNCHANGED <<cycle, guest>>
    /\ op \in {"ipi", "csr"} \/ UNCHANGED ipi_due

\* The bug of flagging writes only.
Touches_silently(op) ==
    Executes(op) /\ devices_dirty' = devices_dirty /\ UNCHANGED <<mip, timer_armed>>

\* Memory::read and write below DRAM_BASE: the flag is set whatever is there.
Touches(op) == Executes(op) /\ devices_dirty' = TRUE /\ UNCHANGED <<mip, timer_armed>>

PlicAccess ==
    /\ Touches("plic")
    /\ UNCHANGED <<uartVars, clintVars>>
    /\ \/ \E c \in CONTEXTS : claim(c)
       \/ \E s \in Bits : complete(s)
       \/ \E s \in Bits, w \in Words : WritePriority(s, w)
       \/ \E c \in CONTEXTS, w \in SUBSET Bits : WriteEnable(c, w)
       \/ \E c \in CONTEXTS, w \in Words : WriteThreshold(c, w)

UartReadRbr == Touches("rbr") /\ ReadRbr /\ UNCHANGED <<plicVars, clintVars>>

UartControl ==
    /\ Touches("uart")
    /\ UNCHANGED <<plicVars, clintVars>>
    /\ \/ \E b \in SUBSET {"rx", "thr"} : WriteIer(b, 0)
       \/ \E b \in BOOLEAN : WriteLcr(b)

UartTransmit ==
    /\ Touches("thr")
    /\ \E b \in Bytes : WriteThr(b)
    /\ UNCHANGED <<plicVars, clintVars>>

ClintAccess ==
    /\ Touches("clint")
    /\ UNCHANGED <<plicVars, uartVars>>
    /\ \/ msip' \in {0, 1} /\ UNCHANGED <<mtimecmp, mtime>>
       \/ mtimecmp' \in Times /\ UNCHANGED <<msip, mtime>>

\* Software moves the clock itself.
ClintSetTime ==
    /\ Touches("mtime")
    /\ mtime' \in Times
    /\ UNCHANGED <<plicVars, uartVars, msip, mtimecmp>>

\* An access below DRAM that finds no device, or a register without effect.
OtherAccess == Touches("other") /\ UNCHANGED <<plicVars, uartVars, clintVars>>

\* How many addresses are read before one is not mapped.
Reached(places) ==
    CHOOSE n \in 0 .. Len(places) :
        /\ \A i \in 1 .. n : places[i] \in Mapped
        /\ n < Len(places) => places[n + 1] \notin Mapped

ReadsOf(places, what) == {i \in 1 .. Reached(places) : places[i] = what}

\* Memory::read of each address up to the first that is not mapped: a device
\* register has its side effect, and the flag is set even where nothing is.
Reads(places, c) ==
    /\ rx' = IF dlab THEN rx ELSE SubSeq(rx, 1 + Cardinality(ReadsOf(places, "rbr")), Len(rx))
    /\ claimed' = IF ReadsOf(places, "claim") # {} /\ best(c) # 0 THEN claimed \cup {best(c)}
                  ELSE claimed
    /\ devices_dirty' = (devices_dirty \/ \E i \in DOMAIN places :
                                             i <= Reached(places) + 1 /\ places[i] \in BelowDram)
    /\ UNCHANGED <<priority, levels, enable, threshold, ier, dlab, divisor>>

\* An AMO on a device register reads it first, and has done so when the
\* operation turns out to be undefined and the instruction traps.
AmoUndefined ==
    /\ Executes("amo")
    /\ \E place \in Mapped \ {"dram"}, c \in CONTEXTS : Reads(<<place>>, c)
    /\ UNCHANGED <<tx, clintVars, mip, timer_armed>>

\* A defined one then writes: what it claimed it may complete at once, and what
\* it received it may send back.
AmoClaim ==
    /\ Touches("amo")
    /\ \E c \in CONTEXTS, s \in Bits :
         claimed' = (claimed \cup {best(c)}) \ {0, s}
    /\ UNCHANGED <<priority, levels, enable, threshold, uartVars, clintVars>>

AmoUart ==
    /\ Touches("amo")
    /\ rx' = IF dlab THEN rx ELSE Pop
    /\ \E b \in Bytes :
         \/ dlab /\ divisor' = [divisor EXCEPT !.low = b] /\ tx' = tx
         \/ ~ dlab /\ Len(tx) < MaxQueue /\ tx' = Append(tx, b) /\ divisor' = divisor
    /\ UNCHANGED <<plicVars, ier, dlab, clintVars>>

\* CSR writes of mip (machine mode only) and sip.
CsrPending ==
    /\ Executes("csr")
    /\ \/ ~ guest.sbi /\ \E v \in SUBSET ALL : mip' = Merge(mip, v, MIP_WRITABLE)
       \/ \E v \in SUBSET ALL : mip' = Merge(mip, v, SIP_WRITABLE)
    /\ ipi_due' = IF SSIP \in mip' THEN ipi_due ELSE {}
    /\ UNCHANGED <<plicVars, uartVars, clintVars, timer_armed, devices_dirty>>

\* Anything that touches no device, an interrupt being taken included.
OtherInstruction ==
    /\ Executes("none")
    /\ UNCHANGED <<plicVars, uartVars, clintVars, mip, timer_armed, devices_dirty>>

-----------------------------------------------------------------------------
(* SBI calls: they reach the devices behind the dirty flag's back *)

\* The bug of scheduling without retracting a pending interrupt.
set_timer_without_retract(when) ==
    /\ mtimecmp' = when /\ timer_armed' = TRUE
    /\ mip' = mip

set_timer(when) ==
    /\ mtimecmp' = when /\ timer_armed' = TRUE
    /\ mip' = mip \ {STIP}

SbiSetTimer ==
    /\ guest.sbi /\ Executes("set_timer")
    /\ \E when \in Times : set_timer(when)
    /\ UNCHANGED <<plicVars, uartVars, msip, mtime, devices_dirty>>

SbiGetchar ==
    /\ guest.sbi /\ Executes("getchar")
    /\ take_input
    /\ UNCHANGED <<plicVars, clintVars, mip, timer_armed, devices_dirty>>

SbiPutchar ==
    /\ guest.sbi /\ Executes("putchar")
    /\ \E b \in Bytes : putchar(b)
    /\ UNCHANGED <<plicVars, clintVars, mip, timer_armed, devices_dirty>>

\* A buffer is printed a byte at a time from physical memory, up to the first
\* byte that is not mapped; what the bytes are is left open.
SbiDebugWrite ==
    /\ guest.sbi /\ Executes("dbcn")
    /\ \E places \in Buffers, c \in CONTEXTS :
         /\ Reads(places, c)
         /\ Len(tx) + Reached(places) <= MaxQueue
         /\ \E bytes \in [1 .. Reached(places) -> Bytes] : tx' = tx \o bytes
    /\ UNCHANGED <<clintVars, mip, timer_armed>>

\* The bug of looking at the mask whatever the base.
hart_selected_by_mask(mask, base) == base = "zero" /\ mask

\* Whether the firmware takes hart 0 to be meant.  The base is compared with
\* all ones at 64 bits, which a register of RV32 never holds; mask is bit 0.
hart_selected(mask, base) == (base = "ones" /\ ~ guest.rv32) \/ (base = "zero" /\ mask)

\* What the caller means by it: the IPIs hart 0 is now owed.
Addressed(mask, base) ==
    {kind \in IpiKinds : IF kind = "all_ones" THEN base = "ones" ELSE base = "zero" /\ mask}

SbiIpi ==
    /\ guest.sbi /\ Executes("ipi")
    /\ \E mask \in BOOLEAN, base \in {"zero", "one", "ones"} :
         /\ mip' = IF hart_selected(mask, base) THEN mip \cup {SSIP} ELSE mip
         /\ ipi_due' = ipi_due \cup Addressed(mask, base)
    /\ UNCHANGED <<plicVars, uartVars, clintVars, timer_armed, devices_dirty>>

\* The legacy call points at its mask, physically; null means every hart.
LegacyIpi ==
    /\ guest.sbi /\ Executes("ipi")
    /\ \/ /\ mip' = mip \cup {SSIP} /\ ipi_due' = ipi_due \cup {"other"}
          /\ UNCHANGED <<plicVars, uartVars, devices_dirty>>
       \/ \E place \in Places, c \in CONTEXTS, mask \in BOOLEAN :
            /\ Reads(<<place>>, c) /\ tx' = tx
            /\ IF place \in Mapped /\ mask
               THEN mip' = mip \cup {SSIP} /\ ipi_due' = ipi_due \cup {"other"}
               ELSE UNCHANGED <<mip, ipi_due>>
    /\ UNCHANGED <<clintVars, timer_armed>>

LegacyClearIpi ==
    /\ guest.sbi /\ Executes("ipi")
    /\ mip' = mip \ {SSIP} /\ ipi_due' = {}
    /\ UNCHANGED <<plicVars, uartVars, clintVars, timer_armed, devices_dirty>>

SbiCall ==
    \/ SbiSetTimer \/ SbiGetchar \/ SbiPutchar \/ SbiDebugWrite
    \/ SbiIpi \/ LegacyIpi \/ LegacyClearIpi

-----------------------------------------------------------------------------

\* The embedder queues input between two steps.
PushInput ==
    /\ "input" \in guest.ops /\ phase = "tick"
    /\ \E b \in Bytes : push_input(<<b>>)
    /\ UNCHANGED <<plicVars, clintVars, cpuVars, guest>>

Execute ==
    \/ PlicAccess \/ UartReadRbr \/ UartControl \/ UartTransmit
    \/ ClintAccess \/ ClintSetTime \/ OtherAccess
    \/ AmoUndefined \/ AmoClaim \/ AmoUart
    \/ CsrPending \/ OtherInstruction \/ SbiCall

Next == tick_timer \/ Execute \/ PushInput

\* run() calls step() in a loop, and a step always runs to its end.
Fairness == WF_vars(tick_timer) /\ WF_vars(Execute)

Spec == Init /\ [][Next]_vars /\ Fairness

-----------------------------------------------------------------------------
(* Properties *)

TypeOK ==
    /\ PlicTypeOK /\ UartTypeOK
    /\ msip \in {0, 1} /\ mtimecmp \in Times /\ mtime \in Times
    /\ mip \in SUBSET ALL /\ timer_armed \in BOOLEAN /\ devices_dirty \in BOOLEAN
    /\ cycle \in 0 .. DEVICE_POLL_INTERVAL - 1 /\ phase \in {"tick", "exec"}
    /\ ipi_due \subseteq IpiKinds
    /\ guest \in Guests

\* The line the UART asserts right now reaches context c.
Wanted(c) ==
    /\ is_interrupting /\ UART_IRQ \notin claimed /\ UART_IRQ \in enable[c]
    /\ priority[UART_IRQ] > threshold[c]

Synced == \A c \in CONTEXTS : ExtBit(c) \in mip <=> Wanted(c)

\* Whenever pending_interrupt looks, the external bits are what the devices
\* and the PLIC say at that moment.  There is one exception: SBI getchar takes
\* the last byte behind the dirty flag, and the bit outlives the empty queue
\* (memory.rs devices_dirty, cpu.rs tick_timer, sbi.rs getchar).
ExternalBitsFresh ==
    phase = "exec" =>
        \A c \in CONTEXTS :
            \/ ExtBit(c) \in mip <=> Wanted(c)
            \/ "getchar" \in guest.ops /\ ~ has_input /\ ExtBit(c) \in mip

\* A wanted interrupt is never invisible: whatever staleness there is, it is
\* of the spurious kind (cpu.rs tick_timer, uart.rs has_input).
NoMissedInterrupt ==
    phase = "exec" => \A c \in CONTEXTS : Wanted(c) => ExtBit(c) \in mip

\* The periodic sweep repairs stale external bits (DEVICE_POLL_INTERVAL).
StaleRepaired == (phase = "exec" /\ ~ Synced) ~> (phase = "exec" /\ Synced)

\* Timer and software interrupts of machine mode follow the CLINT whatever
\* software wrote to mip (cpu.rs tick_timer, csr.rs MIP).
MachineBitsFresh ==
    phase = "exec" =>
        /\ MSIP \in mip <=> msip = 1
        /\ ~ guest.sbi => (MTIP \in mip <=> mtime >= mtimecmp)
        /\ guest.sbi => MTIP \notin mip

\* Setting a timer "retracts any interrupt already pending" and a timer fires
\* once: a scheduled timer and a pending one never coexist (sbi.rs set_timer).
ArmedIsNotPending == guest.sbi => ~ (timer_armed /\ STIP \in mip)

\* The kinds of IPI the firmware delivers: on RV32 it takes the all-ones base
\* for an ordinary one, past this hart.
Served == IF guest.rv32 THEN {"other"} ELSE IpiKinds

\* An IPI the kernel sends itself stays pending until the kernel clears it,
\* whatever the timers and devices do in between (sbi.rs: "anything waiting on a
\* grace period waits for good").  The one kind of IPI this does not hold for is
\* the all-ones base on RV32, where EveryHartReached fails.
IpiNotLost == ipi_due \cap Served # {} => SSIP \in mip

\* "A base of all-ones is the spec's "every hart", in which case the mask is
\* ignored" (sbi.rs hart_selected): such an IPI reaches this hart and stays
\* pending until the kernel clears it.
EveryHartReached == "all_ones" \in ipi_due => SSIP \in mip

\* A scheduled timer is delivered unless the kernel moves the deadline
\* (cpu.rs tick_timer).
TimerFires ==
    \A when \in Times :
        (timer_armed /\ mtimecmp = when) ~> (STIP \in mip \/ mtimecmp # when)

=============================================================================
