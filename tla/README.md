# A verification project for nanoriscv

nanoriscv is a RISC-V instruction-set simulator in Rust: one hart, RV32 and
RV64, machine, supervisor and user modes, virtual memory, a CLINT, a PLIC and
a 16550 UART, and its own SBI firmware, enough to boot Linux. The simulator is
the golden model for a hardware core that is still to come, so what it does
*is* the definition of correct. These TLA+ modules model the parts of it whose
correctness depends on the order of events, and its arithmetic at widths small
enough to enumerate: TLC checks them on small instances, and TLAPS proves every
safety property but one for every instance.

Line numbers below are those of `src/emu/src/`.

## 1. The system

| Component | State | Operations | Interacts with |
| --- | --- | --- | --- |
| Hart, `cpu.rs`, `trap.rs` | `priv_mode`, `pc`, registers, `reservation`, `cycle`, `shutdown` | `step`, `pending_interrupt`, `take_trap`, `trap_return`, `execute`, `boot_supervisor` | everything: it is the only active party |
| CSR file, `csr.rs` | `mstatus`, `mie`, `mip`, delegation, vectors, `satp`, counters | `accessible`, `read`, `write`, `force` | written by instructions, trap entry and `tick_timer`; `sstatus`, `sie`, `sip` are windows on machine registers |
| Run loop, `cpu.rs run` | step budget, exit | loops `step`, turns traps, `tohost` and shutdown into an exit | hart |
| Page-table walk, `mmu.rs` | none: tables are in memory | `translate`, which also sets A and D | memory, CSRs |
| Translation cache and accesses, `cpu.rs` | `tlb` | `translate`, `flush_tlb`, `read_mem`, `write_mem`, `fetch` | walk, memory |
| Memory map and CLINT, `memory.rs` | DRAM, `msip`, `mtime`, `mtimecmp`, `devices_dirty`, `tohost` | `read`, `write`, dispatch below DRAM | devices; the dirty flag tells the hart that a device was touched |
| PLIC, `plic.rs` | priorities, levels, claimed mask, enables, thresholds | `set_level`, `claim`, `complete`, register access | UART line in, `mip` bits out |
| UART, `uart.rs` | receive queue, transmit log, IER, LCR, divisor | register access, `push_input`, `take_input`, `putchar` | the embedder types; SBI reads and writes behind the registers |
| Device refresh, `cpu.rs tick_timer` | `timer_armed`, poll counter | recomputes `mip` before every instruction | CLINT, UART, PLIC |
| SBI firmware, `sbi.rs` | none of its own | timer, IPI, fences, console, shutdown | reaches CLINT, UART, `mip` and the cache directly |
| Atomics, `cpu.rs` 0x2f | `reservation` | LR, SC, AMOs | memory accesses and their faults |
| Integer, compressed and FP execution, `cpu.rs`, `compress.rs`, `decode.rs`, `fpu.rs` | registers, `fcsr`, `mstatus.FS`, `minstret` | `alu`, `muldiv`, `decompress`, `execute_op_fp` | pure functions of operands, but for the FP context a kernel saves lazily and the retirement counter |
| ELF loader, command line, `elf.rs`, `main.rs` | the image in memory, `tohost`, bursts and budget | parse, load, run, report | memory, run loop |

There is one thread of execution in the host. The concurrency that makes the
system hard is inside the guest's world: interrupts between any two
instructions, handlers of two privilege levels sharing the PLIC, input that
arrives between steps, software that reconfigures a device while an interrupt
is in flight, threads of the guest preempted inside an LR/SC pair. On top of
it come caches with their own staleness (the translation cache, the dirty flag
with its periodic sweep), operations that fail in the middle (an access across
two pages, an SC whose store faults), and register state stacked by a trap and
popped much later by a return. Nothing is persisted, so there is no crash
recovery to model.

What makes each component correct:

- *PLIC*: no source is in service twice, none is lost, arbitration is by
  priority then number.
- *Hart and CSRs*: returns undo traps; privilege rises only through a trap
  vector; a lower mode changes nothing of a higher one; MPRV is confined to
  machine mode; interrupt selection and trap entry agree.
- *SBI boot*: a booted kernel never gets into machine mode, where there is no
  firmware code to run.
- *Device refresh*: when an interrupt is chosen, `mip` is what the devices say.
- *UART path*: each typed byte arrives once, in order, eventually, and the
  interrupted program is not starved.
- *Walk and cache*: the cache is invisible to a guest that fences; faults leave
  nothing behind; user code stays on user pages.
- *Atomics*: no update is lost.
- *Execution*: each operation returns the exact result rounded once, with the
  flags that rounding raises; the 32-bit forms ignore upper halves; no process
  loses its floating-point context; the counter counts what retired.
- *Loader and run loop*: a program starts only fully loaded, runs within its
  budget however its run is cut up, and its verdict is the one it reported.

## 2. The modules

| Module | Models | Uses |
| --- | --- | --- |
| `InterruptBits` | `csr.rs mod int` and the masked writes of `mie`/`mip` | |
| `Plic` | `plic.rs`: state and operations | |
| `PlicHandlers` | the controller with a handler per context, moving lines and reprogramming software; the arbitration loop step by step | `Plic` |
| `Uart` | `uart.rs`: state and operations | |
| `Hart` | privilege, CSRs, traps, interrupts, SBI boot and calls, run loop | `InterruptBits` |
| `Board` | memory-mapped devices, dirty flag, `tick_timer`, SBI calls that touch a device | `Plic`, `Uart`, `InterruptBits` |
| `Console` | an interrupt-driven driver, after `emu/tests/devices.rs`, on the board | `Board`, refines `Channel` |
| `Channel` | abstract: a channel that delivers each byte once, in order, eventually | |
| `Mmu` | `mmu.rs translate` | |
| `Tlb` | the cache, page-crossing accesses, fences | `Mmu` |
| `Atomics` | LR, SC and AMO under a preemptive guest | |
| `Alu`, `Fpu`, `Compress` | the integer, floating-point and compressed-instruction functions, as operators over widths and formats | |
| `Execute` | registers, boxing, flags, rounding modes, FS, `minstret`, under a kernel with lazy FP contexts | `Alu`, `Fpu`, `Compress` |
| `Conformance` | what the instructions are for: the properties of `Execute`, stated over exact numbers | `Execute` |
| `Session` | `elf.rs` and `main.rs`: loading, bursts, `tohost`, verdict and exit code | refines `Runner` |
| `Runner` | abstract: one loop of single steps with a budget and a verdict | |
| `PlicProofs`, `HartProofs`, `AtomicsProofs`, `TlbProofs`, `SessionProofs` | theorems | the module named |
| `BoardProofs`, `ExecuteProofs` | theorems | `Console` over `Board`; `Conformance` over `Execute` |
| `RoundingProofs` | theorems: the floating-point operations round correctly | `ExecuteProofs` |
| `MCPlic`, `MCHart`, `MCBoard`, `MCConsole`, `MCTlb`, `MCAtomics`, `MCExecute`, `MCSession` | instances for TLC | the module named |

How state and actions correspond to the code:

- **`Hart`.** The hart's registers are one record, and the operators
  (`take_trap`, `trap_return`, `csr_write`, `tick_timer`, ...) map records to
  records as the Rust methods mutate `self`. Bit *i* of `mie`, `mip` and
  `mideleg` is cause *i*, so these registers are sets of causes. One action
  `step` is one call of `Cpu::step`: refresh `mip` from arbitrary device lines,
  take an interrupt if one is selected, otherwise execute one instruction.
  Which instruction comes next, and whether it faults, is the guest's choice. A
  *guest* is a record: how it was booted, whether it declares `tohost`, which
  interrupt lines move, which exceptions it raises, what it writes to each CSR.
  The variable `guest` never changes; it lets one run cover several kinds of
  software. `exit` is the verdict of `run()`.
- **`Board`.** A step is two actions: `tick_timer`, after which
  `pending_interrupt` looks at `mip` (phase `"exec"`), then one instruction.
  Accesses through memory set `devices_dirty`, also those of an AMO that turns
  out to be undefined and of a debug-console buffer or a hart-mask pointer that
  lies over device registers; SBI calls that reach a device directly do not,
  exactly as in the code. `ipi_due` is
  history: the IPIs the kernel sent itself and has not cleared, those with the
  all-ones base apart from the others. `SweepNeeded` is the three-way condition
  of `cpu.rs:479`.
- **`PlicHandlers`.** `held[c]` is what the handlers of a context believe they
  own. The controller completes whatever source it is told to, from any context,
  so handlers here may complete a source that is not theirs; `early` remembers
  such a source until nobody holds it.
- **`Console`.** Each driver step is one hart step of `Board`: claim, read line
  status, read, complete, return. The program it interrupts sometimes masks
  interrupts and polls the SBI console, the second path to the same queue.
  `ConsoleIsChannel` maps the UART's queue and the driver's log to `Channel`.
- **`Mmu`, `Tlb`.** Addresses are page numbers and words are page-table
  entries, so guest stores can hit the tables. An access is one or two words;
  two words from the end of a page cross into the next. The scheme is a field
  of `satp`, so one run covers Sv32 and Sv39. `edited` remembers
  whether the guest stored to a page table since its last fence.
- **`Atomics`.** Threads add one to shared words by LR/SC or AMO. Switching
  threads performs an SC to a scratch word, as Linux does on its way out of the
  kernel; without that discipline the architecture itself, and this code,
  allow lost updates. The switch, the handler and page reclaim are the guest
  kernel's and are marked external.
- **`Fpu`, `Alu`, `Compress`.** One operator per Rust function, over bit patterns
  and a format `[bits, sig]`. `u128` is a word of `Word` bits, so that the
  limited alignment depth of `add_raw` is reached on small formats too. A
  32-bit instruction word is its six fields, over which the other formats lay
  their immediates, which keeps every number small.
- **`Execute`.** An action is one instruction from every choice of operands, or
  the kernel's part in sharing the unit (external). `last` records operands and
  result for `Conformance`; `shadow` is each process's context as its own
  instructions left it. A compressed instruction is only expanded: its alias
  then runs like any other.
- **`Conformance`.** A finite value is an integer number of units of the
  smallest subnormal; a result is right if it is the one of the two encodings
  around the exact value that the rounding mode chooses. Nothing here uses
  guard bits, sticky bits or exponents. For compressed instructions the
  reference is the bit order printed in the manual's tables.
- **`Session`.** A file is what its headers say. Which instruction a payload
  runs next is open: it computes, installs a handler, traps, calls or stores.

Each module also holds small operators named after a plausible bug
(`KeepMprv_always`, `SweepNeeded_dirty_only`, ...). The specification does not
use them. Substituting one for the definition that follows it makes TLC find
the property it endangers violated, which shows that the property constrains
the code.

## 3. The runs

| Run | Shows | Distinct states |
| --- | --- | --- |
| `plic` | handlers in two contexts claim two sources and complete any, while lines move and software reprograms everything: exactly the claimed sources are held, each by one context, but for a source completed under another handler; the one-pass arbitration loop agrees with its declarative meaning | 166,752 |
| `hart` | three guests: bare-metal software that drops privilege and rewrites status registers, a kernel booted by SBI with every fault cause, and one with vectored, delegated interrupts | 315,300 |
| `board` | six guests over the devices: freshness of `mip`, the repair of stale bits, the CLINT timer, the firmware's one-shot timer, self-sent IPIs of both widths, and device registers read behind an AMO or a debug-console buffer | 192,101 |
| `console` | the whole path of a typed byte, as an implementation of a channel, and that the interrupted program is not starved | 2,811 |
| `atomics` | no lost update, three threads and two words | 78,960 |
| `tlb` | kernel and user on a two-level table that maps itself; three levels with superpages, sign extension, MXR and fetches | 116,047 |
| `execute` | that registers hold register values; integer and floating-point results, flags, comparisons and conversions, every compressed halfword, lazily saved contexts, the retirement counter | 376,461 |
| `session` | loading at every place, overlapping and truncated segments, kernels and flat images, run whole, sampled or traced | 1,060 |

The other runs state what a comment in the code claims, and TLC shows a
behaviour of the code that contradicts it:

| Run | The comment | What happens |
| --- | --- | --- |
| `hart_unhandled` | `cpu.rs:1371`: "Whether a trap would vector to address zero" | without SBI only `mtvec` is asked, so a delegated trap into an installed supervisor handler ends the run as unhandled |
| `board_all_harts` | `sbi.rs:228`: "A base of all-ones is the spec's "every hart", in which case the mask is ignored" | the base is compared with all ones at 64 bits, so an RV32 kernel's IPI to every hart succeeds and reaches none; every other IPI of either width does (`IpiNotLost`) |
| `tlb_mprv` | `cpu.rs:115`: the tag "carries everything the walk depended on besides the page tables themselves" | the tag has MPRV and not MPP: after MPP changes, a machine-mode access hits an entry made for another privilege |
| `tlb_torn_store` | `cpu.rs:335`: "a fault on the second page does not leave the first partially updated" | true of page faults (`PageFaultIsAtomic`), not when the second page translates to an address with no memory behind it |

Smaller disagreements were met and are not runs. `cpu.rs:515` describes the
interrupt order as "external, then software, then timer, machine before
supervisor at each step", while the table under it puts all machine interrupts
before all supervisor ones (`Rank` follows the table, which is also what the
privileged specification asks for). `csr.rs:325` says a reserved trap-vector
mode "is held at the previous legal value", while the code stores the new base
with direct mode (`LegalTvec` follows the code). The models follow the code in
these as well:

- `cpu.rs:1257` calls the high-half multiplies unreachable at 32 bits of an RV64
  register; OP-32 with `funct7` 1 reaches them, and the logical operations and
  comparisons likewise have W forms.
- `cpu.rs:476` says of the external bits "Nothing here can change unless a device
  register was touched". SBI getchar empties the UART behind the flag
  (`sbi.rs:82`), and the bit stays pending until the next sweep.
  `ExternalBitsFresh` says this is the only staleness there is, `StaleRepaired`
  that it ends.
- On RV32, `minstret` loses its high half at each retirement (`cpu.rs:424`), and
  `mstatus` never shows SD.
- A `mcycle` write is overwritten by the next step, and `mcountinhibit` inhibits
  nothing.
- The `tohost` test compares the exact address and the whole register
  (`memory.rs:151`): a narrow store with other bits above it, or one that only
  overlaps the word, is misread.
- `main.rs:180` places the device tree "clear of the kernel" without a check;
  `Memory::load` panics on a flat image larger than memory.
- `compress.rs:192` rejects C.LUI to `x0`, which the manual makes a hint.
- The comment of `add_raw` (`fpu.rs:313`) says bits are discarded only from an
  operand whose entire range lies below the word; one that reaches into the word
  from below loses its lower bits too. `FusedRoundsOnce` (theorem `FusedCorrect`)
  shows the rounding is right anyway.

### Bounds, and why they are enough

- `plic`: sources 1 and 2, two contexts, priorities 0 to 2. Ties, masking by
  equality with the threshold and zero priority all need at most two sources
  and three values. Source 0 and a source past the array are among the inputs.
  The contexts are interchangeable, and only invariants are checked under that
  symmetry.
- `hart`: one code address; `epc` values still differ, because traps can be
  taken at vectors. Each guest's CSR inputs are the few values that reach every
  combination of privilege, stacked privilege and enables the properties
  distinguish, including values that try to set fields the register must not
  accept. `mepc` and `sepc` beyond the code address do not change control.
- `board`: two bytes of queue, one device source and both contexts, a sweep
  every 4 steps (256 in the code; what matters is that it exceeds 1), `mtime`
  modulo 4 so that wrap-around happens. The poll interval equals the modulus so
  that the two counters move together where software does not write `mtime`.
  `MaxQueue` also bounds the transmit log, and a full log disables further
  output.
- `console`: three bytes of two values, so that order and loss are visible.
- `execute`: registers of 8 and 6 bits stand for 64 and 32. The double has 4 bits
  of exponent and 3 of fraction, the single 3 and 2, and the working word 14:
  subnormals, carries into the exponent, overflow in each mode, cancellation,
  both kinds of NaN and operands too far apart for the word all occur. Single
  arithmetic takes every first operand; square roots, classes and conversions
  every pattern; the rest a selection that a 32-bit integer can hold exactly.
  Compressed halfwords are exhaustive on both widths. Context and counter
  guests run six steps, enough for two switches around a change.
- `session`: six bytes of two bits at address 4, segments of two bytes with tails
  of up to two at every address from before the memory to past it; budgets of 0,
  3 and 5 with bursts of 1, 2 and 7, so that the last burst is cut, exact or
  longer than the budget.
- `tlb`: two cache slots for each kind of access, so that pages collide;
  two-entry tables; the tables are themselves among the pages stored to.
- `atomics`: three threads, two words, two bits; threads and words are
  interchangeable, and only invariants are checked under that symmetry.

`hart`, `tlb`, `execute`, `session`: no deadlock is checked, since `run()` really
returns and the guests of the other two may stop. In the other runs a state without successor would be
an error.

### Fairness

`Board` and `Console` assume weak fairness of `tick_timer` and of the
instruction that follows it: `run()` calls `step()` in a loop and a step always
runs to its end. Nobody promises to type, to claim, or to make any particular
access, so no fairness is given to `PushInput`/`Type` or to a single
instruction. In `Console` the guest's program is fixed, so fairness of its next
instruction is the same assumption. `Session` assumes weak fairness of its next
step: the loops of `main` and `Cpu::run` go on until they return.

### Refinements

`ConsoleIsChannel` (run `console`) states that `Console` implements
`Channel!Spec`, fairness included: what was typed and not yet read is the
channel's content, and every byte is received. `RunIsOneLoop` (run `session`)
states that `Session`, with its bursts, traces and refusals, implements
`Runner!Spec`: `left`, `burst` and `done` are hidden, and what remains is one loop
over `taken` with the budget `max`.

## 4. The proofs

All theorems are checked by TLAPS and hold for every value of the constants
that satisfies the named assumptions, which TLC evaluates on each run's
instance. `PROJECT.json` lists them with the property each one states.

**`PlicProofs`**, from `MAX_SOURCES \in Nat \ {0}` and `MaxWord \in Nat`, for
any set of contexts. `PlicExclusive` is inductive only together with type
correctness and `PlicClaimedIsHeld`: a claim gives out a source that is not in
the claimed mask, so one needs that the mask covers everything held and not
completed early. A completion clears the mask bit whoever else holds the source;
whoever does, the source is then `early` (`InServiceAfter`). `PlicLoopIsBest` says the loop of
`plic.rs best` computes what `best` means. Its loop invariant is `Lead`: after
source *s* the loop holds the winner among the candidates seen so far, or
nothing and the threshold. That it holds at every *s* is shown at the least *s*
where it would fail.

**`HartProofs`**, from `HartAssumption` (code addresses are numbers, guests
write values of each CSR's type), for any set of guests. The inductive
invariant `Sound` adds to type correctness and the MPRV property what SBI rests
on: the delegation the firmware set up is still in place, no interrupt outside
`S_VISIBLE` is enabled in `mie`, and `mcounteren` is still set.

- `SbiSafe`, `ClockReadable`: a booted guest's interrupts come from `mie`, hence
  are delegated; its exceptions are all delegated, because an ECALL from
  supervisor mode never becomes a trap; MRET and machine CSRs need machine mode.
- `TrapsReturn` needs the MPRV property, because a return below machine mode
  clears the field. `SecondReturnLeavesMachine`: the first return leaves MPP at
  user.
- `InterruptTargets`: whatever the lines, the cause `pending_interrupt` selects
  is enabled for the mode `take_trap` then enters, that mode is not below the
  present one, and its own enable is off afterwards.
- `SbiUnhandledIsReal` adds to `Sound` that an unhandled exit has `pc = 0`.
- `HartIsolation` and `PrivilegeGuarded` are action properties over `Sound`.

**`BoardProofs`**, from `BoardAssumption`, `UartAssumption` and the PLIC's, for
any guest, queue, poll interval and clock width. The inductive invariant has
three parts.

- `TypeOK` (`BoardTypeCorrect`).
- `HartInv`: the machine timer bit is off under SBI, and `MachineBitsFresh`,
  `ArmedIsNotPending` and `IpiNotLost`, each of which the refresh and the
  instructions keep, given what an instruction may do to `mip` (`ExecuteOnMip`).
  `IpiNotLost` holds because what a caller addresses, the all-ones base on RV32
  apart (`Served`), is what `hart_selected` selects.
- `LineInv`, for `BoardNoMissedInterrupt` and `BoardExternalBitsFresh`. These
  speak of the moment an interrupt is chosen; the invariant must carry them over
  the rest of the step. `Settled` is the time when the dirty flag is clear and
  no input waits, or the refresh has just run: then every wanted line is in
  `mip`, and without SBI getchar, or while input still waits, the bits are exact.
  Every path that can raise a line either sets the flag or leaves input waiting,
  so it unsettles the state; the only path that lowers one in silence is
  getchar. It also needs that the UART is the only source ever asserted.

`ConsoleRefinesChannel`, from `ConsoleAssumption`, is the safety half of
`ConsoleIsChannel`: driver, UART, PLIC and refresh implement
`Channel`'s initial state and steps. `DriverInv` says that the divisor latch is
shut and that the driver reads only where there is a byte.

**`TlbProofs`**, from `MmuAssumption` (tables have at least two entries, memory
is a set of page numbers) and `TlbAssumption`, for any number of entries, tables,
schemes and memories. `TlbAssumption` describes guests: `tables` has every page
a walk can read, now or after the guest has stored its words, so an
unfenced edit is recognised as one; and MPRV is set in machine mode only, which
`HartProofs` proves. `TlbInv` says that the tables stay closed in this sense
(`Closed`) and that, while nothing is edited, each entry the present or another
context could hit is what the walk would now give (`Cached`). The argument
follows the walk: its result depends on the tables through bits other than A
and D only, setting these can only make it succeed, and a tag fixes the
registers the walk reads. `CacheInvisible` and the action properties
`PageFaultsAtomic` and `UserWritesConfined` follow, the last because a hit is a
walk and a walk checks U and W.

**`AtomicsProofs`**, from `AtomicsAssumption`, for any threads, words and width.
A matching SC stores the successor of what its LR read, so `NoLostUpdate` needs
that the reservation vouches for that value (`ReservationIsCurrent`).

**`ExecuteProofs`**, for any pair of widths and formats (`AluAssumption`,
`FpuAssumption`, `FormatAssumption`), any program and any number of processes.

- `LazySwitchingSafe`: `ContextInv` says that the unit holds the current
  process's shadow while it is on, and that a context which is not dirty agrees
  with its saved copy. Each instruction leaves the unit alone or makes it dirty
  (`UnitStep`).
- `CounterExact`: at any two widths, through wrap-around and half-writes.
- `MulDivExact`, `OneOrder`: lemmas about `alu`, `muldiv`, branches and atomics
  for each operation (`Divides`, `Ordered`), then one per action.
- `NarrowForms`: the W form of an operation is the narrow operation on the low
  halves. For AND, OR, XOR and the shifts a register is the set of its bits
  (`Sums`), and the number of a set is split at the narrow width.
- `ExecuteTypeCorrect`: registers only ever hold register values. The invariant
  `StateInv` types the saved contexts and the shadows too. Its core is a bound on
  every intermediate significand of every floating-point operation: what
  `unpack`, `add_raw`, `mul_raw`, division, square root and the conversions hand
  to `round_pack` fits the word, and `round_pack` makes a pattern of the format
  of it, whatever the mode.
- `ComparesNumbers`: comparison, minimum and maximum order patterns as the
  numbers they stand for. The number of a pattern is strictly monotone in its
  magnitude (`UnitsOrdered`), and the sign-magnitude key of `fpu.rs` orders
  like signed numbers, zeros apart.

**`RoundingProofs`**: `ArithmeticCorrect`, `FusedCorrect` and
`ConversionsCorrect`, for any pair of formats and every operand and mode. A
result is the exact value rounded *once*, though the code keeps one word of the
significand and one sticky bit of the rest. The argument, bottom up:

1. *Encodings.* `At(f, j, q)`, the encoding with quotient `q` at binade `j`, is
   worth `q * 2^j` units, also where rounding carries into the next binade
   (`UnitsAt`), and `Pack` makes that encoding (`PackIs`). Numbers a power of two
   apart are related by `Scaled`, which works for either sign of the exponent.
2. *Rounding.* If guard and sticky bit say where the exact value lies between two
   neighbours, the code and the definition choose the same one, with the same
   flags (`RoundNearest`). `Tells` is what the word must say for that: it orders
   the exact value against every point of the scale at the place of the cut.
   `RoundPackIs` is the result, for any exact value on a scale (`Sorted`).
3. *Words near a value.* A word tells of `n / d` units if it equals them, or is
   odd, has enough bits, and its two neighbours enclose them (`Near`,
   `RoundRatio`). Roots are compared by their squares (`RoundRoot`).
4. *Operands.* `unpack` gives a significand and an exponent that make the number
   the pattern stands for (`Means`).
5. *Operations.* Products are exact (`ProductScaled`). A quotient and a root, moved
   up by half a word, have enough bits in front of the sticky one
   (`QuotientSize`, `RootSize`); that Newton's iteration ends at the integer root
   is the mean inequality and a least counterexample (`NewtonRoot`, `IsqrtIs`).
   In `add_raw` only the operand with the lower top can lose bits, and then it lies
   so far below the other that their difference keeps enough bits above the sticky
   one (`AlignedTop`, `AlignedBelow`, `SumsLost`): what the comment at `fpu.rs:313`
   argues, also for an operand that is only partly below the word. Sums with one zero operand rest on a number of the
   format rounding to itself (`RoundedExact`).
6. *Instructions.* Each leaves in `last` what the operation returned.
   `ConversionInv` adds to the three conversions that only a traced guest has a
   record and that the register converted is unchanged until the kernel
   exchanges it (`BoxInv`).

The assumptions behind both modules: `FpuAssumption` asks of a format what binary32
and binary64 in a `u128` have: at least two bits of fraction and of exponent, and
a fraction at least four bits shorter than half a word (52 bits, against 64). By
`FormatAssumption` the word is wider than a register. `PowerAssumption` and
`ExponentAssumption` state `2^(j + k) = 2^j * 2^k` and its like up to the largest
exponent any operation meets (`Reach`): facts about numbers, true of every
instance, for which the prover has no rule. `ResetAssumption`,
`CounterAssumption` and `DecodeAssumption` say what a guest is: its registers
start in range, and decoding gives an instruction the fields, a rounding mode
field among them, and the operations of its kind.

**`SessionProofs`**, from `SessionAssumption`, `FileAssumption` and
`PayloadAssumption` (headers and bytes have their types, a status word lies in
memory and is even in the image), for any memory, files, budgets and bursts.

- `BurstsRefineRunner` is the safety half of `RunIsOneLoop`. `LoopInv` relates
  the two loops: `taken = done + burst - left`, and no burst passes the budget.
- `ImageIsLinked`: the loader's pass over the segments has the closed form
  `Loaded`: it fails if some segment so far does not fit, and otherwise each
  byte is that of the last segment over it. As with the PLIC's loop, a least
  segment where this fails is refuted.
- `VerdictIsThePayloads`: `StatusInv` says that while a payload runs its status
  word is even, and that an odd store ends the run with what was stored.

### Only model-checked

- Liveness is outside the prover's reach: `StaleRepaired`, `TimerFires`,
  `NoStorm`, and the fairness half of the two refinements.
- `ExpansionIsAlias` compares two tables of bit orders, entry by entry, for
  every halfword: a matter of enumeration, and TLC's run is exhaustive on both
  widths.

## 5. What is not modelled

- LUI, AUIPC and the targets of jumps and branches; `Hart` has a symbolic `pc`
  and leaves the guest's next instruction open. Integer loads and stores are in
  `Tlb`, by their pages; FP stores move bits.
- In the CSR file: `mcycle` and the hpm counters, `misa`, PMP, `mstatush`, and
  `cause`, `tval` and `scratch`, which the hart stores and never reads.
- In SBI: the base-extension queries and the values left in `a0` and `a1`.
- Argument parsing and the printed report; the byte offsets of ELF fields.
- The RTL core, which the repository has not started.
- Sub-word device accesses; register reads without side effect.
- The physical-page masks of the walk, and the address arithmetic inside a page.

## 6. Plan

Done: every component of section 1 but the RTL core, which does not exist yet,
has a model; two refinements; of the invariants and action properties of the
passing runs all are theorems but `ExpansionIsAlias`, which is enumerated.

What would come next: jump and branch targets at small widths in `Execute`, which
would let the loader's entry point and the trap vectors of `Hart` share one
program counter; and the RTL core, once there is one, against `Execute`.
