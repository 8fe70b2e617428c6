------------------------------- MODULE Session -------------------------------
(***************************************************************************)
(* One invocation of the emulator (emu/src/main.rs, elf.rs, the loading    *)
(* half of memory.rs, and cpu.rs load_elf and run): a file is parsed and   *)
(* placed in memory, and the hart is stepped, whole or in bursts, until    *)
(* the payload reports through tohost, ends in another way or uses up its  *)
(* budget.                                                                 *)
(*                                                                         *)
(* A file is what its headers say, in the order they say it; the offsets   *)
(* of the fields are left out.  What the program does in a step is open:   *)
(* module Hart says which traps and calls there are.                       *)
(***************************************************************************)
EXTENDS Integers, Sequences, SequencesExt

CONSTANTS
    DRAM_BASE, DramSize,
    KERNEL_OFFSET, DTB_RESERVE,     \* where a kernel goes, and its tree below the top
    Byte,                           \* values of a byte: 256 in the code
    Invocations     \* by name: [trace, sample, max, kernel, dtb, file, tree, stores]

ASSUME SessionAssumption ==
    /\ DRAM_BASE \in Nat /\ DramSize \in Nat /\ Byte \in Nat \ {0, 1}
    /\ KERNEL_OFFSET \in Nat /\ DTB_RESERVE \in 0 .. DRAM_BASE
    /\ \A name \in DOMAIN Invocations :
         Invocations[name].sample \in Nat /\ Invocations[name].max \in Nat

\* Files and device trees are bytes, and headers have their fields.
ASSUME FileAssumption ==
    \A name \in DOMAIN Invocations :
        LET v == Invocations[name] IN
        /\ v.kernel \/ ~ v.file.elf => v.file.data \in Seq(0 .. Byte - 1)
        /\ v.kernel => v.tree \in Seq(0 .. Byte - 1)
        /\ ~ v.kernel /\ v.file.elf =>
             v.file.headers \in Seq([type : STRING, paddr : Nat,
                                     data : Seq(0 .. Byte - 1), memsz : Nat, inFile : BOOLEAN])

VARIABLES
    called,         \* the name of the invocation
    at,             \* "load", "between" bursts, "running" in Cpu::run, or "ended"
    dram,
    tohost,         \* the symbol's address
    tohost_value,   \* what was last stored there
    handler,        \* whether a trap vector is installed
    left,           \* steps left in this call of Cpu::run
    burst, done,    \* the size of that call, and of the ones before it
    verdict,        \* what Cpu::run said, or "Refused"
    n,              \* the failing test's number
    code,           \* the exit code
    taken           \* history: steps taken

loadVars == <<dram, tohost>>
runVars == <<tohost_value, handler>>
loopVars == <<left, burst, done>>
endVars == <<verdict, n, code>>
vars == <<called, at, loadVars, runVars, loopVars, endVars, taken>>

O == Invocations[called]
None == -1
Dram == DRAM_BASE .. DRAM_BASE + DramSize - 1

-----------------------------------------------------------------------------
(* Memory *)

\* The bug of a check that forgets where the data ends.
index_start_only(addr, size) == addr >= DRAM_BASE /\ addr - DRAM_BASE <= DramSize

index(addr, size) == addr >= DRAM_BASE /\ addr - DRAM_BASE + size <= DramSize

\* m with data from addr on.
Over(m, addr, data) ==
    [a \in DOMAIN m |-> IF a \in addr .. addr + Len(data) - 1 THEN data[a - addr + 1] ELSE m[a]]

\* A load in progress is a memory, and whether everything has fitted so far.
\* One that failed leaves no memory that anyone looks at.
Empty == [fits |-> TRUE, mem |-> [a \in Dram |-> 0]]
Failed == [fits |-> FALSE, mem |-> Empty.mem]

load_at(load, addr, data) ==
    IF load.fits /\ index(addr, Len(data))
    THEN [fits |-> TRUE, mem |-> Over(load.mem, addr, data)]
    ELSE Failed

zero(load, addr, len) == load_at(load, addr, [i \in 1 .. len |-> 0])

-----------------------------------------------------------------------------
(* Loading *)

\* Elf::parse of a program header.
Segment(ph) ==
    [addr |-> ph.paddr, data |-> ph.data,
     zero_len |-> IF ph.memsz > Len(ph.data) THEN ph.memsz - Len(ph.data) ELSE 0]

\* The segments of a file, at the places of their headers.
Loadable(f) == {i \in DOMAIN f.headers : f.headers[i].type = "PT_LOAD"}
Segments(f) == [i \in Loadable(f) |-> Segment(f.headers[i])]

\* A header whose data runs off the file spoils the file, but only if it is loaded.
Truncated(f) == \E i \in Loadable(f) : ~ f.headers[i].inFile

Parses(f) == f.error = "none" /\ ~ Truncated(f)

\* The later of two symbols of a name counts, and only symbol tables with
\* entries hold any.
Symbols(f) == FlattenSeq([i \in DOMAIN f.sections |->
                            IF f.sections[i].type = "SHT_SYMTAB" /\ f.sections[i].entsize > 0
                            THEN f.sections[i].symbols ELSE <<>>])
Symbol(f, name) ==
    LET found == SelectSeq(Symbols(f), LAMBDA s : s.name = name)
    IN  IF found = <<>> THEN None ELSE Last(found).value

load_segment(load, seg) ==
    IF seg.zero_len > 0
    THEN zero(load_at(load, seg.addr, seg.data), seg.addr + Len(seg.data), seg.zero_len)
    ELSE load_at(load, seg.addr, seg.data)

\* The segments in order, up to the first that does not fit.
load_elf(f) ==
    LET loaded[i \in 0 .. Len(f.headers)] ==
          IF i = 0 THEN Empty
          ELSE IF i \in Loadable(f) THEN load_segment(loaded[i - 1], Segments(f)[i])
          ELSE loaded[i - 1]
    IN  loaded[Len(f.headers)]

dtb_addr == DRAM_BASE + DramSize - DTB_RESERVE

load_kernel ==
    load_at(load_at(Empty, DRAM_BASE + KERNEL_OFFSET, O.file.data), dtb_addr, O.tree)

\* The process exits before anything has run, and its memory with it; 101
\* is the status of a panic.
Refuse(why) ==
    /\ at' = "ended" /\ verdict' = "Refused" /\ code' = why
    /\ UNCHANGED <<loadVars, runVars, loopVars, n>>

Enter(load, symbol) ==
    /\ dram' = load.mem /\ tohost' = symbol
    /\ at' = "between"
    /\ UNCHANGED <<runVars, loopVars, endVars>>

\* main, up to the call of run.  The error of a file says what is wrong with
\* it: that it cannot be read, or what Elf::parse finds in its header.
Load ==
    /\ at = "load"
    /\ \/ /\ O.kernel
          /\ IF O.dtb /\ O.file.error = "none" /\ load_kernel.fits THEN Enter(load_kernel, None) ELSE Refuse(2)
       \/ /\ ~ O.kernel /\ O.file.elf
          /\ IF Parses(O.file) /\ load_elf(O.file).fits
             THEN Enter(load_elf(O.file), Symbol(O.file, "tohost")) ELSE Refuse(2)
       \/ /\ ~ O.kernel /\ ~ O.file.elf
          \* a flat image is copied without a check of its own
          /\ CASE O.file.error # "none" -> Refuse(2)
               [] O.file.error = "none" /\ Len(O.file.data) > DramSize -> Refuse(101)
               [] OTHER -> Enter([fits |-> TRUE, mem |-> Over(Empty.mem, DRAM_BASE, O.file.data)], None)
    /\ UNCHANGED <<called, taken>>

-----------------------------------------------------------------------------
(* main's run: one call of Cpu::run, or many *)

Plain == ~ O.trace /\ O.sample = 0

\* The bug of a last burst that ignores the budget.
Burst_unclamped == IF Plain THEN O.max ELSE IF O.trace THEN 1 ELSE O.sample

\* A trace is bursts of one.
Burst ==
    IF Plain THEN O.max
    ELSE IF O.trace THEN 1
    ELSE IF O.sample < O.max - done THEN O.sample ELSE O.max - done

ExitCode(v) == IF v \in {"Pass", "Ecall", "Shutdown"} THEN 0 ELSE IF v = "StepLimit" THEN 3 ELSE 1

End(v) == at' = "ended" /\ verdict' = v /\ code' = ExitCode(v)

\* A plain run is one call, even of no steps.
Call ==
    /\ at = "between" /\ (Plain \/ done < O.max)
    /\ at' = "running" /\ left' = Burst /\ burst' = Burst
    /\ UNCHANGED <<called, loadVars, runVars, done, endVars, taken>>

BudgetSpent ==
    /\ at = "between" /\ ~ Plain /\ done >= O.max
    /\ End("StepLimit") /\ n' = n
    /\ UNCHANGED <<called, loadVars, runVars, loopVars, taken>>

\* Cpu::run returns StepLimit.
Return ==
    /\ at = "running" /\ left = 0
    /\ \/ /\ Plain /\ End("StepLimit") /\ n' = n
          /\ UNCHANGED loopVars
       \/ /\ ~ Plain /\ at' = "between" /\ done' = done + burst
          /\ UNCHANGED <<left, burst, endVars>>
    /\ UNCHANGED <<called, loadVars, runVars, taken>>

-----------------------------------------------------------------------------
(* Cpu::run: one step, and what is made of it *)

Terminates(v) == v # None /\ v % 2 = 1

\* The bug of reporting the status word instead of the number in it.
Status_unshifted(v) == v

Status(v) == v \div 2

\* What the loop returns after a step that ended in r and left v in
\* tohost_value; "none" to go on.
Outcome(r, v) ==
    IF r = "shutdown" THEN "Shutdown"
    ELSE IF Terminates(v) THEN IF Status(v) = 0 THEN "Pass" ELSE "Fail"
    ELSE IF r = "ecall" /\ ~ O.kernel /\ tohost = None THEN "Ecall"
    ELSE IF r # "ok" /\ ~ handler THEN "UnhandledTrap"
    ELSE "none"

\* An even value asks for a system call, which nobody serves.
Finish(r, v) ==
    /\ at = "running" /\ left > 0 /\ taken' = taken + 1
    /\ tohost_value' = IF r # "shutdown" /\ ~ Terminates(v) THEN None ELSE v
    /\ n' = IF Outcome(r, v) = "Fail" THEN Status(v) ELSE n
    /\ IF Outcome(r, v) = "none"
       THEN left' = left - 1 /\ UNCHANGED <<at, verdict, code>>
       ELSE End(Outcome(r, v)) /\ left' = left
    /\ UNCHANGED <<called, tohost, burst, done>>

Computes == Finish("ok", tohost_value) /\ UNCHANGED <<dram, handler>>

InstallsHandler == Finish("ok", tohost_value) /\ handler' \in BOOLEAN /\ UNCHANGED dram

Traps == Finish("trap", tohost_value) /\ UNCHANGED <<dram, handler>>

\* A kernel's own calls are answered by the firmware and are not errors.
Ecalls ==
    \/ Finish("ecall", tohost_value) /\ UNCHANGED <<dram, handler>>
    \/ O.kernel /\ Finish("shutdown", tohost_value) /\ UNCHANGED <<dram, handler>>

LeBytes(value, size) == [i \in 1 .. size |-> (value \div Byte^(i - 1)) % Byte]

\* Memory::write.  The test looks at the whole register, not at what is stored.
Stores ==
    \E s \in O.stores :
        /\ index(s.addr, s.size)
        /\ dram' = Over(dram, s.addr, LeBytes(s.value, s.size))
        /\ Finish("ok", IF tohost = s.addr /\ s.value # 0 THEN s.value ELSE tohost_value)
        /\ UNCHANGED handler

Step == Computes \/ InstallsHandler \/ Traps \/ Ecalls \/ Stores

Init ==
    /\ called \in DOMAIN Invocations
    /\ at = "load" /\ dram = Empty.mem /\ tohost = None
    /\ tohost_value = None /\ handler = FALSE
    /\ left = 0 /\ burst = 0 /\ done = 0
    /\ verdict = "none" /\ n = 0 /\ code = None
    /\ taken = 0

Next == Load \/ Call \/ BudgetSpent \/ Return \/ Step

\* The loops of main and Cpu::run go on until they return.
Spec == Init /\ [][Next]_vars /\ WF_vars(Next)

-----------------------------------------------------------------------------
(* Properties *)

\* What an invocation asks to be placed in memory, in order.
Wanted ==
    IF O.kernel THEN <<[addr |-> DRAM_BASE + KERNEL_OFFSET, data |-> O.file.data, len |-> 0],
                       [addr |-> dtb_addr, data |-> O.tree, len |-> 0]>>
    ELSE IF O.file.elf
    THEN [i \in DOMAIN Segments(O.file) |->
            [addr |-> Segments(O.file)[i].addr, data |-> Segments(O.file)[i].data,
             len |-> Segments(O.file)[i].zero_len]]
    ELSE <<[addr |-> DRAM_BASE, data |-> O.file.data, len |-> 0]>>

Extent(w) == w.addr .. w.addr + Len(w.data) + w.len - 1
Covering(a) == {i \in DOMAIN Wanted : a \in Extent(Wanted[i])}
LastOf(I) == CHOOSE i \in I : \A j \in I : j <= i
Linked(a) ==
    IF Covering(a) = {} THEN 0
    ELSE LET w == Wanted[LastOf(Covering(a))]
         IN  IF a - w.addr < Len(w.data) THEN w.data[a - w.addr + 1] ELSE 0

\* A program starts only with every byte of every segment in memory, the tail
\* of each zeroed, the later of two that overlap on top, and nothing else; one
\* that does not fit is never started (main.rs, cpu.rs load_elf, memory.rs).
LoadedAsLinked ==
    /\ at = "between" /\ taken = 0 => dram = [a \in Dram |-> Linked(a)]
    /\ at \in {"between", "running"} => \A i \in DOMAIN Wanted : Extent(Wanted[i]) \subseteq Dram

\* The payload stores its status as whole words: nothing else touches the low
\* byte, whose bit 0 ends the run.
WordSize == 2
StatusWord == dram[tohost] + Byte * dram[tohost + 1]
WholeWords ==
    \A s \in O.stores :
        tohost \in s.addr .. s.addr + s.size - 1 => s.addr = tohost /\ s.size = WordSize

\* Registers hold a word, and an image with a status word has it in memory, even
\* until the payload says otherwise.
ASSUME PayloadAssumption ==
    /\ Byte % 2 = 0 /\ Byte^0 = 1 /\ Byte^1 = Byte
    /\ \A name \in DOMAIN Invocations :
         LET v == Invocations[name]
             word == Symbol(v.file, "tohost")
             load == load_elf(v.file)
         IN  /\ \A s \in v.stores :
                  s.addr \in Nat /\ s.size \in 1 .. WordSize /\ s.value \in 0 .. Byte * Byte - 1
             /\ ~ v.kernel /\ v.file.elf /\ Parses(v.file) /\ load.fits /\ word # None =>
                  word \in Dram /\ word + 1 \in Dram /\ load.mem[word] % 2 = 0

\* Such a payload's verdict is the one it left in memory, whatever else it
\* stored before and however its run was cut into bursts, and it never runs on
\* past an odd status (cpu.rs run, memory.rs tohost).
StatusIsThePayloads ==
    tohost # None /\ WholeWords =>
        /\ verdict \in {"Pass", "Fail"} => StatusWord = 2 * n + 1 /\ (verdict = "Pass" <=> n = 0)
        /\ taken > 0 /\ at \in {"between", "running"} => StatusWord % 2 = 0

Runs == INSTANCE Runner WITH
    Endings <- {"Pass", "Fail", "Ecall", "Shutdown", "UnhandledTrap"},
    max <- O.max

\* Cutting a run into bursts to sample or trace it is invisible: the same loop
\* of single steps, the same budget, and always a verdict; an image that is
\* refused never runs at all (main.rs main and run, cpu.rs run).
RunIsOneLoop == Runs!Spec
=============================================================================
