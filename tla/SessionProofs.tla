--------------------------- MODULE SessionProofs ---------------------------
(***************************************************************************)
(* One invocation, for every image, budget and burst size: cutting a run   *)
(* into bursts is invisible, what runs is the image as it was linked, and  *)
(* the verdict is the payload's own.                                       *)
(***************************************************************************)
EXTENDS Session, WellFoundedInduction, TLAPS

-----------------------------------------------------------------------------
(* Bursts *)

\* Where the loops of main and Cpu::run are: the steps taken are those of the
\* calls before and of this one so far, no call goes past the budget, and there
\* is a verdict only at the end.
LoopInv ==
    /\ called \in DOMAIN Invocations
    /\ at \in {"load", "between", "running", "ended"}
    /\ taken \in Nat /\ done \in Nat /\ left \in Nat /\ burst \in Nat
    /\ at # "ended" => verdict = "none"
    /\ at = "load" => taken = 0 /\ done = 0
    /\ at = "between" => taken = done /\ done <= O.max /\ (Plain => done = 0)
    /\ at = "running" =>
         /\ left <= burst /\ taken = done + burst - left /\ done + burst <= O.max
         /\ Plain => done = 0 /\ burst = O.max

LEMMA BudgetType ==
    ASSUME called \in DOMAIN Invocations PROVE O.max \in Nat /\ O.sample \in Nat
BY SessionAssumption DEF O

LEMMA InitLoop == Init => LoopInv
BY DEF Init, LoopInv

\* A call never asks for more than is left of the budget.
LEMMA BurstFits ==
    ASSUME called \in DOMAIN Invocations, done \in Nat, done <= O.max,
           Plain => done = 0, Plain \/ done < O.max
    PROVE  Burst \in Nat /\ done + Burst <= O.max /\ (Plain => Burst = O.max)
<1>1. O.max \in Nat /\ O.sample \in Nat  BY BudgetType
<1>2. CASE Plain  BY <1>1, <1>2 DEF Burst
<1>3. CASE ~ Plain  BY <1>1, <1>3 DEF Burst
<1> QED  BY <1>2, <1>3

\* What a step of the program does to the loop.
LEMMA FinishLoop ==
    ASSUME LoopInv, NEW r, NEW v, Finish(r, v) PROVE LoopInv' /\ Runs!Step
<1>1. called' = called /\ burst' = burst /\ done' = done /\ taken' = taken + 1
  BY DEF Finish
<1>2. O' = O  BY <1>1 DEF O
<1>3. Plain' = Plain  BY <1>2 DEF Plain
<1>4. at = "running" /\ left > 0  BY DEF Finish
<1>5. O.max \in Nat  BY BudgetType DEF LoopInv
<1>6. /\ taken \in Nat /\ done \in Nat /\ left \in Nat /\ burst \in Nat
      /\ left <= burst /\ taken = done + burst - left /\ done + burst <= O.max
      /\ (Plain => done = 0 /\ burst = O.max) /\ verdict = "none"
      /\ called \in DOMAIN Invocations
  BY <1>4 DEF LoopInv
<1>7. taken < O.max  BY <1>4, <1>5, <1>6
<1>8. CASE Outcome(r, v) = "none"
  <2>1. left' = left - 1 /\ at' = at /\ verdict' = verdict  BY <1>8 DEF Finish
  <2>2. left' \in Nat /\ left' <= burst /\ taken' = done + burst - left'
    BY <1>1, <1>4, <1>6, <2>1
  <2>3. LoopInv'  BY <1>1, <1>2, <1>3, <1>4, <1>6, <2>1, <2>2 DEF LoopInv
  <2> QED  BY <1>1, <1>2, <1>6, <1>7, <2>1, <2>3 DEF Runs!Step
<1>9. CASE Outcome(r, v) # "none"
  <2>1. at' = "ended" /\ verdict' = Outcome(r, v) /\ left' = left  BY <1>9 DEF Finish, End
  <2>2. verdict' \in {"Pass", "Fail", "Ecall", "Shutdown", "UnhandledTrap"}
    BY <1>9, <2>1 DEF Outcome
  <2>3. LoopInv'  BY <1>1, <1>2, <1>3, <1>6, <2>1 DEF LoopInv
  <2> QED  BY <1>1, <1>2, <1>6, <1>7, <2>2, <2>3 DEF Runs!Step
<1> QED  BY <1>8, <1>9

LEMMA LoadLoop ==
    ASSUME LoopInv, Load PROVE LoopInv' /\ (Runs!Refuse \/ UNCHANGED Runs!vars)
<1>1. at = "load" /\ called' = called /\ taken' = taken  BY DEF Load
<1>2. O' = O  BY <1>1 DEF O
<1>3. Plain' = Plain  BY <1>2 DEF Plain
<1>4. /\ taken = 0 /\ done = 0 /\ verdict = "none" /\ left \in Nat /\ burst \in Nat
      /\ called \in DOMAIN Invocations
  BY <1>1 DEF LoopInv
<1>5. O.max \in Nat  BY <1>4, BudgetType
<1>6. ASSUME NEW why, Refuse(why) PROVE LoopInv' /\ Runs!Refuse
  <2>1. at' = "ended" /\ verdict' = "Refused" /\ UNCHANGED <<left, burst, done>>
    BY <1>6 DEF Refuse, loopVars
  <2> QED  BY <1>1, <1>2, <1>4, <2>1 DEF LoopInv, Runs!Refuse
<1>7. ASSUME NEW load, NEW symbol, Enter(load, symbol) PROVE LoopInv' /\ UNCHANGED Runs!vars
  <2>1. at' = "between" /\ UNCHANGED <<left, burst, done, verdict>>
    BY <1>7 DEF Enter, loopVars, endVars
  <2> QED  BY <1>1, <1>2, <1>3, <1>4, <1>5, <2>1 DEF LoopInv, Runs!vars
<1> QED
  <2>1. (\E why : Refuse(why)) \/ (\E load, symbol : Enter(load, symbol))
    BY DEF Load
  <2> QED  BY <1>6, <1>7, <2>1

LEMMA NextLoop ==
    ASSUME LoopInv, [Next]_vars PROVE LoopInv' /\ [Runs!Next]_(Runs!vars)
<1>1. CASE Load  BY <1>1, LoadLoop DEF Runs!Next
<1>2. CASE Step
  <2>1. \E r, v : Finish(r, v)
    BY <1>2 DEF Step, Computes, InstallsHandler, Traps, Ecalls, Stores
  <2> QED  BY <2>1, FinishLoop DEF Runs!Next
<1>3. CASE Call
  <2>1. called' = called /\ UNCHANGED <<done, verdict, taken>>
    BY <1>3 DEF Call, endVars
  <2>2. O' = O  BY <2>1 DEF O
  <2>3. Plain' = Plain  BY <2>2 DEF Plain
  <2>4. /\ at = "between" /\ (Plain \/ done < O.max)
        /\ at' = "running" /\ left' = Burst /\ burst' = Burst
    BY <1>3 DEF Call
  <2>5. /\ called \in DOMAIN Invocations /\ taken \in Nat /\ done \in Nat /\ verdict = "none"
        /\ taken = done /\ done <= O.max /\ (Plain => done = 0)
    BY <2>4 DEF LoopInv
  <2>6. Burst \in Nat /\ done + Burst <= O.max /\ (Plain => Burst = O.max)
    BY <2>4, <2>5, BurstFits
  <2>7. done' + burst' - left' = done  BY <2>1, <2>4, <2>5, <2>6
  <2>8. LoopInv'  BY <2>1, <2>2, <2>3, <2>4, <2>5, <2>6, <2>7 DEF LoopInv
  <2> QED  BY <2>1, <2>2, <2>8 DEF Runs!vars
<1>4. CASE BudgetSpent
  <2>1. /\ at = "between" /\ ~ Plain /\ done >= O.max
        /\ at' = "ended" /\ verdict' = "StepLimit"
        /\ UNCHANGED <<called, left, burst, done, taken>>
    BY <1>4 DEF BudgetSpent, End, loopVars
  <2>2. O' = O  BY <2>1 DEF O
  <2>3. /\ called \in DOMAIN Invocations /\ taken = done /\ done <= O.max /\ done \in Nat
        /\ verdict = "none"
    BY <2>1 DEF LoopInv
  <2>4. taken = O.max  BY <2>1, <2>3, BudgetType
  <2>5. LoopInv'  BY <2>1, <2>2 DEF LoopInv
  <2> QED  BY <2>1, <2>2, <2>3, <2>4, <2>5 DEF Runs!Next, Runs!OutOfSteps
<1>5. CASE Return
  <2>1. at = "running" /\ left = 0 /\ UNCHANGED <<called, taken>>  BY <1>5 DEF Return
  <2>2. O' = O  BY <2>1 DEF O
  <2>3. Plain' = Plain  BY <2>2 DEF Plain
  <2>4. /\ called \in DOMAIN Invocations /\ taken \in Nat /\ done \in Nat /\ burst \in Nat
        /\ taken = done + burst - left /\ done + burst <= O.max
        /\ (Plain => done = 0 /\ burst = O.max) /\ verdict = "none"
    BY <2>1 DEF LoopInv
  <2>5. O.max \in Nat  BY <2>4, BudgetType
  <2>6. CASE Plain
    <3>1. at' = "ended" /\ verdict' = "StepLimit" /\ UNCHANGED <<left, burst, done>>
      BY <1>5, <2>6 DEF Return, End, loopVars
    <3>2. taken = O.max  BY <2>1, <2>4, <2>5, <2>6
    <3>3. LoopInv'  BY <2>1, <2>2, <3>1 DEF LoopInv
    <3> QED  BY <2>1, <2>2, <2>4, <3>1, <3>2, <3>3 DEF Runs!Next, Runs!OutOfSteps
  <2>7. CASE ~ Plain
    <3>1. at' = "between" /\ done' = done + burst /\ UNCHANGED <<left, burst, verdict>>
      BY <1>5, <2>7 DEF Return, endVars
    <3>2. taken = done'  BY <2>1, <2>4, <3>1
    <3>3. done' \in Nat /\ done' <= O.max  BY <2>4, <3>1
    <3>4. LoopInv'
      BY <2>1, <2>2, <2>3, <2>4, <2>7, <3>1, <3>2, <3>3 DEF LoopInv
    <3> QED  BY <2>1, <2>2, <3>1, <3>4 DEF Runs!vars
  <2> QED  BY <2>6, <2>7
<1>6. CASE UNCHANGED vars
  <2>1. UNCHANGED <<called, at, left, burst, done, verdict, taken>>
    BY <1>6 DEF vars, loopVars, endVars
  <2>2. O' = O  BY <2>1 DEF O
  <2>3. Plain' = Plain  BY <2>2 DEF Plain
  <2>4. LoopInv'  BY <2>1, <2>2, <2>3 DEF LoopInv
  <2> QED  BY <2>1, <2>2, <2>4 DEF Runs!vars
<1> QED  BY <1>1, <1>2, <1>3, <1>4, <1>5, <1>6 DEF Next

\* However a run is cut into bursts, to sample it or to trace it, it is one
\* loop of single steps that ends with the program or exactly at its budget,
\* and an image that is refused takes none (main.rs main and run, cpu.rs run).
\* That there is always a verdict is the half RunIsOneLoop leaves to TLC.
THEOREM BurstsRefineRunner == Spec => Runs!Init /\ [][Runs!Next]_(Runs!vars)
<1>1. Init => Runs!Init
  BY BudgetType DEF Init, Runs!Init
<1>2. LoopInv /\ [Next]_vars => LoopInv' /\ [Runs!Next]_(Runs!vars)
  BY NextLoop
<1> QED  BY <1>1, <1>2, InitLoop, PTL DEF Spec

-----------------------------------------------------------------------------
(* The image *)

\* Every nonempty set of naturals has a least element.
LEMMA LeastNatural ==
    ASSUME NEW T \in SUBSET Nat, T # {}
    PROVE  \E x \in T : \A y \in T : x <= y
<1> DEFINE R == OpToRel(<, Nat)
<1>1. PICK x \in T : \A y \in T : ~ (<<y, x>> \in R)
  BY WFMin, NatLessThanWellFounded
<1>2. ASSUME NEW y \in T PROVE x <= y
  <2>1. ~ (y < x)  BY <1>1 DEF OpToRel
  <2> QED  BY <2>1
<1> QED  BY <1>2

Bytes == 0 .. Byte - 1
Header == [type : STRING, paddr : Nat, data : Seq(Bytes), memsz : Nat, inFile : BOOLEAN]

\* What loading one segment asks for and leaves behind.
SegmentFits(seg) ==
    /\ index(seg.addr, Len(seg.data))
    /\ seg.zero_len > 0 => index(seg.addr + Len(seg.data), seg.zero_len)
Span(seg) == seg.addr .. seg.addr + Len(seg.data) + seg.zero_len - 1
Value(seg, a) == IF a - seg.addr < Len(seg.data) THEN seg.data[a - seg.addr + 1] ELSE 0

\* The memory after the headers up to i, without the loop: the last segment
\* over an address counts, and one that does not fit spoils it all.
CoveringTo(f, i, a) == {j \in Loadable(f) : j <= i /\ a \in Span(Segments(f)[j])}
ByteAt(f, i, a) ==
    IF CoveringTo(f, i, a) = {} THEN 0 ELSE Value(Segments(f)[LastOf(CoveringTo(f, i, a))], a)
Loaded(f, i) ==
    IF \A j \in Loadable(f) : j <= i => SegmentFits(Segments(f)[j])
    THEN [fits |-> TRUE, mem |-> [a \in Dram |-> ByteAt(f, i, a)]]
    ELSE Failed

LEMMA SegmentType ==
    ASSUME NEW f, f.headers \in Seq(Header), NEW j \in Loadable(f)
    PROVE  LET seg == Segments(f)[j] IN
           seg.addr \in Nat /\ seg.data \in Seq(Bytes) /\ Len(seg.data) \in Nat /\ seg.zero_len \in Nat
<1>1. j \in DOMAIN f.headers  BY DEF Loadable
<1>2. f.headers[j] \in Header  BY <1>1
<1> DEFINE ph == f.headers[j]
<1>3. ph.paddr \in Nat /\ ph.data \in Seq(Bytes) /\ ph.memsz \in Nat  BY <1>2 DEF Header
<1>4. Segments(f)[j] = Segment(ph)  BY DEF Segments
<1> HIDE DEF ph
<1>5. Len(ph.data) \in Nat  BY <1>3
<1> QED  BY <1>3, <1>4, <1>5 DEF Segment

\* One load_at of what fits, and of what does not.
LEMMA LoadAtIs ==
    ASSUME NEW m, DOMAIN m = Dram, NEW addr, NEW data
    PROVE  load_at([fits |-> TRUE, mem |-> m], addr, data) =
             IF index(addr, Len(data))
             THEN [fits |-> TRUE,
                   mem |-> [a \in Dram |-> IF a \in addr .. addr + Len(data) - 1
                                           THEN data[a - addr + 1] ELSE m[a]]]
             ELSE Failed
<1> DEFINE load == [fits |-> TRUE, mem |-> m]
<1>1. load.fits = TRUE /\ load.mem = m  OBVIOUS
<1> HIDE DEF load
<1>2. load_at(load, addr, data) =
        IF index(addr, Len(data)) THEN [fits |-> TRUE, mem |-> Over(m, addr, data)] ELSE Failed
  BY <1>1 DEF load_at
<1> QED  BY <1>2 DEF Over, load

LEMMA LoadAtFailed == ASSUME NEW addr, NEW data PROVE load_at(Failed, addr, data) = Failed
<1>1. Failed.fits = FALSE  BY DEF Failed, Empty
<1> QED  BY <1>1 DEF load_at

LEMMA SegmentFailed == ASSUME NEW seg PROVE load_segment(Failed, seg) = Failed
BY LoadAtFailed DEF load_segment, zero

LEMMA SegmentLoads ==
    ASSUME NEW m, DOMAIN m = Dram, NEW seg, seg.addr \in Nat, seg.data \in Seq(Bytes),
           Len(seg.data) \in Nat, seg.zero_len \in Nat
    PROVE  load_segment([fits |-> TRUE, mem |-> m], seg) =
             IF SegmentFits(seg)
             THEN [fits |-> TRUE,
                   mem |-> [a \in Dram |-> IF a \in Span(seg) THEN Value(seg, a) ELSE m[a]]]
             ELSE Failed
<1> DEFINE l == Len(seg.data)
           z == [i \in 1 .. seg.zero_len |-> 0]
           first == [a \in Dram |-> IF a \in seg.addr .. seg.addr + l - 1
                                    THEN seg.data[a - seg.addr + 1] ELSE m[a]]
           whole == [a \in Dram |-> IF a \in Span(seg) THEN Value(seg, a) ELSE m[a]]
<1>0. \A a \in Dram : a \in Int  BY SessionAssumption DEF Dram
<1>1. load_at([fits |-> TRUE, mem |-> m], seg.addr, seg.data) =
        IF index(seg.addr, l) THEN [fits |-> TRUE, mem |-> first] ELSE Failed
  BY LoadAtIs
<1>2. Len(z) = seg.zero_len  OBVIOUS
<1>3. CASE ~ index(seg.addr, l)
  BY <1>1, <1>3, LoadAtFailed DEF load_segment, zero, SegmentFits
<1>4. CASE index(seg.addr, l) /\ seg.zero_len = 0
  <2>1. \A a \in Dram : (a \in Span(seg) <=> a \in seg.addr .. seg.addr + l - 1)
                        /\ (a \in Span(seg) => Value(seg, a) = seg.data[a - seg.addr + 1])
    BY <1>0, <1>4 DEF Span, Value
  <2>2. first = whole  BY <2>1
  <2>3. load_segment([fits |-> TRUE, mem |-> m], seg) = [fits |-> TRUE, mem |-> first]
    BY <1>1, <1>4 DEF load_segment
  <2>4. SegmentFits(seg)  BY <1>4 DEF SegmentFits
  <2> QED  BY <2>2, <2>3, <2>4
<1>5. CASE index(seg.addr, l) /\ seg.zero_len > 0
  <2>1. load_segment([fits |-> TRUE, mem |-> m], seg)
          = load_at([fits |-> TRUE, mem |-> first], seg.addr + l, z)
    BY <1>1, <1>5 DEF load_segment, zero
  <2> DEFINE second == [a \in Dram |-> IF a \in seg.addr + l .. seg.addr + l + Len(z) - 1
                                       THEN z[a - (seg.addr + l) + 1] ELSE first[a]]
  <2>2. DOMAIN first = Dram  OBVIOUS
  <2> HIDE DEF first, z
  <2>3. load_at([fits |-> TRUE, mem |-> first], seg.addr + l, z)
          = IF index(seg.addr + l, seg.zero_len) THEN [fits |-> TRUE, mem |-> second] ELSE Failed
    BY <1>2, <2>2, LoadAtIs
  <2>4. ASSUME NEW a \in Dram PROVE second[a] = whole[a]
    <3>0. a \in Int  BY <1>0
    <3>1. CASE a \in seg.addr + l .. seg.addr + l + Len(z) - 1
      <4>1. second[a] = z[a - (seg.addr + l) + 1]  BY <3>1
      <4>2. a - (seg.addr + l) + 1 \in 1 .. seg.zero_len  BY <1>2, <3>0, <3>1
      <4>3. z[a - (seg.addr + l) + 1] = 0  BY <4>2 DEF z
      <4>4. a \in Span(seg) /\ ~ (a - seg.addr < l)  BY <1>2, <3>0, <3>1 DEF Span
      <4> QED  BY <4>1, <4>3, <4>4 DEF Value
    <3>2. CASE a \notin seg.addr + l .. seg.addr + l + Len(z) - 1
      <4>1. second[a] = first[a]  BY <3>2
      <4>2. a \in Span(seg) <=> a \in seg.addr .. seg.addr + l - 1
        BY <1>2, <3>0, <3>2 DEF Span
      <4>3. a \in seg.addr .. seg.addr + l - 1 => a - seg.addr < l  BY <3>0
      <4> QED  BY <4>1, <4>2, <4>3 DEF Value, first
    <3> QED  BY <3>1, <3>2
  <2>5. second = whole  BY <2>4
  <2> QED  BY <1>5, <2>1, <2>3, <2>5 DEF SegmentFits
<1> QED  BY <1>3, <1>4, <1>5

\* The loop over the headers computes that memory, one header at a time.
LEMMA CoveringStep ==
    ASSUME NEW f, f.headers \in Seq(Header), NEW i \in 1 .. Len(f.headers), NEW a
    PROVE  ByteAt(f, i, a) = IF i \in Loadable(f) /\ a \in Span(Segments(f)[i])
                             THEN Value(Segments(f)[i], a) ELSE ByteAt(f, i - 1, a)
<1>1. \A j \in Loadable(f) : j \in Nat  BY DEF Loadable
<1>2. i \in Nat  OBVIOUS
<1>3. CASE i \in Loadable(f) /\ a \in Span(Segments(f)[i])
  <2>1. i \in CoveringTo(f, i, a) /\ \A j \in CoveringTo(f, i, a) : j <= i /\ j \in Nat
    BY <1>1, <1>2, <1>3 DEF CoveringTo
  <2>2. LastOf(CoveringTo(f, i, a)) = i  BY <1>2, <2>1 DEF LastOf
  <2> QED  BY <1>3, <2>1, <2>2 DEF ByteAt
<1>4. CASE ~ (i \in Loadable(f) /\ a \in Span(Segments(f)[i]))
  <2>1. \A j \in Loadable(f) : a \in Span(Segments(f)[j]) => (j <= i <=> j <= i - 1)
    BY <1>1, <1>2, <1>4
  <2>2. CoveringTo(f, i, a) = CoveringTo(f, i - 1, a)  BY <2>1 DEF CoveringTo
  <2> QED  BY <1>4, <2>2 DEF ByteAt
<1> QED  BY <1>3, <1>4

LEMMA LoadedStart ==
    ASSUME NEW f, f.headers \in Seq(Header) PROVE Loaded(f, 0) = Empty
<1>1. \A j \in Loadable(f) : ~ (j <= 0)  BY DEF Loadable
<1>2. \A a : CoveringTo(f, 0, a) = {}  BY <1>1 DEF CoveringTo
<1>3. \A a \in Dram : ByteAt(f, 0, a) = 0  BY <1>2 DEF ByteAt
<1>4. [a \in Dram |-> ByteAt(f, 0, a)] = [a \in Dram |-> 0]  BY <1>3
<1> QED  BY <1>1, <1>4 DEF Loaded, Empty

LEMMA LoadedStep ==
    ASSUME NEW f, f.headers \in Seq(Header), NEW i \in 1 .. Len(f.headers)
    PROVE  Loaded(f, i) = IF i \in Loadable(f) THEN load_segment(Loaded(f, i - 1), Segments(f)[i])
                          ELSE Loaded(f, i - 1)
<1> DEFINE seg == Segments(f)[i]
           before == \A j \in Loadable(f) : j <= i - 1 => SegmentFits(Segments(f)[j])
           after == \A j \in Loadable(f) : j <= i => SegmentFits(Segments(f)[j])
           old == [a \in Dram |-> ByteAt(f, i - 1, a)]
           new == [a \in Dram |-> ByteAt(f, i, a)]
<1>1. \A j \in Loadable(f) : j \in Nat /\ (j <= i <=> j <= i - 1 \/ j = i)  BY DEF Loadable
<1>2. CASE i \notin Loadable(f)
  <2>1. after <=> before  BY <1>1, <1>2
  <2>2. \A a \in Dram : ByteAt(f, i, a) = ByteAt(f, i - 1, a)  BY <1>2, CoveringStep
  <2>3. new = old  BY <2>2
  <2> QED  BY <1>2, <2>1, <2>3 DEF Loaded
<1>3. CASE i \in Loadable(f)
  <2>1. after <=> before /\ SegmentFits(seg)  BY <1>1, <1>3
  <2>2. CASE before
    <3> DEFINE m == [a \in Dram |-> IF a \in Span(seg) THEN Value(seg, a) ELSE old[a]]
    <3>1. Loaded(f, i - 1) = [fits |-> TRUE, mem |-> old]  BY <2>2 DEF Loaded
    <3>2. /\ seg.addr \in Nat /\ seg.data \in Seq(Bytes) /\ Len(seg.data) \in Nat
          /\ seg.zero_len \in Nat
      BY <1>3, SegmentType
    <3>3. DOMAIN old = Dram  OBVIOUS
    <3>4. \A a \in Dram : new[a] = m[a]  BY <1>3, CoveringStep
    <3>5. new = m  BY <3>4
    <3> HIDE DEF old, seg
    <3>6. load_segment([fits |-> TRUE, mem |-> old], seg) =
            IF SegmentFits(seg) THEN [fits |-> TRUE, mem |-> m] ELSE Failed
      BY <3>2, <3>3, SegmentLoads
    <3>7. Loaded(f, i) = IF after THEN [fits |-> TRUE, mem |-> new] ELSE Failed  BY DEF Loaded
    <3> HIDE DEF after, m, new
    <3>8. Loaded(f, i) = load_segment(Loaded(f, i - 1), seg)
      BY <2>1, <2>2, <3>1, <3>5, <3>6, <3>7
    <3> QED  BY <1>3, <3>8 DEF seg
  <2>3. CASE ~ before
    <3>1. Loaded(f, i - 1) = Failed  BY <2>3 DEF Loaded
    <3>2. Loaded(f, i) = Failed  BY <2>1, <2>3 DEF Loaded
    <3> QED  BY <1>3, <3>1, <3>2, SegmentFailed
  <2> QED  BY <2>2, <2>3
<1> QED  BY <1>2, <1>3

LEMMA LoadElfIs ==
    ASSUME NEW f, f.headers \in Seq(Header) PROVE load_elf(f) = Loaded(f, Len(f.headers))
<1> DEFINE N == Len(f.headers)
           Body(g, i) == IF i = 0 THEN Empty
                         ELSE IF i \in Loadable(f) THEN load_segment(g[i - 1], Segments(f)[i])
                         ELSE g[i - 1]
           Runs1(g) == g = [i \in 0 .. N |-> Body(g, i)]
           closed == [i \in 0 .. N |-> Loaded(f, i)]
<1>1. N \in Nat  OBVIOUS
<1>2. load_elf(f) = (CHOOSE g : Runs1(g))[N]  BY DEF load_elf
<1>3. Runs1(closed)
  <2>1. ASSUME NEW i \in 0 .. N PROVE closed[i] = Body(closed, i)
    <3>1. CASE i = 0  BY <3>1, LoadedStart
    <3>2. CASE i # 0
      <4>1. i \in 1 .. N /\ i - 1 \in 0 .. N  BY <1>1, <3>2
      <4>2. closed[i - 1] = Loaded(f, i - 1) /\ closed[i] = Loaded(f, i)  BY <4>1
      <4>3. Loaded(f, i) = IF i \in Loadable(f)
                           THEN load_segment(Loaded(f, i - 1), Segments(f)[i])
                           ELSE Loaded(f, i - 1)
        BY <4>1, LoadedStep
      <4> HIDE DEF closed
      <4> QED  BY <3>2, <4>2, <4>3
    <3> QED  BY <3>1, <3>2
  <2>2. closed = [i \in 0 .. N |-> closed[i]]  OBVIOUS
  <2> HIDE DEF closed, Body
  <2> QED  BY <2>1, <2>2
<1>4. ASSUME NEW g, Runs1(g) PROVE g[N] = Loaded(f, N)
  <2> DEFINE wrong == {i \in 0 .. N : g[i] # Loaded(f, i)}
  <2>1. SUFFICES ASSUME wrong # {} PROVE FALSE  BY <1>1
  <2>2. wrong \in SUBSET Nat  OBVIOUS
  <2>3. PICK i \in wrong : \A j \in wrong : i <= j  BY <2>1, <2>2, LeastNatural
  <2>4. i \in 0 .. N /\ g[i] # Loaded(f, i)  BY <2>3
  <2> HIDE DEF Body
  <2>5. g[i] = Body(g, i)  BY <1>4, <2>4
  <2>6. CASE i = 0  BY <2>4, <2>5, <2>6, LoadedStart DEF Body
  <2>7. CASE i # 0
    <3>1. i \in 1 .. N /\ i - 1 \in 0 .. N /\ ~ (i <= i - 1)  BY <1>1, <2>4, <2>7
    <3>2. g[i - 1] = Loaded(f, i - 1)  BY <2>3, <3>1
    <3>3. Loaded(f, i) = IF i \in Loadable(f)
                         THEN load_segment(Loaded(f, i - 1), Segments(f)[i])
                         ELSE Loaded(f, i - 1)
      BY <3>1, LoadedStep
    <3> QED  BY <2>4, <2>5, <2>7, <3>2, <3>3 DEF Body
  <2> QED  BY <2>6, <2>7
<1> HIDE DEF Runs1, closed
<1>5. Runs1(CHOOSE g : Runs1(g))  BY <1>3
<1> QED  BY <1>2, <1>4, <1>5

\* What each way of loading leaves when it succeeds, against what was asked for.
Placed(mem) ==
    /\ mem = [a \in Dram |-> Linked(a)]
    /\ \A i \in DOMAIN Wanted : Extent(Wanted[i]) \subseteq Dram

LEMMA FileTypes ==
    ASSUME called \in DOMAIN Invocations
    PROVE  /\ O.kernel \/ ~ O.file.elf => O.file.data \in Seq(Bytes)
           /\ O.kernel => O.tree \in Seq(Bytes)
           /\ ~ O.kernel /\ O.file.elf => O.file.headers \in Seq(Header)
BY FileAssumption DEF O, Bytes, Header

LEMMA LastCovers ==
    ASSUME NEW f, f.headers \in Seq(Header), NEW a,
           CoveringTo(f, Len(f.headers), a) # {}
    PROVE  LET j == LastOf(CoveringTo(f, Len(f.headers), a)) IN
           j \in Loadable(f) /\ a \in Span(Segments(f)[j])
<1> DEFINE N == Len(f.headers)
           C == CoveringTo(f, N, a)
           above == {N - k : k \in C}
<1>1. C # {} /\ N \in Nat /\ \A k \in C : k \in Nat /\ k <= N
  BY DEF CoveringTo, Loadable
<1>2. \A k \in C : k \in Loadable(f) /\ a \in Span(Segments(f)[k])  BY DEF CoveringTo
<1> HIDE DEF C, N
<1>3. above # {} /\ above \in SUBSET Nat  BY <1>1
<1>4. PICK d \in above : \A e \in above : d <= e  BY <1>3, LeastNatural
<1>5. PICK k \in C : d = N - k  BY <1>4
<1>6. ASSUME NEW e \in C PROVE e <= k
  <2>1. N - k <= N - e  BY <1>4, <1>5, <1>6
  <2> QED  BY <1>1, <1>5, <1>6, <2>1
<1>7. LastOf(C) \in C  BY <1>5, <1>6 DEF LastOf
<1> QED  BY <1>2, <1>7 DEF C, N

\* Memory loaded with bytes holds bytes.
LEMMA ElfBytes ==
    ASSUME NEW f, f.headers \in Seq(Header), load_elf(f).fits
    PROVE  load_elf(f).mem \in [Dram -> Bytes]
<1> DEFINE N == Len(f.headers)
<1>1. load_elf(f) = Loaded(f, N)  BY LoadElfIs
<1>2. load_elf(f).mem = [a \in Dram |-> ByteAt(f, N, a)]
  <2>1. Failed.fits = FALSE  BY DEF Failed
  <2>2. Loaded(f, N) = [fits |-> TRUE, mem |-> [a \in Dram |-> ByteAt(f, N, a)]]
    BY <1>1, <2>1 DEF Loaded
  <2> QED  BY <1>1, <2>2
<1>3. 0 \in Bytes  BY SessionAssumption DEF Bytes
<1>4. ASSUME NEW a \in Dram PROVE ByteAt(f, N, a) \in Bytes
  <2>1. CASE CoveringTo(f, N, a) = {}  BY <1>3, <2>1 DEF ByteAt
  <2>2. CASE CoveringTo(f, N, a) # {}
    <3> DEFINE j == LastOf(CoveringTo(f, N, a))
               seg == Segments(f)[j]
    <3>1. j \in Loadable(f) /\ a \in Span(seg)  BY <2>2, LastCovers
    <3>2. /\ seg.addr \in Nat /\ seg.data \in Seq(Bytes) /\ Len(seg.data) \in Nat
          /\ seg.zero_len \in Nat
      BY <3>1, SegmentType
    <3>3. ByteAt(f, N, a) = Value(seg, a)  BY <2>2 DEF ByteAt
    <3> HIDE DEF seg, j
    <3>4. a \in Int /\ a >= seg.addr  BY <3>1, <3>2, SessionAssumption DEF Span, Dram
    <3>5. CASE a - seg.addr < Len(seg.data)
      <4>1. a - seg.addr + 1 \in 1 .. Len(seg.data)  BY <3>2, <3>4, <3>5
      <4>2. seg.data[a - seg.addr + 1] \in Bytes  BY <3>2, <4>1
      <4> QED  BY <3>3, <3>5, <4>2 DEF Value
    <3>6. CASE ~ (a - seg.addr < Len(seg.data))  BY <1>3, <3>3, <3>6 DEF Value
    <3> QED  BY <3>5, <3>6
  <2> QED  BY <2>1, <2>2
<1> QED  BY <1>2, <1>4

LEMMA ElfPlaced ==
    ASSUME called \in DOMAIN Invocations, ~ O.kernel, O.file.elf, load_elf(O.file).fits
    PROVE  Placed(load_elf(O.file).mem)
<1> DEFINE f == O.file
           N == Len(f.headers)
           W == [i \in Loadable(f) |-> [addr |-> Segments(f)[i].addr, data |-> Segments(f)[i].data,
                                        len |-> Segments(f)[i].zero_len]]
<1>1. f.headers \in Seq(Header)  BY FileTypes
<1>2. Wanted = W
  <2>1. DOMAIN Segments(f) = Loadable(f)  BY DEF Segments
  <2> QED  BY <2>1 DEF Wanted
<1>3. load_elf(f) = Loaded(f, N)  BY <1>1, LoadElfIs
<1>4. \A j \in Loadable(f) : j <= N  BY <1>1 DEF Loadable
<1>5. /\ \A j \in Loadable(f) : SegmentFits(Segments(f)[j])
      /\ load_elf(f).mem = [a \in Dram |-> ByteAt(f, N, a)]
  <2>1. Loaded(f, N).fits  BY <1>3
  <2>2. Failed.fits = FALSE  BY DEF Failed
  <2>3. \A j \in Loadable(f) : j <= N => SegmentFits(Segments(f)[j])
    BY <2>1, <2>2 DEF Loaded
  <2>4. Loaded(f, N) = [fits |-> TRUE, mem |-> [a \in Dram |-> ByteAt(f, N, a)]]
    BY <2>3 DEF Loaded
  <2> QED  BY <1>3, <1>4, <2>3, <2>4
<1> HIDE DEF f, N
<1>6. \A j \in Loadable(f) :
        /\ W[j].addr = Segments(f)[j].addr /\ W[j].data = Segments(f)[j].data
        /\ W[j].len = Segments(f)[j].zero_len
  OBVIOUS
<1>7. DOMAIN W = Loadable(f)  OBVIOUS
<1> HIDE DEF W
<1>8. \A j \in Loadable(f) : Extent(Wanted[j]) = Span(Segments(f)[j])
  BY <1>2, <1>6 DEF Extent, Span
<1>9. ASSUME NEW j \in Loadable(f) PROVE Span(Segments(f)[j]) \subseteq Dram
  <2> DEFINE seg == Segments(f)[j]
  <2>1. seg.addr \in Nat /\ Len(seg.data) \in Nat /\ seg.zero_len \in Nat
    BY <1>1, SegmentType
  <2>2. SegmentFits(seg)  BY <1>5
  <2> DEFINE s == seg.addr
             l == Len(seg.data)
             z == seg.zero_len
  <2>3. index(s, l) /\ (z > 0 => index(s + l, z))  BY <2>2 DEF SegmentFits
  <2>4. s \in Nat /\ l \in Nat /\ z \in Nat  BY <2>1
  <2> HIDE DEF seg, s, l, z
  <2>5. s .. s + l + z - 1 \subseteq DRAM_BASE .. DRAM_BASE + DramSize - 1
    BY <2>3, <2>4, SessionAssumption DEF index
  <2> QED  BY <2>5 DEF Span, Dram, seg, s, l, z
<1>10. ASSUME NEW a \in Dram PROVE Linked(a) = ByteAt(f, N, a)
  <2>1. Covering(a) = CoveringTo(f, N, a)
    BY <1>2, <1>4, <1>7, <1>8 DEF Covering, CoveringTo
  <2>2. CASE Covering(a) = {}  BY <2>1, <2>2 DEF Linked, ByteAt
  <2>3. CASE Covering(a) # {}
    <3> DEFINE j == LastOf(CoveringTo(f, N, a))
    <3>1. j \in Loadable(f)
      BY <1>1, <2>1, <2>3, LastCovers DEF N
    <3> HIDE DEF j
    <3>2. Linked(a) = IF a - Wanted[j].addr < Len(Wanted[j].data)
                      THEN Wanted[j].data[a - Wanted[j].addr + 1] ELSE 0
      BY <2>1, <2>3 DEF Linked, j
    <3>3. ByteAt(f, N, a) = Value(Segments(f)[j], a)  BY <2>1, <2>3 DEF ByteAt, j
    <3>4. /\ Wanted[j].addr = Segments(f)[j].addr /\ Wanted[j].data = Segments(f)[j].data
      BY <1>2, <1>6, <3>1
    <3>5. Value(Segments(f)[j], a) = IF a - Wanted[j].addr < Len(Wanted[j].data)
                                     THEN Wanted[j].data[a - Wanted[j].addr + 1] ELSE 0
      BY <3>4 DEF Value
    <3> QED  BY <3>2, <3>3, <3>5
  <2> QED  BY <2>2, <2>3
<1>11. [a \in Dram |-> ByteAt(f, N, a)] = [a \in Dram |-> Linked(a)]  BY <1>10
<1>12. load_elf(f).mem = [a \in Dram |-> Linked(a)]  BY <1>5, <1>11
<1>13. \A i \in DOMAIN Wanted : Extent(Wanted[i]) \subseteq Dram
  BY <1>2, <1>7, <1>8, <1>9
<1> QED  BY <1>12, <1>13 DEF Placed, f

LEMMA FlatPlaced ==
    ASSUME called \in DOMAIN Invocations, ~ O.kernel, ~ O.file.elf, ~ (Len(O.file.data) > DramSize)
    PROVE  Placed(Over(Empty.mem, DRAM_BASE, O.file.data))
<1> DEFINE d == O.file.data
           w == [addr |-> DRAM_BASE, data |-> d, len |-> 0]
<1>1. d \in Seq(Bytes) /\ Len(d) \in Nat /\ Len(d) <= DramSize
  BY FileTypes, SessionAssumption
<1>2. Wanted = <<w>>  BY DEF Wanted
<1>3. w.addr = DRAM_BASE /\ w.data = d /\ w.len = 0  OBVIOUS
<1>4. Empty.mem = [a \in Dram |-> 0]  BY DEF Empty
<1> HIDE DEF d, w
<1>5. Extent(w) = DRAM_BASE .. DRAM_BASE + Len(d) - 1
  BY <1>1, <1>3, SessionAssumption DEF Extent
<1>6. DOMAIN Wanted = {1} /\ Wanted[1] = w  BY <1>2
<1>7. ASSUME NEW a \in Dram
      PROVE  Linked(a) = IF a \in Extent(w) THEN d[a - DRAM_BASE + 1] ELSE 0
  <2>1. Covering(a) = IF a \in Extent(w) THEN {1} ELSE {}  BY <1>6 DEF Covering
  <2>2. CASE a \in Extent(w)
    <3>1. LastOf({1}) = 1  BY DEF LastOf
    <3>2. a - DRAM_BASE < Len(d)  BY <1>1, <1>5, <2>2, SessionAssumption
    <3> QED  BY <1>3, <1>6, <2>1, <2>2, <3>1, <3>2 DEF Linked
  <2>3. CASE a \notin Extent(w)  BY <2>1, <2>3 DEF Linked
  <2> QED  BY <2>2, <2>3
<1>8. Over(Empty.mem, DRAM_BASE, d)
        = [a \in Dram |-> IF a \in Extent(w) THEN d[a - DRAM_BASE + 1] ELSE 0]
  BY <1>4, <1>5 DEF Over
<1>9. Over(Empty.mem, DRAM_BASE, d) = [a \in Dram |-> Linked(a)]  BY <1>7, <1>8
<1>10. Extent(w) \subseteq Dram  BY <1>1, <1>5, SessionAssumption DEF Dram
<1> QED  BY <1>6, <1>9, <1>10 DEF Placed, d

LEMMA KernelPlaced ==
    ASSUME called \in DOMAIN Invocations, O.kernel, load_kernel.fits
    PROVE  Placed(load_kernel.mem)
<1> DEFINE d == O.file.data
           t == O.tree
           da == DRAM_BASE + KERNEL_OFFSET
           ta == dtb_addr
           u == [addr |-> da, data |-> d, len |-> 0]
           w == [addr |-> ta, data |-> t, len |-> 0]
           m1 == [a \in Dram |-> IF a \in da .. da + Len(d) - 1 THEN d[a - da + 1] ELSE Empty.mem[a]]
           m2 == [a \in Dram |-> IF a \in ta .. ta + Len(t) - 1 THEN t[a - ta + 1] ELSE m1[a]]
<1>1. d \in Seq(Bytes) /\ t \in Seq(Bytes)  BY FileTypes
<1>2. Len(d) \in Nat /\ Len(t) \in Nat /\ da \in Nat /\ ta \in Int /\ DRAM_BASE \in Nat
      /\ DramSize \in Nat
  BY <1>1, SessionAssumption DEF dtb_addr
<1>3. Wanted = <<u, w>>  BY DEF Wanted
<1>4. /\ u.addr = da /\ u.data = d /\ u.len = 0
      /\ w.addr = ta /\ w.data = t /\ w.len = 0
  OBVIOUS
<1>5. Empty = [fits |-> TRUE, mem |-> [a \in Dram |-> 0]]
      /\ Empty.mem = [a \in Dram |-> 0] /\ DOMAIN Empty.mem = Dram
  BY DEF Empty
<1>6. DOMAIN m1 = Dram  OBVIOUS
<1>7. load_kernel = load_at(load_at(Empty, da, d), ta, t)  BY DEF load_kernel
<1> HIDE DEF d, t, da, ta, u, w, m1, m2
<1>8. load_at(Empty, da, d) = IF index(da, Len(d)) THEN [fits |-> TRUE, mem |-> m1] ELSE Failed
  <2>1. Empty = [fits |-> TRUE, mem |-> Empty.mem]  BY <1>5
  <2>2. load_at([fits |-> TRUE, mem |-> Empty.mem], da, d)
          = IF index(da, Len(d)) THEN [fits |-> TRUE, mem |-> m1] ELSE Failed
    BY <1>5, LoadAtIs DEF m1
  <2> QED  BY <2>1, <2>2
<1>9. load_at([fits |-> TRUE, mem |-> m1], ta, t)
        = IF index(ta, Len(t)) THEN [fits |-> TRUE, mem |-> m2] ELSE Failed
  BY <1>6, LoadAtIs DEF m2
<1>10. Failed.fits = FALSE  BY DEF Failed
<1>11. index(da, Len(d)) /\ index(ta, Len(t)) /\ load_kernel = [fits |-> TRUE, mem |-> m2]
  BY <1>7, <1>8, <1>9, <1>10, LoadAtFailed
<1>12. Extent(u) = da .. da + Len(d) - 1 /\ Extent(w) = ta .. ta + Len(t) - 1
  BY <1>2, <1>4 DEF Extent
<1>13. DOMAIN Wanted = {1, 2} /\ Wanted[1] = u /\ Wanted[2] = w  BY <1>3
<1>14. Extent(u) \subseteq Dram /\ Extent(w) \subseteq Dram
  BY <1>2, <1>11, <1>12 DEF Dram, index
<1>15. ASSUME NEW a \in Dram PROVE Linked(a) = m2[a]
  <2>0. a \in Int  BY <1>2 DEF Dram
  <2>1. Covering(a) = {i \in {1, 2} : a \in Extent(Wanted[i])}  BY <1>13 DEF Covering
  <2>2. CASE a \in Extent(w)
    <3>1. 2 \in Covering(a) /\ \A i \in Covering(a) : i \in {1, 2}  BY <1>13, <2>1, <2>2
    <3>2. LastOf(Covering(a)) = 2  BY <3>1 DEF LastOf
    <3>3. a - ta < Len(t)  BY <1>2, <1>12, <2>0, <2>2
    <3>4. Linked(a) = t[a - ta + 1]  BY <1>4, <1>13, <3>1, <3>2, <3>3 DEF Linked
    <3> QED  BY <1>12, <2>2, <3>4 DEF m2
  <2>3. CASE a \notin Extent(w) /\ a \in Extent(u)
    <3>1. Covering(a) = {1}  BY <1>13, <2>1, <2>3
    <3>2. LastOf({1}) = 1  BY DEF LastOf
    <3>3. a - da < Len(d)  BY <1>2, <1>12, <2>0, <2>3
    <3>4. Linked(a) = d[a - da + 1]  BY <1>4, <1>13, <3>1, <3>2, <3>3 DEF Linked
    <3> QED  BY <1>12, <2>3, <3>4 DEF m1, m2
  <2>4. CASE a \notin Extent(w) /\ a \notin Extent(u)
    <3>1. Covering(a) = {}  BY <1>13, <2>1, <2>4
    <3>2. Linked(a) = 0  BY <3>1 DEF Linked
    <3> QED  BY <1>5, <1>12, <2>4, <3>2 DEF m1, m2
  <2> QED  BY <2>2, <2>3, <2>4
<1>16. m2 = [a \in Dram |-> Linked(a)]
  <2>1. m2 = [a \in Dram |-> m2[a]]  BY DEF m2
  <2> QED  BY <1>15, <2>1
<1> QED  BY <1>11, <1>13, <1>14, <1>16 DEF Placed

\* From the end of the load to the first step, memory is the image.
ImageInv ==
    /\ called \in DOMAIN Invocations
    /\ at \in {"load", "between", "running", "ended"} /\ taken \in Nat
    /\ at \in {"between", "running"} => \A i \in DOMAIN Wanted : Extent(Wanted[i]) \subseteq Dram
    /\ at \in {"between", "running"} /\ taken = 0 => dram = [a \in Dram |-> Linked(a)]

\* The image depends on the invocation alone.
LEMMA SameImage ==
    ASSUME called' = called
    PROVE  O' = O /\ Wanted' = Wanted /\ \A a : Linked(a)' = Linked(a)
<1>1. O' = O  BY DEF O
<1>2. Wanted' = Wanted  BY <1>1 DEF Wanted
<1> QED  BY <1>1, <1>2 DEF Linked, Covering

LEMMA NextImage == ImageInv /\ [Next]_vars => ImageInv'
<1> SUFFICES ASSUME ImageInv, [Next]_vars PROVE ImageInv'  OBVIOUS
<1>1. called' = called
  BY DEF Next, Load, Call, BudgetSpent, Return, Step, Computes, InstallsHandler, Traps, Ecalls,
         Stores, Finish, vars
<1>2. Wanted' = Wanted /\ \A a : Linked(a)' = Linked(a)  BY <1>1, SameImage
<1>3. called \in DOMAIN Invocations /\ taken \in Nat  BY DEF ImageInv
<1>4. ASSUME Placed(dram'), at' = "between", taken' = taken PROVE ImageInv'
  <2>1. dram' = [a \in Dram |-> Linked(a)']  BY <1>2, <1>4 DEF Placed
  <2>2. \A i \in DOMAIN Wanted' : Extent(Wanted[i])' \subseteq Dram
    BY <1>2, <1>4 DEF Placed, Extent
  <2> QED  BY <1>1, <1>3, <1>4, <2>1, <2>2 DEF ImageInv
<1>5. ASSUME at' = "ended", taken' \in Nat PROVE ImageInv'
  BY <1>1, <1>3, <1>5 DEF ImageInv
<1>6. CASE Load
  <2>1. taken' = taken  BY <1>6 DEF Load
  <2>2. ASSUME NEW why, Refuse(why) PROVE ImageInv'  BY <1>3, <1>5, <2>1, <2>2 DEF Refuse
  <2>3. ASSUME NEW load, NEW symbol, Enter(load, symbol), Placed(load.mem) PROVE ImageInv'
    BY <1>4, <2>1, <2>3 DEF Enter
  <2>4. CASE O.kernel
    BY <1>3, <1>6, <2>2, <2>3, <2>4, KernelPlaced DEF Load
  <2>5. CASE ~ O.kernel /\ O.file.elf
    BY <1>3, <1>6, <2>2, <2>3, <2>5, ElfPlaced DEF Load
  <2>6. CASE ~ O.kernel /\ ~ O.file.elf
    <3> DEFINE load == [fits |-> TRUE, mem |-> Over(Empty.mem, DRAM_BASE, O.file.data)]
    <3>1. load.mem = Over(Empty.mem, DRAM_BASE, O.file.data)  OBVIOUS
    <3>2. \/ Refuse(2) \/ Refuse(101)
          \/ Enter(load, None) /\ ~ (Len(O.file.data) > DramSize)
      BY <1>6, <2>6 DEF Load
    <3> HIDE DEF load
    <3> QED  BY <1>3, <2>2, <2>3, <2>6, <3>1, <3>2, FlatPlaced
  <2> QED  BY <2>4, <2>5, <2>6
<1>7. CASE Step
  <2>1. PICK r, v : Finish(r, v)
    BY <1>7 DEF Step, Computes, InstallsHandler, Traps, Ecalls, Stores
  <2>2. /\ at = "running" /\ taken' = taken + 1 /\ at' \in {"running", "ended"}
    BY <2>1 DEF Finish, End
  <2>3. taken' \in Nat /\ taken' # 0  BY <1>3, <2>2
  <2>4. Wanted' = Wanted /\ \A i : Extent(Wanted[i])' = Extent(Wanted[i])
    BY <1>2 DEF Extent
  <2> QED  BY <1>1, <1>3, <2>2, <2>3, <2>4 DEF ImageInv
<1>8. ASSUME UNCHANGED <<dram, taken>>, at' \in {"between", "running"}, at \in {"between", "running"}
      PROVE  ImageInv'
  <2>1. dram' = dram /\ taken' = taken  BY <1>8
  <2>2. [a \in Dram |-> Linked(a)'] = [a \in Dram |-> Linked(a)]  BY <1>2
  <2>3. \A i \in DOMAIN Wanted' : Extent(Wanted[i])' \subseteq Dram
    BY <1>2, <1>8 DEF ImageInv, Extent
  <2> QED  BY <1>1, <1>3, <1>8, <2>1, <2>2, <2>3 DEF ImageInv
<1>9. CASE Call \/ Return
  BY <1>3, <1>5, <1>8, <1>9 DEF Call, Return, End, loadVars
<1>10. CASE BudgetSpent  BY <1>3, <1>5, <1>10 DEF BudgetSpent, End
<1>11. CASE UNCHANGED vars
  <2>1. UNCHANGED <<at, dram, taken>>  BY <1>11 DEF vars, loadVars
  <2>2. CASE at \in {"between", "running"}  BY <1>8, <2>1, <2>2
  <2>3. CASE at \notin {"between", "running"}  BY <1>1, <1>3, <2>1, <2>3 DEF ImageInv
  <2> QED  BY <2>2, <2>3
<1> QED  BY <1>6, <1>7, <1>9, <1>10, <1>11 DEF Next

\* For every memory and every file: a program starts only with each byte of
\* each segment in place, tails zeroed, later segments over earlier ones and
\* nothing else, and one that does not fit is never started (main.rs, cpu.rs
\* load_elf, memory.rs load_at and zero).
THEOREM ImageIsLinked == Spec => []LoadedAsLinked
<1>1. Init => ImageInv  BY DEF Init, ImageInv
<1>2. ImageInv => LoadedAsLinked  BY DEF ImageInv, LoadedAsLinked
<1> QED  BY <1>1, <1>2, NextImage, PTL DEF Spec

-----------------------------------------------------------------------------
(* The verdict *)

\* A payload that stores its status as whole words.
Reports == tohost # None /\ WholeWords

\* Until the run ends no status is pending and the word's low byte is even;
\* the verdicts of tohost are given in the very step that stores the word.
StatusInv ==
    /\ called \in DOMAIN Invocations
    /\ at \in {"load", "between", "running", "ended"}
    /\ at # "ended" => tohost_value = None /\ n = 0 /\ verdict = "none"
    /\ at = "load" => tohost = None /\ taken = 0
    /\ tohost # None => DOMAIN dram = Dram /\ tohost \in Dram /\ tohost + 1 \in Dram
    /\ Reports => dram[tohost] \in 0 .. Byte - 1 /\ dram[tohost + 1] \in 0 .. Byte - 1
    /\ Reports /\ at # "ended" => dram[tohost] % 2 = 0
    /\ Reports /\ verdict \in {"Pass", "Fail"} =>
         StatusWord = 2 * n + 1 /\ (verdict = "Pass" <=> n = 0)

\* The parity of a word is that of its low byte.
LEMMA LowByteParity ==
    ASSUME NEW lo \in Nat, NEW hi \in Nat PROVE (lo + Byte * hi) % 2 = lo % 2
<1> DEFINE h == Byte \div 2
<1>1. Byte \in Nat /\ Byte % 2 = 0  BY SessionAssumption, PayloadAssumption
<1>2. h \in Int /\ Byte = 2 * h  BY <1>1
<1> HIDE DEF h
<1> DEFINE p == h * hi
<1>3. p \in Int /\ Byte * hi = 2 * p
  <2>1. p \in Int  BY <1>2
  <2>2. (2 * h) * hi = 2 * (h * hi)  BY <1>2
  <2> QED  BY <1>2, <2>1, <2>2
<1> HIDE DEF p
<1>4. (lo + 2 * p) % 2 = lo % 2  BY <1>3
<1> QED  BY <1>3, <1>4

\* The bytes of a stored register make up the register.
LEMMA BytesOfWord ==
    ASSUME NEW v \in 0 .. Byte * Byte - 1
    PROVE  LET b == LeBytes(v, WordSize) IN
           /\ Len(b) = 2 /\ b[1] \in 0 .. Byte - 1 /\ b[2] \in 0 .. Byte - 1
           /\ v = b[1] + Byte * b[2]
<1> DEFINE b == LeBytes(v, WordSize)
           lo == v % Byte
           hi == v \div Byte
<1>1. Byte \in Nat /\ Byte >= 2 /\ Byte^0 = 1 /\ Byte^1 = Byte
  BY SessionAssumption, PayloadAssumption
<1>2. v \in Nat /\ v < Byte * Byte
  <2>1. Byte * Byte \in Int  BY <1>1
  <2> QED  BY <2>1
<1>3. lo \in 0 .. Byte - 1 /\ hi \in Int /\ v = Byte * hi + lo  BY <1>1, <1>2
<1> HIDE DEF lo, hi
<1>4. hi \in 0 .. Byte - 1
  <2>1. CASE hi < 0
    <3>1. Byte * hi <= - Byte  BY <1>1, <1>3, <2>1
    <3> QED  BY <1>1, <1>2, <1>3, <3>1
  <2>2. CASE hi >= Byte
    <3>1. Byte * hi >= Byte * Byte  BY <1>1, <1>3, <2>2
    <3>2. Byte * hi \in Int /\ Byte * Byte \in Int  BY <1>1, <1>3
    <3> QED  BY <1>1, <1>2, <1>3, <3>1, <3>2
  <2> QED  BY <1>1, <1>3, <2>1, <2>2
<1>5. v \div 1 = v  BY <1>2
<1>6. hi % Byte = hi  BY <1>1, <1>4
<1>7. b = [i \in 1 .. 2 |-> (v \div Byte^(i - 1)) % Byte]  BY DEF LeBytes, WordSize
<1>8. b[1] = lo
  <2>1. b[1] = (v \div Byte^(1 - 1)) % Byte  BY <1>7
  <2> QED  BY <1>1, <1>5, <2>1 DEF lo
<1>9. b[2] = hi
  <2>1. b[2] = (v \div Byte^(2 - 1)) % Byte  BY <1>7
  <2> QED  BY <1>1, <1>6, <2>1 DEF hi
<1>10. Len(b) = 2  BY <1>7
<1> HIDE DEF b
<1>11. v = b[1] + Byte * b[2]
  <2>1. Byte * hi \in Int  BY <1>1, <1>3
  <2> QED  BY <1>1, <1>3, <1>8, <1>9, <2>1
<1> QED  BY <1>3, <1>4, <1>8, <1>9, <1>10, <1>11 DEF b

\* Without a store nothing is reported.
LEMMA NoReport ==
    ASSUME StatusInv, NEW r, Finish(r, tohost_value), UNCHANGED dram PROVE StatusInv'
<1>1. /\ at = "running" /\ UNCHANGED <<called, tohost>>
  BY DEF Finish
<1>2. tohost_value = None /\ n = 0 /\ verdict = "none"  BY <1>1 DEF StatusInv
<1>3. ~ Terminates(None)  BY DEF Terminates
<1>4. tohost_value' = None  BY <1>2 DEF Finish
<1>5. Outcome(r, tohost_value) \notin {"Pass", "Fail"}
  BY <1>2, <1>3 DEF Outcome
<1>6. n' = 0  BY <1>2, <1>5 DEF Finish
<1>7. at' \in {"running", "ended"} /\ verdict' \notin {"Pass", "Fail"}
      /\ (at' = "running" => verdict' = "none")
  BY <1>1, <1>2, <1>5 DEF Finish, End
<1>8. O' = O  BY <1>1 DEF O
<1>9. Reports' = Reports  BY <1>1, <1>8 DEF Reports, WholeWords
<1> QED  BY <1>1, <1>4, <1>6, <1>7, <1>8, <1>9 DEF StatusInv

LEMMA StoreReports ==
    ASSUME StatusInv, Stores PROVE StatusInv'
<1>1. PICK s \in O.stores :
        /\ index(s.addr, s.size)
        /\ dram' = Over(dram, s.addr, LeBytes(s.value, s.size))
        /\ Finish("ok", IF tohost = s.addr /\ s.value # 0 THEN s.value ELSE tohost_value)
  BY DEF Stores
<1> DEFINE v == IF tohost = s.addr /\ s.value # 0 THEN s.value ELSE tohost_value
<1>2. at = "running" /\ UNCHANGED <<called, tohost>>  BY <1>1 DEF Finish
<1>3. tohost_value = None /\ n = 0 /\ verdict = "none" /\ called \in DOMAIN Invocations
  BY <1>2 DEF StatusInv
<1>4. s.addr \in Nat /\ s.size \in 1 .. 2 /\ s.value \in 0 .. Byte * Byte - 1
  BY <1>3, PayloadAssumption DEF O, WordSize
<1>5. Byte * Byte \in Int /\ s.value \in Nat /\ s.size \in Nat /\ s.size >= 1
  <2>1. Byte * Byte \in Int  BY SessionAssumption
  <2> QED  BY <1>4, <2>1
<1>6. O' = O  BY <1>2 DEF O
<1>7. Reports' = Reports  BY <1>2, <1>6 DEF Reports, WholeWords
<1>8. DOMAIN dram' = DOMAIN dram  BY <1>1 DEF Over
<1>9. Finish("ok", v)  BY <1>1
<1>10. v = None \/ v = s.value  BY <1>3
<1> HIDE DEF v
<1>11. /\ at' \in {"running", "ended"}
       /\ verdict' = (IF at' = "ended" THEN Outcome("ok", v) ELSE "none")
       /\ at' = "running" => Outcome("ok", v) = "none"
  BY <1>2, <1>3, <1>9 DEF Finish, End
<1>12. /\ Terminates(v) => Outcome("ok", v) = (IF Status(v) = 0 THEN "Pass" ELSE "Fail")
       /\ ~ Terminates(v) => Outcome("ok", v) = "none"
  BY DEF Outcome
<1>13. at' = "running" => ~ Terminates(v)  BY <1>11, <1>12
<1>14. /\ ~ Terminates(v) => tohost_value' = None
       /\ n' = IF Outcome("ok", v) = "Fail" THEN Status(v) ELSE 0
  BY <1>3, <1>9 DEF Finish
<1>15. /\ at' # "ended" => tohost_value' = None /\ n' = 0 /\ verdict' = "none"
       /\ at' \in {"load", "between", "running", "ended"} /\ at' # "load"
       /\ called' \in DOMAIN Invocations
  BY <1>2, <1>3, <1>11, <1>12, <1>13, <1>14
<1>16. tohost' # None => DOMAIN dram' = Dram /\ tohost' \in Dram /\ tohost' + 1 \in Dram
  BY <1>2, <1>8 DEF StatusInv
<1>17. ASSUME Reports
       PROVE  /\ dram'[tohost] \in 0 .. Byte - 1 /\ dram'[tohost + 1] \in 0 .. Byte - 1
              /\ at' # "ended" => dram'[tohost] % 2 = 0
              /\ verdict' \in {"Pass", "Fail"} =>
                   /\ dram'[tohost] + Byte * dram'[tohost + 1] = 2 * n' + 1
                   /\ verdict' = "Pass" <=> n' = 0
  <2> DEFINE b == LeBytes(s.value, s.size)
  <2>1. /\ tohost # None /\ tohost \in DOMAIN dram /\ tohost + 1 \in DOMAIN dram
        /\ dram[tohost] \in 0 .. Byte - 1 /\ dram[tohost + 1] \in 0 .. Byte - 1
        /\ dram[tohost] % 2 = 0
    BY <1>2, <1>17 DEF StatusInv, Reports
  <2>2. tohost \in Nat /\ Byte \in Nat
    BY <1>17, SessionAssumption DEF StatusInv, Reports, Dram
  <2>3. Len(b) = s.size /\ \A k \in 1 .. s.size : b[k] = (s.value \div Byte^(k - 1)) % Byte
    BY <1>5 DEF LeBytes
  <2>4. \A a \in DOMAIN dram :
          dram'[a] = IF a \in s.addr .. s.addr + s.size - 1 THEN b[a - s.addr + 1] ELSE dram[a]
    BY <1>1, <2>3 DEF Over
  <2> HIDE DEF b
  <2>5. CASE tohost \in s.addr .. s.addr + s.size - 1
    <3>1. s.addr = tohost /\ s.size = WordSize
      BY <1>1, <1>17, <2>5 DEF Reports, WholeWords
    <3>2. /\ b[1] \in 0 .. Byte - 1 /\ b[2] \in 0 .. Byte - 1
          /\ s.value = b[1] + Byte * b[2]
      BY <1>4, <3>1, BytesOfWord DEF b
    <3>3. s.size = 2  BY <3>1 DEF WordSize
    <3>4. dram'[tohost] = b[1] /\ dram'[tohost + 1] = b[2]
      BY <1>4, <2>1, <2>2, <2>4, <3>1, <3>3
    <3>5. b[1] \in Nat /\ b[2] \in Nat  BY <2>2, <3>2
    <3>6. s.value % 2 = b[1] % 2  BY <3>2, <3>5, LowByteParity
    <3>7. v = IF s.value # 0 THEN s.value ELSE None  BY <1>3, <3>1 DEF v
    <3>8. Terminates(v) <=> s.value % 2 = 1
      BY <1>5, <3>7 DEF Terminates, None
    <3>9. at' # "ended" => b[1] % 2 = 0
      BY <1>5, <1>13, <1>15, <1>11, <3>6, <3>8
    <3>10. ASSUME verdict' \in {"Pass", "Fail"}
           PROVE  s.value = 2 * n' + 1 /\ (verdict' = "Pass" <=> n' = 0)
      <4>1. at' = "ended" /\ verdict' = Outcome("ok", v)  BY <1>11, <3>10
      <4>2. Terminates(v)  BY <1>12, <3>10, <4>1
      <4>3. v = s.value /\ s.value % 2 = 1  BY <1>5, <3>7, <3>8, <4>2
      <4>4. s.value = 2 * (s.value \div 2) + 1 /\ s.value \div 2 \in Int  BY <1>5, <4>3
      <4>5. Status(v) = s.value \div 2  BY <4>3 DEF Status
      <4>6. verdict' = IF Status(v) = 0 THEN "Pass" ELSE "Fail"  BY <1>12, <4>1, <4>2
      <4>7. n' = Status(v)  BY <1>14, <4>1, <4>6
      <4> QED  BY <4>4, <4>5, <4>6, <4>7
    <3> QED  BY <3>2, <3>4, <3>9, <3>10
  <2>6. CASE tohost \notin s.addr .. s.addr + s.size - 1
    <3>1. tohost # s.addr  BY <1>4, <1>5, <2>2, <2>6
    <3>2. v = None  BY <1>3, <3>1 DEF v
    <3>3. ~ Terminates(v)  BY <3>2 DEF Terminates
    <3>4. dram'[tohost] = dram[tohost]  BY <2>1, <2>4, <2>6
    <3>5. verdict' \notin {"Pass", "Fail"}  BY <1>11, <1>12, <3>3
    <3>6. dram'[tohost + 1] \in 0 .. Byte - 1
      <4>1. CASE tohost + 1 \in s.addr .. s.addr + s.size - 1
        <5> DEFINE h == tohost + 1
        <5>2. h - s.addr + 1 = 1  BY <1>4, <1>5, <2>2, <2>6, <4>1
        <5>3. b[1] = (s.value \div Byte^(1 - 1)) % Byte  BY <1>5, <2>3
        <5>4. Byte^(1 - 1) = 1 /\ Byte >= 2  BY PayloadAssumption, SessionAssumption
        <5>5. b[1] \in 0 .. Byte - 1  BY <1>5, <2>2, <5>3, <5>4
        <5>6. h \in DOMAIN dram /\ h \in s.addr .. s.addr + s.size - 1  BY <2>1, <4>1
        <5> HIDE DEF h
        <5>7. dram'[h] = b[h - s.addr + 1]  BY <2>4, <5>6
        <5>8. dram'[h] \in 0 .. Byte - 1  BY <5>2, <5>5, <5>7
        <5> QED  BY <5>8 DEF h
      <4>2. CASE tohost + 1 \notin s.addr .. s.addr + s.size - 1
        BY <2>1, <2>4, <4>2
      <4> QED  BY <4>1, <4>2
    <3>7. dram'[tohost] \in 0 .. Byte - 1 /\ dram'[tohost] % 2 = 0  BY <2>1, <3>4
    <3> QED  BY <3>5, <3>6, <3>7
  <2> QED  BY <2>5, <2>6
<1> QED  BY <1>2, <1>7, <1>15, <1>16, <1>17 DEF StatusInv, StatusWord

LEMMA LoadStatus ==
    ASSUME StatusInv, Load PROVE StatusInv'
<1>1. at = "load" /\ called' = called /\ taken' = taken  BY DEF Load
<1>2. O' = O  BY <1>1 DEF O
<1>3. /\ tohost = None /\ tohost_value = None /\ n = 0 /\ verdict = "none"
      /\ called \in DOMAIN Invocations
  BY <1>1 DEF StatusInv
<1>4. ASSUME NEW why, Refuse(why) PROVE StatusInv'
  BY <1>1, <1>3, <1>4 DEF StatusInv, Refuse, Reports, loadVars, runVars
<1>5. ASSUME NEW load, Enter(load, None) PROVE StatusInv'
  BY <1>1, <1>3, <1>5 DEF StatusInv, Enter, Reports, runVars, endVars
<1>6. ASSUME ~ O.kernel, O.file.elf, Parses(O.file), load_elf(O.file).fits,
             Enter(load_elf(O.file), Symbol(O.file, "tohost"))
      PROVE  StatusInv'
  <2>1. /\ dram' = load_elf(O.file).mem /\ tohost' = Symbol(O.file, "tohost")
        /\ at' = "between" /\ UNCHANGED <<tohost_value, n, verdict>>
    BY <1>6 DEF Enter, runVars, endVars
  <2>2. tohost' # None =>
          /\ tohost' \in Dram /\ tohost' + 1 \in Dram
          /\ dram' \in [Dram -> 0 .. Byte - 1] /\ dram'[tohost'] % 2 = 0
    <3>1. O.file.headers \in Seq(Header)  BY <1>3, <1>6, FileTypes
    <3>2. dram' \in [Dram -> 0 .. Byte - 1]  BY <1>6, <2>1, <3>1, ElfBytes DEF Bytes
    <3> QED  BY <1>3, <1>6, <2>1, <3>2, PayloadAssumption DEF O
  <2> QED  BY <1>1, <1>3, <2>1, <2>2 DEF StatusInv, Reports
<1> QED  BY <1>4, <1>5, <1>6 DEF Load

LEMMA NextStatus == StatusInv /\ [Next]_vars => StatusInv'
<1> SUFFICES ASSUME StatusInv, [Next]_vars PROVE StatusInv'  OBVIOUS
<1>1. CASE Load  BY <1>1, LoadStatus
<1>2. CASE Stores  BY <1>2, StoreReports
<1>3. CASE Computes \/ InstallsHandler \/ Traps \/ Ecalls
  BY <1>3, NoReport DEF Computes, InstallsHandler, Traps, Ecalls
<1>4. ASSUME UNCHANGED <<called, dram, tohost, tohost_value, n>>,
             at \in {"between", "running"},
             \/ at' \in {"between", "running"} /\ verdict' = verdict
             \/ at' = "ended" /\ verdict' = "StepLimit"
      PROVE  StatusInv'
  <2>1. O' = O  BY <1>4 DEF O
  <2>2. Reports' = Reports /\ StatusWord' = StatusWord
    BY <1>4, <2>1 DEF Reports, WholeWords, StatusWord
  <2>3. verdict = "none"  BY <1>4 DEF StatusInv
  <2>4. verdict' \notin {"Pass", "Fail"}  BY <1>4, <2>3
  <2> QED  BY <1>4, <2>2, <2>3, <2>4 DEF StatusInv
<1>5. CASE Call \/ BudgetSpent \/ Return
  <2>1. UNCHANGED <<called, dram, tohost, tohost_value>>
    BY <1>5 DEF Call, BudgetSpent, Return, loadVars, runVars
  <2>2. CASE Call
    <3>1. at = "between" /\ at' = "running" /\ verdict' = verdict /\ n' = n
      BY <2>2 DEF Call, endVars
    <3> QED  BY <1>4, <2>1, <3>1
  <2>3. CASE BudgetSpent  BY <1>4, <2>1, <2>3 DEF BudgetSpent, End
  <2>4. CASE Return
    <3>1. /\ at = "running" /\ n' = n
          /\ \/ at' = "ended" /\ verdict' = "StepLimit"
             \/ at' = "between" /\ verdict' = verdict
      BY <2>4 DEF Return, End, endVars
    <3> QED  BY <1>4, <2>1, <3>1
  <2> QED  BY <1>5, <2>2, <2>3, <2>4
<1>6. CASE UNCHANGED vars
  <2>1. UNCHANGED <<called, at, dram, tohost, tohost_value, n, verdict, taken>>
    BY <1>6 DEF vars, loadVars, runVars, endVars
  <2>2. O' = O  BY <2>1 DEF O
  <2>3. Reports' = Reports /\ StatusWord' = StatusWord
    BY <2>1, <2>2 DEF Reports, WholeWords, StatusWord
  <2> QED  BY <2>1, <2>3 DEF StatusInv
<1> QED  BY <1>1, <1>2, <1>3, <1>5, <1>6 DEF Next, Step

\* Whatever a payload that reports with whole words stored before, and however
\* its run is cut into bursts, the verdict is the status word it left in memory,
\* and it never runs on past an odd one (cpu.rs run, memory.rs tohost).
THEOREM VerdictIsThePayloads == Spec => []StatusIsThePayloads
<1>1. Init => StatusInv  BY DEF Init, StatusInv, Reports
<1>2. StatusInv => StatusIsThePayloads
  <2> SUFFICES ASSUME StatusInv, Reports PROVE
        /\ verdict \in {"Pass", "Fail"} => StatusWord = 2 * n + 1 /\ (verdict = "Pass" <=> n = 0)
        /\ at \in {"between", "running"} => StatusWord % 2 = 0
    BY DEF StatusIsThePayloads, Reports
  <2>1. dram[tohost] \in Nat /\ dram[tohost + 1] \in Nat
    BY SessionAssumption DEF StatusInv
  <2>2. StatusWord % 2 = dram[tohost] % 2  BY <2>1, LowByteParity DEF StatusWord
  <2> QED  BY <2>2 DEF StatusInv
<1> QED  BY <1>1, <1>2, NextStatus, PTL DEF Spec

=============================================================================
