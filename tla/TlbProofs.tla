----------------------------- MODULE TlbProofs -----------------------------
(***************************************************************************)
(* The translation cache is invisible to a guest that fences its edits,    *)
(* for every number of entries, every memory and every page table.         *)
(***************************************************************************)
EXTENDS Tlb, TLAPS

USE DEF User, Supervisor, Machine

Mem == [Ram -> [Offsets -> Pte]]

LEMMA SpanType == \A level \in 0 .. 2 : Span(level) \in Nat \ {0}
<1>1. Span(0) = 1 /\ Span(1) = Entries /\ Span(2) = Entries * Entries  BY DEF Span
<1>2. Entries * Entries \in Nat \ {0}  BY MmuAssumption
<1> QED  BY <1>1, <1>2, MmuAssumption

LEMMA IndexType ==
    ASSUME NEW vpn \in Nat, NEW level \in 0 .. 2
    PROVE  vpn_at(vpn, level) \in Offsets
<1>1. Span(level) \in Nat \ {0}  BY SpanType
<1>2. vpn \div Span(level) \in Nat  BY <1>1
<1> QED  BY <1>2, MmuAssumption DEF vpn_at, Offsets

Satp == [mode : {"Bare", "Sv32", "Sv39"}, root : Nat]

\* The tables of a walk, level by level.
Chain(m, satp, vpn, t) ==
    LET top == Levels(satp.mode) - 1 IN
    /\ t = [level \in 0 .. top |-> t[level]]
    /\ t[top] = satp.root
    /\ \A level \in 0 .. top - 1 :
           t[level] = IF t[level + 1] \notin Ram THEN Stopped
                      ELSE Below(m[t[level + 1]][vpn_at(vpn, level + 1)])

\* The recursive definition of Tables has the chain as its solution.  Levels
\* is 2 or 3, so the solution can be written out.
LEMMA TablesChain ==
    ASSUME NEW m, NEW satp, NEW vpn
    PROVE  Chain(m, satp, vpn, Tables(m, satp, vpn))
<1> DEFINE top == Levels(satp.mode) - 1
           Step(f, level) == IF f \notin Ram THEN Stopped
                             ELSE Below(m[f][vpn_at(vpn, level + 1)])
           P(f) == f = [level \in 0 .. top |->
                          IF level = top THEN satp.root
                          ELSE IF f[level + 1] \notin Ram THEN Stopped
                          ELSE Below(m[f[level + 1]][vpn_at(vpn, level + 1)])]
           one == [level \in 0 .. 1 |-> IF level = 1 THEN satp.root ELSE Step(satp.root, 0)]
           middle == Step(satp.root, 1)
           two == [level \in 0 .. 2 |-> IF level = 2 THEN satp.root
                                        ELSE IF level = 1 THEN middle ELSE Step(middle, 0)]
           t == Tables(m, satp, vpn)
<1>1. t = CHOOSE f : P(f)  BY DEF Tables
<1>2. top \in {1, 2}  BY DEF Levels
<1> HIDE DEF top
<1>3. top = 1 => P(one)  OBVIOUS
<1>9. top = 2 => P(two)  OBVIOUS
<1>4. P(t)
  <2> HIDE DEF P, t
  <2> QED  BY <1>1, <1>2, <1>3, <1>9
<1> HIDE DEF t
<1>5. DOMAIN t = 0 .. top /\ t = [level \in 0 .. top |-> t[level]]  BY <1>4
<1>6. t[top] = satp.root  BY <1>2, <1>4
<1>7. ASSUME NEW level \in 0 .. top - 1
      PROVE  t[level] = IF t[level + 1] \notin Ram THEN Stopped
                        ELSE Below(m[t[level + 1]][vpn_at(vpn, level + 1)])
  BY <1>2, <1>4
<1> QED  BY <1>5, <1>6, <1>7 DEF Chain, top, t

\* A walk ends at one of its tables.
LEMMA WalkEnds ==
    ASSUME NEW m, NEW satp \in Satp, NEW vpn, NEW t, Chain(m, satp, vpn, t)
    PROVE  EndLevel(t) \in 0 .. Levels(satp.mode) - 1
<1> DEFINE Q(l) == t[l] # Stopped /\ \A k \in 0 .. l - 1 : t[k] = Stopped
<1>1. Levels(satp.mode) \in {2, 3}  BY DEF Levels
<1>2. DOMAIN t = 0 .. Levels(satp.mode) - 1  BY DEF Chain
<1>3. t[Levels(satp.mode) - 1] # Stopped  BY DEF Chain, Satp, Stopped
<1>4. \E l \in DOMAIN t : Q(l)
  <2>1. CASE t[0] # Stopped  BY <1>1, <1>2, <2>1
  <2>2. CASE t[0] = Stopped /\ t[1] # Stopped  BY <1>1, <1>2, <2>2
  <2>3. CASE t[0] = Stopped /\ t[1] = Stopped  BY <1>1, <1>2, <1>3, <2>3
  <2> QED  BY <2>1, <2>2, <2>3
<1>5. EndLevel(t) = CHOOSE l \in DOMAIN t : Q(l)  BY DEF EndLevel
<1> HIDE DEF Q
<1>6. EndLevel(t) \in DOMAIN t  BY <1>4, <1>5
<1> QED  BY <1>2, <1>6

\* What a walk reads of an entry does not include the accessed and dirty bits.
LEMMA MarkedAlike ==
    ASSUME NEW p \in Pte, NEW q \in Pte, OnlyMarked(p, q),
           NEW level, NEW r, NEW access \in Accesses, NEW vpn
    PROVE  /\ Below(q) = Below(p)
           /\ Grants(q, level, r, access) <=> Grants(p, level, r, access)
           /\ Splice(q, level, vpn) = Splice(p, level, vpn)
<1>1. \A f \in {"V", "R", "W", "X", "U"} : f \in q.flags <=> f \in p.flags
  BY DEF OnlyMarked
<1>2. q.ppn = p.ppn  BY DEF OnlyMarked
<1>3. Reserved(q) <=> Reserved(p)  BY <1>1 DEF Reserved
<1>4. IsLeaf(q) <=> IsLeaf(p)  BY <1>1 DEF IsLeaf
<1>5. MayReach(q, effective(r, access), r, access) <=> MayReach(p, effective(r, access), r, access)
  BY <1>1 DEF MayReach
<1>6. permitted(q, r, access) <=> permitted(p, r, access)
  <2>1. CASE access = "Fetch"  BY <1>1, <2>1 DEF permitted
  <2>2. CASE access = "Load"  BY <1>1, <2>2 DEF permitted
  <2>3. CASE access = "Store"  BY <1>1, <2>3 DEF permitted
  <2> QED  BY <2>1, <2>2, <2>3 DEF Accesses
<1>7. Aligned(q, level) <=> Aligned(p, level)  BY <1>2 DEF Aligned
<1>8. Below(q) = Below(p)  BY <1>2, <1>3, <1>4 DEF Below
<1>9. Grants(q, level, r, access) <=> Grants(p, level, r, access)
  BY <1>3, <1>4, <1>5, <1>6, <1>7 DEF Grants
<1> QED  BY <1>2, <1>8, <1>9 DEF Splice

\* Memory m2 reads as m on the pages T, which a walk of m does not leave.
Alike(m, m2, T) ==
    /\ T \subseteq Ram
    /\ \A p \in T, o \in Offsets : Linked(m[p][o], T) /\ OnlyMarked(m[p][o], m2[p][o])

\* Walks through alike memories read the same tables, all of them in T.
LEMMA ChainAlike ==
    ASSUME NEW m \in Mem, NEW m2 \in Mem, NEW T, Alike(m, m2, T),
           NEW satp \in Satp, satp.root \in Ram => satp.root \in T, NEW vpn \in Nat
    PROVE  LET t == Tables(m, satp, vpn) IN
           /\ Tables(m2, satp, vpn) = t
           /\ \A level \in 0 .. Levels(satp.mode) - 1 : t[level] \in Ram => t[level] \in T
<1> DEFINE t == Tables(m, satp, vpn)
           u == Tables(m2, satp, vpn)
           top == Levels(satp.mode) - 1
           Agree(l) == u[l] = t[l] /\ (t[l] \in Ram => t[l] \in T)
<1>1. Chain(m, satp, vpn, t) /\ Chain(m2, satp, vpn, u)  BY TablesChain
<1>2. top \in {1, 2}  BY DEF Levels
<1> HIDE DEF t, u
<1>3. Agree(top)  BY <1>1 DEF Chain
<1>4. ASSUME NEW l \in 0 .. top - 1, Agree(l + 1) PROVE Agree(l)
  <2>1. /\ t[l] = IF t[l + 1] \notin Ram THEN Stopped
                  ELSE Below(m[t[l + 1]][vpn_at(vpn, l + 1)])
        /\ u[l] = IF u[l + 1] \notin Ram THEN Stopped
                  ELSE Below(m2[u[l + 1]][vpn_at(vpn, l + 1)])
    BY <1>1, <1>4 DEF Chain
  <2>2. CASE t[l + 1] \notin Ram
    BY <1>4, <2>1, <2>2, MmuAssumption DEF Stopped
  <2>3. CASE t[l + 1] \in Ram
    <3> DEFINE o == vpn_at(vpn, l + 1)
    <3>1. t[l + 1] \in T /\ u[l + 1] = t[l + 1]  BY <1>4, <2>3
    <3>2. l + 1 \in 0 .. 2  BY <1>2
    <3>3. o \in Offsets  BY <3>2, IndexType
    <3> HIDE DEF o
    <3>4. m[t[l + 1]][o] \in Pte /\ m2[t[l + 1]][o] \in Pte  BY <2>3, <3>3 DEF Mem
    <3>5. Linked(m[t[l + 1]][o], T) /\ OnlyMarked(m[t[l + 1]][o], m2[t[l + 1]][o])
      BY <3>1, <3>3 DEF Alike
    <3>6. Below(m2[t[l + 1]][o]) = Below(m[t[l + 1]][o])  BY <3>4, <3>5, MarkedAlike DEF Accesses
    <3>7. t[l] = Below(m[t[l + 1]][o]) /\ u[l] = t[l]
      BY <2>1, <2>3, <3>1, <3>6 DEF o
    <3> QED  BY <3>5, <3>7 DEF Linked
  <2> QED  BY <2>2, <2>3
<1> HIDE DEF Agree
<1>5. \A l \in 0 .. top : Agree(l)
  <2>1. CASE top = 1
    <3>1. Agree(0)  BY <1>3, <1>4, <2>1
    <3> QED  BY <1>3, <2>1, <3>1
  <2>2. CASE top = 2
    <3>1. Agree(1)  BY <1>3, <1>4, <2>2
    <3>2. Agree(0)  BY <1>4, <2>2, <3>1
    <3> QED  BY <1>3, <2>2, <3>1, <3>2
  <2> QED  BY <1>2, <2>1, <2>2
<1>6. t = [level \in 0 .. top |-> t[level]] /\ u = [level \in 0 .. top |-> u[level]]
  BY <1>1 DEF Chain
<1> HIDE DEF top
<1>7. u = t  BY <1>5, <1>6 DEF Agree
<1> QED  BY <1>5, <1>7 DEF Agree, t, u, top

LEMMA MarkEffect ==
    ASSUME NEW m \in Mem, NEW at, at.table \in Ram, at.index \in Offsets,
           NEW access
    PROVE  LET m2 == Mark(m, at, access) IN
           /\ m2 \in Mem
           /\ \A p \in Ram, o \in Offsets : OnlyMarked(m[p][o], m2[p][o])
           /\ Need(access) \subseteq m2[at.table][at.index].flags
           /\ Need(access) \subseteq m[at.table][at.index].flags <=> m2 = m
<1> DEFINE p0 == at.table
           o0 == at.index
           old == m[p0][o0]
           new == [old EXCEPT !.flags = old.flags \cup Need(access)]
           m2 == Mark(m, at, access)
<1>1. p0 \in Ram /\ o0 \in Offsets  OBVIOUS
<1>2. m2 = [m EXCEPT ![p0] = [m[p0] EXCEPT ![o0] = new]]  BY DEF Mark
<1>3. Need(access) \subseteq {"A", "D"}  BY DEF Need
<1> HIDE DEF p0, o0, m2
<1>4. m[p0] \in [Offsets -> Pte] /\ old \in Pte  BY <1>1 DEF Mem
<1>5. new \in Pte /\ new.flags = old.flags \cup Need(access) /\ new.ppn = old.ppn
  BY <1>3, <1>4 DEF Pte, Flags
<1>6. Need(access) \subseteq old.flags <=> new = old  BY <1>4, <1>5 DEF Pte
<1> HIDE DEF new
<1>7. m2 \in Mem  BY <1>1, <1>2, <1>4, <1>5 DEF Mem
<1>8. m2[p0][o0] = new  BY <1>1, <1>2, <1>4 DEF Mem
<1>9. ASSUME NEW p \in Ram, NEW o \in Offsets, p # p0 \/ o # o0
      PROVE  m2[p][o] = m[p][o]
  BY <1>1, <1>2, <1>4, <1>9 DEF Mem
<1>10. ASSUME NEW p \in Ram, NEW o \in Offsets PROVE OnlyMarked(m[p][o], m2[p][o])
  BY <1>3, <1>5, <1>8, <1>9 DEF OnlyMarked
<1>11. new = old <=> m2 = m
  <2>1. ASSUME new = old PROVE m2 = m  BY <1>1, <1>2, <1>4, <2>1 DEF Mem
  <2>2. ASSUME m2 = m PROVE new = old  BY <1>8, <2>2
  <2> QED  BY <2>1, <2>2
<1> QED  BY <1>5, <1>6, <1>7, <1>8, <1>10, <1>11 DEF p0, o0, m2

\* Where a walk ends.
LEMMA FinalType ==
    ASSUME NEW m, NEW satp \in Satp, NEW vpn \in Nat
    PROVE  LET t == Tables(m, satp, vpn)
               at == Final(t, vpn)
           IN  /\ at.level \in 0 .. Levels(satp.mode) - 1
               /\ at.table = t[at.level] /\ at.index \in Offsets
<1> DEFINE t == Tables(m, satp, vpn)
<1>1. EndLevel(t) \in 0 .. Levels(satp.mode) - 1  BY TablesChain, WalkEnds
<1> HIDE DEF t
<1>2. EndLevel(t) \in 0 .. 2  BY <1>1 DEF Levels
<1>3. vpn_at(vpn, EndLevel(t)) \in Offsets  BY <1>2, IndexType
<1> QED  BY <1>1, <1>3 DEF Final, EntryAt, t

\* Alike memories translate alike, and one that needs no mark leaves the other
\* needing none.
LEMMA WalkAlike ==
    ASSUME NEW m \in Mem, NEW m2 \in Mem, NEW T, Alike(m, m2, T),
           NEW r \in Regs, r.satp.root \in Ram => r.satp.root \in T,
           NEW vpn \in Nat, NEW access \in Accesses
    PROVE  LET w == mmu_translate(m, r, vpn, access)
               w2 == mmu_translate(m2, r, vpn, access)
           IN  /\ w2.fault = w.fault /\ w2.page = w.page
               /\ \A page : w = Ok(page, m) => w2 = Ok(page, m2)
<1> DEFINE w == mmu_translate(m, r, vpn, access)
           w2 == mmu_translate(m2, r, vpn, access)
           at == Final(Tables(m, r.satp, vpn), vpn)
           Goal == /\ w2.fault = w.fault /\ w2.page = w.page
                   /\ \A page : w = Ok(page, m) => w2 = Ok(page, m2)
<1>0. r.satp \in Satp  BY DEF Regs, Satp
<1>1. CASE Bare(r, access)  BY <1>1 DEF mmu_translate, Ok
<1>2. CASE ~ Bare(r, access) /\ ~ Canonical(r.satp.mode, vpn)
  BY <1>2 DEF mmu_translate, PageFault, Ok
<1>3. CASE ~ Bare(r, access) /\ Canonical(r.satp.mode, vpn)
  <2>1. /\ Tables(m2, r.satp, vpn) = Tables(m, r.satp, vpn)
        /\ \A level \in 0 .. Levels(r.satp.mode) - 1 :
             Tables(m, r.satp, vpn)[level] \in Ram => Tables(m, r.satp, vpn)[level] \in T
    BY <1>0, ChainAlike
  <2>2. at.index \in Offsets /\ (at.table \in Ram => at.table \in T)
    BY <1>0, <2>1, FinalType
  <2>3. w = Resolve(m, r, vpn, access, at) /\ w2 = Resolve(m2, r, vpn, access, at)
    BY <1>3, <2>1 DEF mmu_translate
  <2> SUFFICES Goal  OBVIOUS
  <2> HIDE DEF at, w, w2
  <2>4. CASE at.table \notin Ram  BY <2>3, <2>4 DEF Resolve, PageFault, Ok
  <2>5. CASE at.table \in Ram
    <3> DEFINE p == m[at.table][at.index]
               q == m2[at.table][at.index]
    <3>1. p \in Pte /\ q \in Pte /\ OnlyMarked(p, q)  BY <2>2, <2>5 DEF Mem, Alike
    <3>2. /\ Grants(q, at.level, r, access) <=> Grants(p, at.level, r, access)
          /\ Splice(q, at.level, vpn) = Splice(p, at.level, vpn)
      BY <3>1, MarkedAlike
    <3>3. CASE ~ Grants(p, at.level, r, access)
      BY <2>3, <3>2, <3>3 DEF Resolve, PageFault, Ok
    <3>4. CASE Grants(p, at.level, r, access)
      <4>1. /\ w = Ok(Splice(p, at.level, vpn), Mark(m, at, access))
            /\ w2 = Ok(Splice(p, at.level, vpn), Mark(m2, at, access))
        BY <2>3, <2>5, <3>2, <3>4 DEF Resolve
      <4>2. Mark(m, at, access) = m => Need(access) \subseteq p.flags
        BY <2>2, <2>5, MarkEffect
      <4>3. Need(access) \subseteq q.flags => Mark(m2, at, access) = m2
        BY <2>2, <2>5, MarkEffect
      <4>4. p.flags \subseteq q.flags  BY <3>1 DEF OnlyMarked
      <4>5. Mark(m, at, access) = m => Mark(m2, at, access) = m2
        BY <4>2, <4>3, <4>4
      <4> HIDE DEF p
      <4> QED  BY <4>1, <4>5 DEF Ok
    <3> QED  BY <3>3, <3>4
  <2> QED  BY <2>4, <2>5
<1> QED  BY <1>1, <1>2, <1>3

Marked(m, m2) == \A p \in Ram, o \in Offsets : OnlyMarked(m[p][o], m2[p][o])

LEMMA MarkedRefl == \A m : Marked(m, m)
  BY DEF Marked, OnlyMarked

LEMMA MarkedTrans ==
    ASSUME NEW m, NEW m2, NEW m3, Marked(m, m2), Marked(m2, m3)
    PROVE  Marked(m, m3)
<1> SUFFICES ASSUME NEW p \in Ram, NEW o \in Offsets
             PROVE  OnlyMarked(m[p][o], m3[p][o])
  BY DEF Marked
<1>1. OnlyMarked(m[p][o], m2[p][o]) /\ OnlyMarked(m2[p][o], m3[p][o])  BY DEF Marked
<1> QED  BY <1>1 DEF OnlyMarked

LEMMA MarkedIsAlike ==
    ASSUME NEW m, NEW m2, Marked(m, m2) PROVE Alike(m, m2, Ram)
  BY DEF Marked, Alike, Linked

\* A walk only marks, and having marked, repeats itself with nothing to do.
LEMMA WalkMarks ==
    ASSUME NEW m \in Mem, NEW r \in Regs, NEW vpn \in Nat, NEW access \in Accesses
    PROVE  LET w == mmu_translate(m, r, vpn, access) IN
           /\ w.mem \in Mem /\ Marked(m, w.mem)
           /\ w.fault \in BOOLEAN
           /\ w.fault = FALSE => mmu_translate(w.mem, r, vpn, access) = Ok(w.page, w.mem)
<1> DEFINE w == mmu_translate(m, r, vpn, access)
           at == Final(Tables(m, r.satp, vpn), vpn)
           p == m[at.table][at.index]
           Goal == /\ w.mem \in Mem /\ Marked(m, w.mem) /\ w.fault \in BOOLEAN
                   /\ w.fault = FALSE => mmu_translate(w.mem, r, vpn, access) = Ok(w.page, w.mem)
<1> SUFFICES Goal  OBVIOUS
<1>0. r.satp \in Satp  BY DEF Regs, Satp
<1>1. CASE Bare(r, access)
  <2>1. \A n : mmu_translate(n, r, vpn, access) = Ok(vpn, n)  BY <1>1 DEF mmu_translate
  <2> HIDE DEF w
  <2>2. w = Ok(vpn, m)  BY <2>1 DEF w
  <2>3. w.mem = m /\ w.page = vpn /\ w.fault = FALSE  BY <2>2 DEF Ok
  <2> QED  BY <2>1, <2>3, MarkedRefl
<1>2. CASE w = PageFault(m)
  <2>1. w.mem = m /\ w.fault = TRUE  BY <1>2 DEF PageFault
  <2> HIDE DEF w
  <2> QED  BY <2>1, MarkedRefl
<1>3. CASE ~ Bare(r, access) /\ w # PageFault(m)
  <2>1. Canonical(r.satp.mode, vpn)  BY <1>3 DEF mmu_translate
  <2>2. w = Resolve(m, r, vpn, access, at)  BY <1>3, <2>1 DEF mmu_translate
  <2>3. at.table \in Ram /\ Grants(p, at.level, r, access)
    BY <1>3, <2>2 DEF Resolve
  <2>4. at.index \in Offsets  BY <1>0, FinalType
  <2> DEFINE n == Mark(m, at, access)
             q == n[at.table][at.index]
  <2>5. w = Ok(Splice(p, at.level, vpn), n)  BY <2>2, <2>3 DEF Resolve
  <2>6. n \in Mem /\ Marked(m, n) /\ Need(access) \subseteq q.flags
    BY <2>3, <2>4, MarkEffect DEF Marked
  <2> HIDE DEF n
  <2>7. Tables(n, r.satp, vpn) = Tables(m, r.satp, vpn)
    BY <1>0, <2>6, ChainAlike, MarkedIsAlike
  <2>8. p \in Pte /\ q \in Pte /\ OnlyMarked(p, q)
    BY <2>3, <2>4, <2>6 DEF Mem, Marked
  <2>9. Grants(q, at.level, r, access) /\ Splice(q, at.level, vpn) = Splice(p, at.level, vpn)
    BY <2>3, <2>8, MarkedAlike
  <2>10. Mark(n, at, access) = n  BY <2>3, <2>4, <2>6, MarkEffect
  <2>11. mmu_translate(n, r, vpn, access) = Resolve(n, r, vpn, access, at)
    BY <1>3, <2>1, <2>7 DEF mmu_translate
  <2> HIDE DEF at, w
  <2>12. mmu_translate(n, r, vpn, access) = Ok(Splice(p, at.level, vpn), n)
    BY <2>3, <2>9, <2>10, <2>11 DEF Resolve
  <2>13. w.mem = n /\ w.page = Splice(p, at.level, vpn) /\ w.fault = FALSE
    BY <2>5 DEF Ok
  <2> QED  BY <2>6, <2>12, <2>13
<1> QED  BY <1>1, <1>2, <1>3

\* Without MPRV, the tag is all of the registers that a walk depends on.
LEMMA TagSuffices ==
    ASSUME NEW m, NEW r \in Regs, NEW s \in Regs, ~ r.MPRV,
           s.satp = r.satp, ctx(s) = ctx(r), NEW vpn, NEW access
    PROVE  mmu_translate(m, s, vpn, access) = mmu_translate(m, r, vpn, access)
<1>1. s.SUM = r.SUM /\ s.MXR = r.MXR /\ s.MPRV = r.MPRV /\ s.priv_mode = r.priv_mode
  BY DEF ctx
<1>2. effective(s, access) = effective(r, access)  BY <1>1 DEF effective
<1>3. Bare(s, access) = Bare(r, access)  BY <1>2 DEF Bare
<1>4. ASSUME NEW p, NEW level
      PROVE  Grants(p, level, s, access) = Grants(p, level, r, access)
  <2>1. MayReach(p, effective(s, access), s, access) = MayReach(p, effective(r, access), r, access)
    BY <1>1, <1>2 DEF MayReach
  <2>2. permitted(p, s, access) = permitted(p, r, access)  BY <1>1 DEF permitted
  <2> QED  BY <2>1, <2>2 DEF Grants
<1>5. ASSUME NEW at
      PROVE  Resolve(m, s, vpn, access, at) = Resolve(m, r, vpn, access, at)
  BY <1>4 DEF Resolve
<1> QED  BY <1>3, <1>5 DEF mmu_translate

-----------------------------------------------------------------------------
(* The cache *)

Ways == Slots \X Accesses

\* Every answer the cache would give is the walk's, and needs no mark.
Cached(C, m, t) ==
    \A r \in C, vpn \in Nat, access \in Accesses :
        ~ r.MPRV /\ Hit(t, r, vpn, access) =>
            mmu_translate(m, r, vpn, access) = Ok(t[<<slot(vpn), access>>].page, m)

LEMMA WayType ==
    ASSUME NEW vpn \in Nat, NEW access \in Accesses
    PROVE  <<slot(vpn), access>> \in Ways
<1>1. slot(vpn) \in Slots  BY TlbAssumption DEF slot, Slots
<1> QED  BY <1>1 DEF Ways

LEMMA CachedAlike ==
    ASSUME NEW C, C \subseteq Regs, NEW m \in Mem, NEW m2 \in Mem, NEW T,
           Alike(m, m2, T), \A r \in C : r.satp.root \in Ram => r.satp.root \in T,
           NEW t, Cached(C, m, t)
    PROVE  Cached(C, m2, t)
<1> SUFFICES ASSUME NEW r \in C, NEW vpn \in Nat, NEW access \in Accesses,
                    ~ r.MPRV, Hit(t, r, vpn, access)
             PROVE  mmu_translate(m2, r, vpn, access) = Ok(t[<<slot(vpn), access>>].page, m2)
  BY DEF Cached
<1>1. mmu_translate(m, r, vpn, access) = Ok(t[<<slot(vpn), access>>].page, m)
  BY DEF Cached
<1>2. \A page : mmu_translate(m, r, vpn, access) = Ok(page, m)
                  => mmu_translate(m2, r, vpn, access) = Ok(page, m2)
  BY WalkAlike
<1> QED  BY <1>1, <1>2

\* A translation marks at most, touches at most its own slot, and where it
\* does not fault the slot answers it from then on.
LEMMA TranslateEffect ==
    ASSUME NEW m \in Mem, NEW t, DOMAIN t = Ways, NEW r \in Regs,
           NEW vpn \in Nat, NEW access \in Accesses
    PROVE  LET x == translate(m, t, r, vpn, access)
               y == <<slot(vpn), access>>
           IN  /\ x.mem \in Mem /\ Marked(m, x.mem)
               /\ DOMAIN x.tlb = Ways /\ x.fault \in BOOLEAN
               /\ \A z \in Ways : z # y => x.tlb[z] = t[z]
               /\ ~ x.fault => Hit(x.tlb, r, vpn, access) /\ x.tlb[y].page = x.page
<1> DEFINE x == translate(m, t, r, vpn, access)
           y == <<slot(vpn), access>>
           w == mmu_translate(m, r, vpn, access)
           Goal == /\ x.mem \in Mem /\ Marked(m, x.mem)
                   /\ DOMAIN x.tlb = Ways /\ x.fault \in BOOLEAN
                   /\ \A z \in Ways : z # y => x.tlb[z] = t[z]
                   /\ ~ x.fault => Hit(x.tlb, r, vpn, access) /\ x.tlb[y].page = x.page
<1> SUFFICES Goal  OBVIOUS
<1>0. y \in Ways  BY WayType
<1>1. CASE Hit(t, r, vpn, access)
  <2>1. x = [fault |-> FALSE, page |-> t[y].page, mem |-> m, tlb |-> t]
    BY <1>1 DEF translate
  <2> HIDE DEF x, y
  <2>2. x.fault = FALSE /\ x.page = t[y].page /\ x.mem = m /\ x.tlb = t  BY <2>1
  <2> QED  BY <1>1, <2>2, MarkedRefl
<1>2. CASE ~ Hit(t, r, vpn, access)
  <2>1. w.mem \in Mem /\ Marked(m, w.mem) /\ w.fault \in BOOLEAN  BY WalkMarks
  <2>2. x = Fill(t, r, vpn, access, w)  BY <1>2 DEF translate
  <2> HIDE DEF x, w
  <2>3. /\ x.fault = w.fault /\ x.page = w.page /\ x.mem = w.mem
        /\ x.tlb = IF w.fault THEN t ELSE [t EXCEPT ![y] = Entry(vpn, w.page, r)]
    BY <2>2 DEF Fill
  <2>4. CASE w.fault
    <3>1. x.tlb = t  BY <2>3, <2>4
    <3> QED  BY <2>1, <2>3, <2>4, <3>1
  <2>5. CASE ~ w.fault
    <3>1. x.tlb = [t EXCEPT ![y] = Entry(vpn, w.page, r)]  BY <2>3, <2>5
    <3>2. x.tlb[y] = Entry(vpn, w.page, r)  BY <1>0, <3>1
    <3>3. Hit(x.tlb, r, vpn, access) /\ x.tlb[y].page = x.page
      BY <2>3, <3>2 DEF Hit, Entry
    <3>4. DOMAIN x.tlb = Ways /\ \A z \in Ways : z # y => x.tlb[z] = t[z]
      BY <3>1
    <3> QED  BY <2>1, <2>3, <3>3, <3>4
  <2> QED  BY <2>4, <2>5
<1> QED  BY <1>1, <1>2

\* The walk of m finds the page.
WalkPage(m, r, vpn, access, page) ==
    LET w == mmu_translate(m, r, vpn, access) IN w.fault = FALSE /\ w.page = page

\* A translation keeps the cache faithful, and its page is the walk's.
LEMMA TranslateCached ==
    ASSUME NEW C, C \subseteq Regs, NEW m \in Mem, NEW t, DOMAIN t = Ways,
           Cached(C, m, t), NEW r \in C, NEW vpn \in Nat, NEW access \in Accesses
    PROVE  LET x == translate(m, t, r, vpn, access)
           IN  /\ Cached(C, x.mem, x.tlb)
               /\ ~ r.MPRV /\ ~ x.fault => WalkPage(m, r, vpn, access, x.page)
<1> DEFINE x == translate(m, t, r, vpn, access)
           y == <<slot(vpn), access>>
           w == mmu_translate(m, r, vpn, access)
           Goal == /\ Cached(C, x.mem, x.tlb)
                   /\ ~ r.MPRV /\ ~ x.fault => w.fault = FALSE /\ w.page = x.page
<1> SUFFICES Goal  BY DEF WalkPage
<1>0. y \in Ways /\ r \in Regs  BY WayType
<1>1. CASE Hit(t, r, vpn, access)
  <2>1. x = [fault |-> FALSE, page |-> t[y].page, mem |-> m, tlb |-> t]
    BY <1>1 DEF translate
  <2>2. ~ r.MPRV => w = Ok(t[y].page, m)  BY <1>1 DEF Cached
  <2> HIDE DEF x, y, w
  <2>3. x.page = t[y].page /\ x.mem = m /\ x.tlb = t  BY <2>1
  <2>4. ~ r.MPRV => w.fault = FALSE /\ w.page = t[y].page  BY <2>2 DEF Ok
  <2> QED  BY <2>3, <2>4
<1>2. CASE ~ Hit(t, r, vpn, access)
  <2>1. /\ w.mem \in Mem /\ Marked(m, w.mem) /\ w.fault \in BOOLEAN
        /\ w.fault = FALSE => mmu_translate(w.mem, r, vpn, access) = Ok(w.page, w.mem)
    BY <1>0, WalkMarks
  <2>2. x = Fill(t, r, vpn, access, w)  BY <1>2 DEF translate
  <2> HIDE DEF x, w
  <2>3. /\ x.fault = w.fault /\ x.page = w.page /\ x.mem = w.mem
        /\ x.tlb = IF w.fault THEN t ELSE [t EXCEPT ![y] = Entry(vpn, w.page, r)]
    BY <2>2 DEF Fill
  <2>4. Cached(C, w.mem, t)
    <3>1. Alike(m, w.mem, Ram)  BY <2>1, MarkedIsAlike
    <3> QED  BY <2>1, <3>1, CachedAlike
  <2>5. CASE w.fault
    <3>1. x.tlb = t  BY <2>3, <2>5
    <3> QED  BY <2>3, <2>4, <2>5, <3>1
  <2>6. CASE ~ w.fault
    <3>1. x.tlb = [t EXCEPT ![y] = Entry(vpn, w.page, r)]  BY <2>3, <2>6
    <3>2. x.tlb[y] = Entry(vpn, w.page, r)  BY <1>0, <3>1
    <3>3. ASSUME NEW s \in C, NEW v \in Nat, NEW a \in Accesses,
                 ~ s.MPRV, Hit(x.tlb, s, v, a)
          PROVE  mmu_translate(w.mem, s, v, a) = Ok(x.tlb[<<slot(v), a>>].page, w.mem)
      <4>1. CASE <<slot(v), a>> = y
        <5>1. /\ v = vpn /\ s.satp = r.satp /\ ctx(s) = ctx(r)
              /\ x.tlb[<<slot(v), a>>].page = w.page
          BY <3>2, <3>3, <4>1 DEF Hit, Entry
        <5>2. a = access  BY <4>1
        <5>3. ~ r.MPRV  BY <3>3, <5>1 DEF ctx
        <5>4. s \in Regs  OBVIOUS
        <5>5. mmu_translate(w.mem, s, vpn, access) = mmu_translate(w.mem, r, vpn, access)
          BY <1>0, <5>1, <5>3, <5>4, TagSuffices
        <5> QED  BY <2>1, <2>6, <5>1, <5>2, <5>5
      <4>2. CASE <<slot(v), a>> # y
        <5>1. <<slot(v), a>> \in Ways  BY WayType
        <5>2. x.tlb[<<slot(v), a>>] = t[<<slot(v), a>>]  BY <3>1, <4>2, <5>1
        <5>3. Hit(t, s, v, a)  BY <3>3, <5>2 DEF Hit
        <5> QED  BY <2>4, <3>3, <5>2, <5>3 DEF Cached
      <4> QED  BY <4>1, <4>2
    <3>4. Cached(C, w.mem, x.tlb)  BY <3>3 DEF Cached
    <3> QED  BY <2>3, <2>6, <3>4
  <2> QED  BY <2>5, <2>6
<1> QED  BY <1>1, <1>2

-----------------------------------------------------------------------------
(* Accesses *)

\* Walks of m that start in T stay in T.
Closed(m, T) == \A p \in T, o \in Offsets : Linked(m[p][o], T)

LEMMA ClosedMarked ==
    ASSUME NEW m \in Mem, NEW m2 \in Mem, Marked(m, m2), NEW T, T \subseteq Ram,
           Closed(m, T)
    PROVE  Closed(m2, T)
<1> SUFFICES ASSUME NEW p \in T, NEW o \in Offsets PROVE Linked(m2[p][o], T)
  BY DEF Closed
<1>1. m[p][o] \in Pte /\ m2[p][o] \in Pte /\ OnlyMarked(m[p][o], m2[p][o])
  BY DEF Mem, Marked
<1>2. Below(m2[p][o]) = Below(m[p][o])  BY <1>1, MarkedAlike DEF Accesses
<1>3. Linked(m[p][o], T)  BY DEF Closed
<1> QED  BY <1>2, <1>3 DEF Linked

\* A store outside the tables is invisible to walks.
LEMMA PutEffect ==
    ASSUME NEW m \in Mem, NEW T, T \subseteq Ram, Closed(m, T), NEW page \in Ram,
           NEW words, NEW value \in Pte, Linked(value, T)
    PROVE  LET m2 == Put(m, page, words, value) IN
           /\ m2 \in Mem /\ Closed(m2, T)
           /\ page \notin T => Alike(m, m2, T)
           /\ \A p \in Ram, o \in Offsets : p # page => m2[p][o] = m[p][o]
<1> DEFINE new == [o \in Offsets |-> IF o \in words THEN value ELSE m[page][o]]
           m2 == Put(m, page, words, value)
<1>1. m2 = [m EXCEPT ![page] = new]  BY DEF Put
<1>2. new \in [Offsets -> Pte]  BY DEF Mem
<1>3. \A o \in Offsets : new[o] = value \/ new[o] = m[page][o]  OBVIOUS
<1> HIDE DEF new, m2
<1>4. m2 \in Mem /\ m2[page] = new /\ \A p \in Ram : p # page => m2[p] = m[p]
  BY <1>1, <1>2 DEF Mem
<1>5. Closed(m2, T)
  <2> SUFFICES ASSUME NEW p \in T, NEW o \in Offsets PROVE Linked(m2[p][o], T)
    BY DEF Closed
  <2>1. Linked(m[p][o], T)  BY DEF Closed
  <2> QED  BY <1>3, <1>4, <2>1
<1>6. ASSUME page \notin T PROVE Alike(m, m2, T)
  <2> SUFFICES ASSUME NEW p \in T, NEW o \in Offsets
               PROVE  Linked(m[p][o], T) /\ OnlyMarked(m[p][o], m2[p][o])
    BY DEF Alike
  <2>1. m2[p][o] = m[p][o]  BY <1>4, <1>6
  <2> QED  BY <2>1 DEF Closed, OnlyMarked
<1> QED  BY <1>4, <1>5, <1>6 DEF m2

\* How one page's store ends.
LEMMA WritePartCases ==
    ASSUME NEW m, NEW t, NEW r, NEW vpn, NEW words, NEW value
    PROVE  LET x == WritePart(m, t, r, vpn, words, value)
               tr == translate(m, t, r, vpn, "Store")
           IN  \/ tr.fault /\ x = Faulted(tr.mem, tr.tlb, "page_fault")
               \/ ~ tr.fault /\ tr.page \notin Ram
                  /\ x = Faulted(tr.mem, tr.tlb, "access_fault")
               \/ ~ tr.fault /\ tr.page \in Ram
                  /\ x = Done(Put(tr.mem, tr.page, words, value), tr.tlb, {tr.page})
  BY DEF WritePart, Stored, After, Backed

\* What every access keeps: memory's shape, closed tables, and unless it wrote
\* to a table, a faithful cache.
Keeps(C, T, m, t, x) ==
    /\ x.mem \in Mem /\ Closed(x.mem, T) /\ DOMAIN x.tlb = Ways
    /\ Cached(C, m, t) /\ x.stored \cap T = {} => Cached(C, x.mem, x.tlb)

\* What is known of a guest.
Ground(C, T) ==
    C \subseteq Regs /\ T \subseteq Ram /\ \A r \in C : r.satp.root \in T

LEMMA WritePartKeeps ==
    ASSUME NEW C, NEW T, Ground(C, T), NEW m \in Mem, Closed(m, T),
           NEW t, DOMAIN t = Ways, NEW r \in C, NEW vpn \in Nat,
           NEW words, NEW value \in Pte, Linked(value, T)
    PROVE  Keeps(C, T, m, t, WritePart(m, t, r, vpn, words, value))
<1> DEFINE x == WritePart(m, t, r, vpn, words, value)
           tr == translate(m, t, r, vpn, "Store")
<1>0. C \subseteq Regs /\ T \subseteq Ram /\ r \in Regs /\ "Store" \in Accesses
  BY DEF Ground, Accesses
<1>1. tr.mem \in Mem /\ Marked(m, tr.mem) /\ DOMAIN tr.tlb = Ways
  BY <1>0, TranslateEffect
<1>2. Closed(tr.mem, T)  BY <1>0, <1>1, ClosedMarked
<1>3. Cached(C, m, t) => Cached(C, tr.mem, tr.tlb)  BY <1>0, TranslateCached
<1>4. \/ \E how : x = Faulted(tr.mem, tr.tlb, how)
      \/ tr.page \in Ram
         /\ x = Done(Put(tr.mem, tr.page, words, value), tr.tlb, {tr.page})
  BY WritePartCases
<1> HIDE DEF x, tr
<1>5. CASE \E how : x = Faulted(tr.mem, tr.tlb, how)
  <2>1. x.mem = tr.mem /\ x.tlb = tr.tlb  BY <1>5 DEF Faulted
  <2>2. Keeps(C, T, m, t, x)  BY <1>1, <1>2, <1>3, <2>1 DEF Keeps
  <2> QED  BY <2>2 DEF x
<1>6. CASE /\ tr.page \in Ram
           /\ x = Done(Put(tr.mem, tr.page, words, value), tr.tlb, {tr.page})
  <2> DEFINE m2 == Put(tr.mem, tr.page, words, value)
  <2>1. x.mem = m2 /\ x.tlb = tr.tlb /\ x.stored = {tr.page}  BY <1>6 DEF Done
  <2>2. m2 \in Mem /\ Closed(m2, T) /\ (tr.page \notin T => Alike(tr.mem, m2, T))
    BY <1>0, <1>1, <1>2, <1>6, PutEffect
  <2> HIDE DEF m2
  <2>3. ASSUME Cached(C, m, t), tr.page \notin T PROVE Cached(C, m2, tr.tlb)
    <3>1. \A s \in C : s.satp.root \in T  BY DEF Ground
    <3> QED  BY <1>0, <1>1, <1>3, <2>2, <2>3, <3>1, CachedAlike
  <2>4. Keeps(C, T, m, t, x)  BY <1>1, <2>1, <2>2, <2>3 DEF Keeps
  <2> QED  BY <2>4 DEF x
<1> QED  BY <1>4, <1>5, <1>6

\* A read marks at most.
ReadsOnly(C, T, m, t, x) == Keeps(C, T, m, t, x) /\ Marked(m, x.mem)

LEMMA ReadPartKeeps ==
    ASSUME NEW C, NEW T, Ground(C, T), NEW m \in Mem, Closed(m, T),
           NEW t, DOMAIN t = Ways, NEW r \in C, NEW vpn \in Nat, NEW access \in Accesses
    PROVE  ReadsOnly(C, T, m, t, ReadPart(m, t, r, vpn, access))
<1> DEFINE x == ReadPart(m, t, r, vpn, access)
           tr == translate(m, t, r, vpn, access)
<1>0. C \subseteq Regs /\ T \subseteq Ram /\ r \in Regs  BY DEF Ground
<1>1. tr.mem \in Mem /\ Marked(m, tr.mem) /\ DOMAIN tr.tlb = Ways
  BY <1>0, TranslateEffect
<1>2. Closed(tr.mem, T)  BY <1>0, <1>1, ClosedMarked
<1>3. Cached(C, m, t) => Cached(C, tr.mem, tr.tlb)  BY <1>0, TranslateCached
<1>4. x.mem = tr.mem /\ x.tlb = tr.tlb
  BY DEF ReadPart, Loaded, After, Faulted, Done
<1> HIDE DEF x, tr
<1>5. ReadsOnly(C, T, m, t, x)  BY <1>1, <1>2, <1>3, <1>4 DEF ReadsOnly, Keeps
<1> QED  BY <1>5 DEF x

LEMMA ReadKeeps ==
    ASSUME NEW C, NEW T, Ground(C, T), mem \in Mem, Closed(mem, T),
           DOMAIN tlb = Ways, NEW r \in C, NEW vpn \in Nat, NEW access \in Accesses,
           NEW crosses \in BOOLEAN
    PROVE  ReadsOnly(C, T, mem, tlb, read_mem(r, vpn, access, crosses))
<1> DEFINE x == ReadPart(mem, tlb, r, vpn, access)
           y == ReadPart(x.mem, x.tlb, r, vpn + 1, access)
<1>1. ReadsOnly(C, T, mem, tlb, x)  BY ReadPartKeeps
<1>2. x.stored = {}  BY DEF ReadPart, Loaded, After, Faulted, Done
<1>3. read_mem(r, vpn, access, crosses) \in {x, y}  BY DEF read_mem, ReadRest
<1> HIDE DEF x
<1>4. ReadsOnly(C, T, x.mem, x.tlb, y)
  <2>1. x.mem \in Mem /\ Closed(x.mem, T) /\ DOMAIN x.tlb = Ways  BY <1>1 DEF ReadsOnly, Keeps
  <2>2. vpn + 1 \in Nat  OBVIOUS
  <2> QED  BY <2>1, <2>2, ReadPartKeeps
<1> HIDE DEF y
<1>5. ReadsOnly(C, T, mem, tlb, y)
  <2>1. Marked(mem, y.mem)  BY <1>1, <1>4, MarkedTrans DEF ReadsOnly
  <2> QED  BY <1>1, <1>2, <1>4, <2>1 DEF ReadsOnly, Keeps
<1> QED  BY <1>1, <1>3, <1>5

\* What a store does: where it page-faults it has written nothing, and it
\* writes only the pages it reports, which are the walk's.
Writes(C, T, m, t, r, vpn, x) ==
    /\ Keeps(C, T, m, t, x)
    /\ x.how = "page_fault" => Marked(m, x.mem)
    /\ \A p \in Ram, o \in Offsets : p \notin x.stored => OnlyMarked(m[p][o], x.mem[p][o])
    /\ Cached(C, m, t) /\ ~ r.MPRV =>
         \A p \in x.stored : WalkPage(m, r, vpn, "Store", p) \/ WalkPage(m, r, vpn + 1, "Store", p)

\* Consecutive pages never share a slot.
LEMMA SlotsDiffer == \A vpn \in Nat : slot(vpn) # slot(vpn + 1)
<1> SUFFICES ASSUME NEW vpn \in Nat, slot(vpn) = slot(vpn + 1) PROVE FALSE
  OBVIOUS
<1> DEFINE N == TLB_ENTRIES
           q == vpn \div N
           p == (vpn + 1) \div N
<1>1. N \in Nat /\ N >= 2  BY TlbAssumption
<1> HIDE DEF N
<1>2. q \in Int /\ vpn = N * q + (vpn % N)  BY <1>1
<1>3. p \in Int /\ vpn + 1 = N * p + ((vpn + 1) % N)  BY <1>1
<1>4. vpn % N = (vpn + 1) % N  BY DEF slot, N
<1>5. vpn % N \in Int  BY <1>1
<1> HIDE DEF p, q
<1>6. N * p = N * q + 1  BY <1>1, <1>2, <1>3, <1>4, <1>5
<1>7. N * (p - q) = 1  BY <1>1, <1>2, <1>3, <1>6
<1> DEFINE k == p - q
<1>8. k \in Int /\ N * k = 1  BY <1>2, <1>3, <1>7
<1> HIDE DEF k
<1>9. CASE k <= 0  BY <1>1, <1>8, <1>9
<1>10. CASE k >= 1  BY <1>1, <1>8, <1>10
<1> QED  BY <1>8, <1>9, <1>10

LEMMA WritePartWrites ==
    ASSUME NEW C, NEW T, Ground(C, T), NEW m \in Mem, Closed(m, T),
           NEW t, DOMAIN t = Ways, NEW r \in C, NEW vpn \in Nat,
           NEW words, NEW value \in Pte, Linked(value, T)
    PROVE  Writes(C, T, m, t, r, vpn, WritePart(m, t, r, vpn, words, value))
<1> DEFINE x == WritePart(m, t, r, vpn, words, value)
           tr == translate(m, t, r, vpn, "Store")
<1>0. C \subseteq Regs /\ T \subseteq Ram /\ r \in Regs /\ "Store" \in Accesses
  BY DEF Ground, Accesses
<1>1. tr.mem \in Mem /\ Marked(m, tr.mem)  BY <1>0, TranslateEffect
<1>2. Closed(tr.mem, T)  BY <1>0, <1>1, ClosedMarked
<1>3. Cached(C, m, t) /\ ~ r.MPRV /\ ~ tr.fault => WalkPage(m, r, vpn, "Store", tr.page)
  BY <1>0, TranslateCached
<1>4. Keeps(C, T, m, t, x)  BY WritePartKeeps
<1>5. \/ \E how : x = Faulted(tr.mem, tr.tlb, how)
      \/ ~ tr.fault /\ tr.page \in Ram
         /\ x = Done(Put(tr.mem, tr.page, words, value), tr.tlb, {tr.page})
  BY WritePartCases
<1> HIDE DEF x, tr
<1>6. CASE \E how : x = Faulted(tr.mem, tr.tlb, how)
  <2>1. x.mem = tr.mem /\ x.stored = {}  BY <1>6 DEF Faulted
  <2>2. Writes(C, T, m, t, r, vpn, x)  BY <1>1, <1>4, <2>1 DEF Writes, Marked
  <2> QED  BY <2>2 DEF x
<1>7. CASE /\ ~ tr.fault /\ tr.page \in Ram
           /\ x = Done(Put(tr.mem, tr.page, words, value), tr.tlb, {tr.page})
  <2>1. /\ x.mem = Put(tr.mem, tr.page, words, value)
        /\ x.stored = {tr.page} /\ x.how = "ok"
    BY <1>7 DEF Done
  <2>2. \A p \in Ram, o \in Offsets : p # tr.page => x.mem[p][o] = tr.mem[p][o]
    BY <1>0, <1>1, <1>2, <1>7, <2>1, PutEffect
  <2>3. \A p \in Ram, o \in Offsets : p \notin x.stored => OnlyMarked(m[p][o], x.mem[p][o])
    BY <1>1, <2>1, <2>2 DEF Marked
  <2>4. Writes(C, T, m, t, r, vpn, x)  BY <1>3, <1>4, <1>7, <2>1, <2>3 DEF Writes
  <2> QED  BY <2>4 DEF x
<1> QED  BY <1>5, <1>6, <1>7

\* After both pages of a crossing store have been translated, both
\* translations are in the cache, in different slots.
LEMMA PrecheckEffect ==
    ASSUME NEW C, NEW T, Ground(C, T), NEW m \in Mem, Closed(m, T),
           NEW t, DOMAIN t = Ways, NEW r \in C, NEW vpn \in Nat
    PROVE  LET b == Precheck(translate(m, t, r, vpn, "Store"), r, vpn)
               p1 == b.tlb[<<slot(vpn), "Store">>].page
               p2 == b.tlb[<<slot(vpn + 1), "Store">>].page
           IN  /\ b.mem \in Mem /\ Marked(m, b.mem) /\ Closed(b.mem, T)
               /\ DOMAIN b.tlb = Ways
               /\ Cached(C, m, t) => Cached(C, b.mem, b.tlb)
               /\ ~ b.fault => /\ Hit(b.tlb, r, vpn, "Store") /\ Hit(b.tlb, r, vpn + 1, "Store")
                               /\ Cached(C, m, t) /\ ~ r.MPRV =>
                                    WalkPage(m, r, vpn, "Store", p1) /\ WalkPage(m, r, vpn + 1, "Store", p2)
<1> DEFINE a == translate(m, t, r, vpn, "Store")
           c == translate(a.mem, a.tlb, r, vpn + 1, "Store")
           b == Precheck(a, r, vpn)
           y1 == <<slot(vpn), "Store">>
           y2 == <<slot(vpn + 1), "Store">>
           Goal == /\ b.mem \in Mem /\ Marked(m, b.mem) /\ Closed(b.mem, T)
                   /\ DOMAIN b.tlb = Ways
                   /\ Cached(C, m, t) => Cached(C, b.mem, b.tlb)
                   /\ ~ b.fault =>
                        /\ Hit(b.tlb, r, vpn, "Store") /\ Hit(b.tlb, r, vpn + 1, "Store")
                        /\ Cached(C, m, t) /\ ~ r.MPRV =>
                             /\ WalkPage(m, r, vpn, "Store", b.tlb[y1].page)
                             /\ WalkPage(m, r, vpn + 1, "Store", b.tlb[y2].page)
<1> SUFFICES Goal  OBVIOUS
<1>0. /\ C \subseteq Regs /\ T \subseteq Ram /\ r \in Regs /\ "Store" \in Accesses
      /\ vpn + 1 \in Nat
  BY DEF Ground, Accesses
<1>1. /\ a.mem \in Mem /\ Marked(m, a.mem) /\ DOMAIN a.tlb = Ways /\ a.fault \in BOOLEAN
      /\ ~ a.fault => Hit(a.tlb, r, vpn, "Store") /\ a.tlb[y1].page = a.page
  BY <1>0, TranslateEffect
<1>2. /\ Cached(C, m, t) => Cached(C, a.mem, a.tlb)
      /\ Cached(C, m, t) /\ ~ r.MPRV /\ ~ a.fault => WalkPage(m, r, vpn, "Store", a.page)
  <2>1. Cached(C, m, t) => Cached(C, a.mem, a.tlb)  BY <1>0, TranslateCached
  <2>2. Cached(C, m, t) /\ ~ r.MPRV /\ ~ a.fault => WalkPage(m, r, vpn, "Store", a.page)
    BY <1>0, TranslateCached
  <2> QED  BY <2>1, <2>2
<1>3. Closed(a.mem, T)  BY <1>0, <1>1, ClosedMarked
<1>4. b = IF a.fault THEN a ELSE c  BY DEF Precheck
<1> HIDE DEF a, b
<1>5. CASE a.fault  BY <1>1, <1>2, <1>3, <1>4, <1>5
<1>6. CASE ~ a.fault
  <2>1. b = c  BY <1>4, <1>6
  <2>2. /\ c.mem \in Mem /\ Marked(a.mem, c.mem) /\ DOMAIN c.tlb = Ways
        /\ \A z \in Ways : z # y2 => c.tlb[z] = a.tlb[z]
        /\ ~ c.fault => Hit(c.tlb, r, vpn + 1, "Store") /\ c.tlb[y2].page = c.page
    BY <1>0, <1>1, TranslateEffect
  <2>3. /\ Cached(C, m, t) => Cached(C, c.mem, c.tlb)
        /\ Cached(C, m, t) /\ ~ r.MPRV /\ ~ c.fault => WalkPage(a.mem, r, vpn + 1, "Store", c.page)
    <3>1. Cached(C, m, t) => Cached(C, c.mem, c.tlb)
      BY <1>0, <1>1, <1>2, TranslateCached
    <3>2. Cached(C, m, t) /\ ~ r.MPRV /\ ~ c.fault => WalkPage(a.mem, r, vpn + 1, "Store", c.page)
      BY <1>0, <1>1, <1>2, TranslateCached
    <3> QED  BY <3>1, <3>2
  <2> HIDE DEF c
  <2>4. Marked(m, c.mem)  BY <1>1, <2>2, MarkedTrans
  <2>5. Closed(c.mem, T)  BY <1>0, <2>2, <2>4, ClosedMarked
  <2>6. y1 \in Ways /\ y1 # y2
    BY <1>0, SlotsDiffer, WayType
  <2>7. c.tlb[y1] = a.tlb[y1]  BY <2>2, <2>6
  <2>8. Hit(c.tlb, r, vpn, "Store")  BY <1>1, <1>6, <2>7 DEF Hit
  <2>9. WalkPage(a.mem, r, vpn + 1, "Store", c.page) => WalkPage(m, r, vpn + 1, "Store", c.page)
    <3>1. Alike(m, a.mem, Ram)  BY <1>1, MarkedIsAlike
    <3> QED  BY <1>0, <1>1, <3>1, WalkAlike DEF WalkPage
  <2>10. c.tlb[y1].page = a.page  BY <1>1, <1>6, <2>7
  <2> HIDE DEF y1, y2
  <2> QED  BY <1>2, <1>6, <2>1, <2>2, <2>3, <2>4, <2>5, <2>8, <2>9, <2>10
<1> QED  BY <1>1, <1>5, <1>6

\* A store the cache answers does not page-fault.
LEMMA HitWrite ==
    ASSUME NEW m, NEW t, NEW r, NEW vpn, NEW words, NEW value, Hit(t, r, vpn, "Store")
    PROVE  LET p == t[<<slot(vpn), "Store">>].page IN
           WritePart(m, t, r, vpn, words, value) =
             IF p \in Ram THEN Done(Put(m, p, words, value), t, {p})
             ELSE Faulted(m, t, "access_fault")
<1> DEFINE p == t[<<slot(vpn), "Store">>].page
           tr == translate(m, t, r, vpn, "Store")
<1>1. tr = [fault |-> FALSE, page |-> p, mem |-> m, tlb |-> t]  BY DEF translate
<1> HIDE DEF p, tr
<1>2. tr.fault = FALSE /\ tr.page = p /\ tr.mem = m /\ tr.tlb = t  BY <1>1
<1>3. WritePart(m, t, r, vpn, words, value) = Stored(tr, words, value)
  BY DEF WritePart, tr
<1>4. Stored(tr, words, value) = IF p \in Ram THEN Done(Put(m, p, words, value), t, {p})
                                 ELSE Faulted(m, t, "access_fault")
  BY <1>2 DEF Stored, After, Backed
<1> QED  BY <1>3, <1>4 DEF p

\* Writing one more page.
LEMMA PutKeeps ==
    ASSUME NEW C, NEW T, Ground(C, T), NEW m \in Mem, Closed(m, T),
           NEW t, DOMAIN t = Ways, NEW page \in Ram,
           NEW words, NEW value \in Pte, Linked(value, T)
    PROVE  LET m2 == Put(m, page, words, value) IN
           /\ m2 \in Mem /\ Closed(m2, T)
           /\ Cached(C, m, t) /\ page \notin T => Cached(C, m2, t)
           /\ \A p \in Ram, o \in Offsets : p # page => m2[p][o] = m[p][o]
<1> DEFINE m2 == Put(m, page, words, value)
<1>0. C \subseteq Regs /\ T \subseteq Ram /\ \A s \in C : s.satp.root \in T  BY DEF Ground
<1>1. /\ m2 \in Mem /\ Closed(m2, T) /\ (page \notin T => Alike(m, m2, T))
      /\ \A p \in Ram, o \in Offsets : p # page => m2[p][o] = m[p][o]
  BY <1>0, PutEffect
<1> HIDE DEF m2
<1>2. ASSUME Cached(C, m, t), page \notin T PROVE Cached(C, m2, t)
  BY <1>0, <1>1, <1>2, CachedAlike
<1> QED  BY <1>1, <1>2 DEF m2

\* Both translations were cached before the first word was written, so a
\* crossing store that page-faults does so before it writes anything.
LEMMA CrossingWrites ==
    ASSUME NEW C, NEW T, Ground(C, T), mem \in Mem, Closed(mem, T),
           DOMAIN tlb = Ways, NEW r \in C, NEW vpn \in Nat,
           NEW value \in Pte, Linked(value, T)
    PROVE  Writes(C, T, mem, tlb, r, vpn, WriteCrossing(r, vpn, value))
<1> DEFINE b == Precheck(translate(mem, tlb, r, vpn, "Store"), r, vpn)
           p1 == b.tlb[<<slot(vpn), "Store">>].page
           p2 == b.tlb[<<slot(vpn + 1), "Store">>].page
           n1 == Put(b.mem, p1, {Entries - 1}, value)
           n2 == Put(n1, p2, {0}, value)
           x == WriteCrossing(r, vpn, value)
<1>0. T \subseteq Ram  BY DEF Ground
<1>1. /\ b.mem \in Mem /\ Marked(mem, b.mem) /\ Closed(b.mem, T) /\ DOMAIN b.tlb = Ways
      /\ Cached(C, mem, tlb) => Cached(C, b.mem, b.tlb)
      /\ ~ b.fault => /\ Hit(b.tlb, r, vpn, "Store") /\ Hit(b.tlb, r, vpn + 1, "Store")
                      /\ Cached(C, mem, tlb) /\ ~ r.MPRV =>
                           /\ WalkPage(mem, r, vpn, "Store", p1)
                           /\ WalkPage(mem, r, vpn + 1, "Store", p2)
  BY PrecheckEffect
<1>2. x = IF b.fault THEN Faulted(b.mem, b.tlb, "page_fault")
          ELSE WriteSecond(WriteFirst(b.mem, b.tlb, r, vpn, value), r, vpn, value)
  BY DEF WriteCrossing, WriteBoth
<1> SUFFICES Writes(C, T, mem, tlb, r, vpn, x)  OBVIOUS
<1> HIDE DEF b, x
<1>3. ASSUME NEW how, x = Faulted(b.mem, b.tlb, how)
      PROVE  Writes(C, T, mem, tlb, r, vpn, x)
  <2>1. x.mem = b.mem /\ x.tlb = b.tlb /\ x.stored = {}  BY <1>3 DEF Faulted
  <2>2. Keeps(C, T, mem, tlb, x)  BY <1>1, <2>1 DEF Keeps
  <2> QED  BY <1>1, <2>1, <2>2 DEF Writes, Marked
<1>4. CASE b.fault  BY <1>2, <1>3, <1>4
<1>5. CASE ~ b.fault
  <2>1. Hit(b.tlb, r, vpn, "Store") /\ Hit(b.tlb, r, vpn + 1, "Store")  BY <1>1, <1>5
  <2>2. WriteFirst(b.mem, b.tlb, r, vpn, value) =
          IF p1 \in Ram THEN Done(n1, b.tlb, {p1}) ELSE Faulted(b.mem, b.tlb, "access_fault")
    BY <2>1, HitWrite DEF WriteFirst
  <2>3. x = WriteSecond(WriteFirst(b.mem, b.tlb, r, vpn, value), r, vpn, value)
    BY <1>2, <1>5
  <2> HIDE DEF p1, p2, n1
  <2>4. CASE p1 \notin Ram
    <3> DEFINE f == Faulted(b.mem, b.tlb, "access_fault")
    <3>1. f.how # "ok"  BY DEF Faulted
    <3>2. x = f  BY <2>2, <2>3, <2>4, <3>1 DEF WriteSecond
    <3> QED  BY <1>3, <3>2
  <2>5. CASE p1 \in Ram
    <3> DEFINE f == Done(n1, b.tlb, {p1})
               g == WritePart(n1, b.tlb, r, vpn + 1, {0}, value)
    <3>1. f.how = "ok" /\ f.mem = n1 /\ f.tlb = b.tlb /\ f.stored = {p1}  BY DEF Done
    <3>2. x = Joined(f, g)  BY <2>2, <2>3, <2>5, <3>1 DEF WriteSecond
    <3>3. g = IF p2 \in Ram THEN Done(n2, b.tlb, {p2}) ELSE Faulted(n1, b.tlb, "access_fault")
      BY <2>1, HitWrite DEF p2
    <3>4. /\ n1 \in Mem /\ Closed(n1, T)
          /\ Cached(C, b.mem, b.tlb) /\ p1 \notin T => Cached(C, n1, b.tlb)
          /\ \A p \in Ram, o \in Offsets : p # p1 => n1[p][o] = b.mem[p][o]
      BY <1>1, <2>5, PutKeeps DEF n1
    <3> HIDE DEF g
    <3>5. CASE p2 \notin Ram
      <4>1. g = Faulted(n1, b.tlb, "access_fault")  BY <3>3, <3>5
      <4>2. x.mem = n1 /\ x.tlb = b.tlb /\ x.stored = {p1} /\ x.how = "access_fault"
        BY <3>1, <3>2, <4>1 DEF Joined, Faulted
      <4>3. Keeps(C, T, mem, tlb, x)  BY <1>1, <3>4, <4>2 DEF Keeps
      <4>4. \A p \in Ram, o \in Offsets : p \notin x.stored => OnlyMarked(mem[p][o], x.mem[p][o])
        BY <1>1, <3>4, <4>2 DEF Marked
      <4> QED  BY <1>1, <1>5, <4>2, <4>3, <4>4 DEF Writes
    <3>6. CASE p2 \in Ram
      <4>1. g = Done(n2, b.tlb, {p2})  BY <3>3, <3>6
      <4>2. x.mem = n2 /\ x.tlb = b.tlb /\ x.stored = {p1, p2} /\ x.how = "ok"
        BY <3>1, <3>2, <4>1 DEF Joined, Done
      <4>3. /\ n2 \in Mem /\ Closed(n2, T)
            /\ Cached(C, n1, b.tlb) /\ p2 \notin T => Cached(C, n2, b.tlb)
            /\ \A p \in Ram, o \in Offsets : p # p2 => n2[p][o] = n1[p][o]
        BY <1>1, <3>4, <3>6, PutKeeps DEF n2
      <4> HIDE DEF n2
      <4>4. Keeps(C, T, mem, tlb, x)  BY <1>1, <3>4, <4>2, <4>3 DEF Keeps
      <4>5. \A p \in Ram, o \in Offsets : p \notin x.stored => OnlyMarked(mem[p][o], x.mem[p][o])
        BY <1>1, <3>4, <4>2, <4>3 DEF Marked
      <4> QED  BY <1>1, <1>5, <4>2, <4>4, <4>5 DEF Writes
    <3> QED  BY <3>5, <3>6
  <2> QED  BY <2>4, <2>5
<1> QED  BY <1>4, <1>5

LEMMA StoreWrites ==
    ASSUME NEW C, NEW T, Ground(C, T), mem \in Mem, Closed(mem, T),
           DOMAIN tlb = Ways, NEW r \in C, NEW vpn \in Nat, NEW words,
           NEW crosses \in BOOLEAN, NEW value \in Pte, Linked(value, T)
    PROVE  Writes(C, T, mem, tlb, r, vpn, write_mem(r, vpn, words, crosses, value))
<1>1. CASE crosses  BY <1>1, CrossingWrites DEF write_mem
<1>2. CASE ~ crosses  BY <1>2, WritePartWrites DEF write_mem
<1> QED  BY <1>1, <1>2

-----------------------------------------------------------------------------
(* The invariant and the theorems *)

TlbInv ==
    /\ guest \in DOMAIN Guests /\ regs \in G.contexts /\ edited \in BOOLEAN
    /\ mem \in Mem /\ Closed(mem, G.tables) /\ DOMAIN tlb = Ways
    /\ ~ edited => Cached(G.contexts, mem, tlb)

LEMMA GuestGround ==
    ASSUME guest \in DOMAIN Guests
    PROVE  /\ Ground(G.contexts, G.tables)
           /\ G.vpns \subseteq Nat /\ G.kinds \subseteq Accesses
           /\ G.mems \subseteq Mem /\ \A m \in G.mems : Closed(m, G.tables)
           /\ \A v \in G.values : v \in Pte /\ Linked(v, G.tables)
           /\ \A r \in G.contexts : r.MPRV => r.priv_mode = Machine
<1> DEFINE g == Guests[guest]
<1>1. /\ g.vpns \subseteq Nat /\ g.kinds \subseteq Accesses
      /\ g.contexts \subseteq Regs
      /\ \A r \in g.contexts : r.MPRV => r.priv_mode = Machine
      /\ g.mems \subseteq [Ram -> [Offsets -> Pte]] /\ g.values \subseteq Pte
      /\ g.tables \subseteq Ram
      /\ \A r \in g.contexts : r.satp.root \in g.tables
      /\ \A m \in g.mems, p \in g.tables, o \in Offsets : Linked(m[p][o], g.tables)
      /\ \A v \in g.values : Linked(v, g.tables)
  BY TlbAssumption
<1> HIDE DEF g
<1>2. G = g  BY DEF G, g
<1> QED  BY <1>1, <1>2 DEF Ground, Mem, Closed

LEMMA EmptyCached ==
    ASSUME NEW C, NEW m, NEW t, \A y \in Ways : t[y] = Invalid
    PROVE  Cached(C, m, t)
<1> SUFFICES ASSUME NEW r \in C, NEW vpn \in Nat, NEW access \in Accesses,
                    Hit(t, r, vpn, access)
             PROVE  FALSE
  BY DEF Cached
<1>1. t[<<slot(vpn), access>>] = Invalid  BY WayType
<1> QED  BY <1>1 DEF Hit, Invalid

LEMMA InitTlb == Init => TlbInv
<1> SUFFICES ASSUME Init PROVE TlbInv  OBVIOUS
<1>1. guest \in DOMAIN Guests /\ mem \in G.mems /\ regs \in G.contexts /\ edited = FALSE
  BY DEF Init
<1>2. tlb = [y \in Ways |-> Invalid]  BY DEF Init, Ways
<1>3. mem \in Mem /\ Closed(mem, G.tables)  BY <1>1, GuestGround
<1>4. Cached(G.contexts, mem, tlb)  BY <1>2, EmptyCached
<1> QED  BY <1>1, <1>2, <1>3, <1>4 DEF TlbInv

LEMMA ApplyInv ==
    ASSUME TlbInv, NEW x, Keeps(G.contexts, G.tables, mem, tlb, x), Apply(x)
    PROVE  TlbInv'
<1>1. guest' = guest /\ regs' = regs /\ mem' = x.mem /\ tlb' = x.tlb  BY DEF Apply
<1>2. edited' = (edited \/ x.stored \cap G.tables # {})  BY DEF Apply
<1>3. G' = G  BY <1>1 DEF G
<1>4. edited' \in BOOLEAN  BY <1>2
<1>5. ASSUME ~ edited' PROVE Cached(G.contexts, mem', tlb')
  <2>1. ~ edited /\ x.stored \cap G.tables = {}  BY <1>2, <1>5
  <2> QED  BY <1>1, <2>1 DEF TlbInv, Keeps
<1>6. (mem \in Mem /\ Closed(mem, G.tables) /\ DOMAIN tlb = Ways)'
  BY <1>1, <1>3 DEF Keeps, Closed
<1>7. (~ edited => Cached(G.contexts, mem, tlb))'
  BY <1>3, <1>5 DEF Cached
<1>8. (guest \in DOMAIN Guests /\ regs \in G.contexts)'  BY <1>1, <1>3 DEF TlbInv
<1> QED  BY <1>4, <1>6, <1>7, <1>8 DEF TlbInv

LEMMA ReadStep ==
    ASSUME TlbInv, Read
    PROVE  TlbInv' /\ Marked(mem, mem')
<1>1. Ground(G.contexts, G.tables) /\ G.vpns \subseteq Nat /\ G.kinds \subseteq Accesses
  BY GuestGround DEF TlbInv
<1>2. PICK vpn \in G.vpns, access \in G.kinds \ {"Store"}, crosses \in BOOLEAN :
        Apply(read_mem(regs, vpn, access, crosses))
  BY DEF Read
<1> DEFINE x == read_mem(regs, vpn, access, crosses)
<1>3. ReadsOnly(G.contexts, G.tables, mem, tlb, x)
  BY <1>1, ReadKeeps DEF TlbInv
<1> HIDE DEF x
<1>4. Apply(x)  BY <1>2 DEF x
<1>5. TlbInv'  BY <1>3, <1>4, ApplyInv DEF ReadsOnly
<1>6. mem' = x.mem  BY <1>4 DEF Apply
<1> QED  BY <1>3, <1>5, <1>6 DEF ReadsOnly

LEMMA StoreStep ==
    ASSUME TlbInv, Store
    PROVE  /\ TlbInv'
           /\ \E vpn \in G.vpns : \E x :
                /\ mem' = x.mem /\ outcome' = x.how
                /\ Writes(G.contexts, G.tables, mem, tlb, regs, vpn, x)
<1>1. /\ Ground(G.contexts, G.tables) /\ G.vpns \subseteq Nat
      /\ \A v \in G.values : v \in Pte /\ Linked(v, G.tables)
  BY GuestGround DEF TlbInv
<1>2. PICK vpn \in G.vpns, words \in {{o} : o \in Offsets}, crosses \in BOOLEAN,
           value \in G.values :
        Apply(write_mem(regs, vpn, words, crosses, value))
  BY DEF Store
<1> DEFINE x == write_mem(regs, vpn, words, crosses, value)
<1>3. Writes(G.contexts, G.tables, mem, tlb, regs, vpn, x)
  <2>1. vpn \in Nat /\ value \in Pte /\ Linked(value, G.tables)  BY <1>1
  <2> QED  BY <1>1, <2>1, StoreWrites DEF TlbInv
<1> HIDE DEF x
<1>4. Apply(x)  BY <1>2 DEF x
<1>5. TlbInv'  BY <1>3, <1>4, ApplyInv DEF Writes
<1>6. mem' = x.mem /\ outcome' = x.how  BY <1>4 DEF Apply
<1> QED  BY <1>3, <1>5, <1>6

LEMMA NextTlb == TlbInv /\ [Next]_vars => TlbInv'
<1> SUFFICES ASSUME TlbInv, [Next]_vars PROVE TlbInv'  OBVIOUS
<1>1. CASE Read  BY <1>1, ReadStep
<1>2. CASE Store  BY <1>2, StoreStep
<1>3. CASE SfenceVma
  <2>1. guest' = guest /\ mem' = mem /\ regs' = regs /\ edited' = FALSE
    BY <1>3 DEF SfenceVma
  <2>2. tlb' = [y \in Ways |-> Invalid]  BY <1>3 DEF SfenceVma, flush_tlb, TlbInv
  <2>3. G' = G  BY <2>1 DEF G
  <2>4. Cached(G.contexts, mem, tlb')  BY <2>2, EmptyCached
  <2>5. (Cached(G.contexts, mem, tlb))'  BY <2>1, <2>3, <2>4 DEF Cached
  <2>6. (mem \in Mem /\ Closed(mem, G.tables) /\ regs \in G.contexts)'
    BY <2>1, <2>3 DEF TlbInv, Closed
  <2> QED  BY <2>1, <2>2, <2>5, <2>6 DEF TlbInv
<1>4. CASE SwitchContext
  <2>1. guest' = guest /\ mem' = mem /\ tlb' = tlb /\ edited' = edited /\ regs' \in G.contexts
    BY <1>4 DEF SwitchContext
  <2>2. G' = G  BY <2>1 DEF G
  <2>3. (Cached(G.contexts, mem, tlb))' <=> Cached(G.contexts, mem, tlb)
    BY <2>1, <2>2 DEF Cached
  <2>4. (Closed(mem, G.tables))'  BY <2>1, <2>2 DEF TlbInv, Closed
  <2> QED  BY <2>1, <2>2, <2>3, <2>4 DEF TlbInv
<1>5. CASE UNCHANGED vars
  <2>1. /\ guest' = guest /\ mem' = mem /\ tlb' = tlb /\ edited' = edited /\ regs' = regs
    BY <1>5 DEF vars
  <2>2. G' = G  BY <2>1 DEF G
  <2>3. (Cached(G.contexts, mem, tlb))' <=> Cached(G.contexts, mem, tlb)
    BY <2>1, <2>2 DEF Cached
  <2>4. (Closed(mem, G.tables))'  BY <2>1, <2>2 DEF TlbInv, Closed
  <2> QED  BY <2>1, <2>2, <2>3, <2>4 DEF TlbInv
<1> QED  BY <1>1, <1>2, <1>3, <1>4, <1>5 DEF Next

\* While the guest fences its edits a hit is the walk of the current tables,
\* for every number of entries and every guest (cpu.rs translate).
THEOREM CacheInvisible == Spec => []HitIsWalk
<1>1. TlbInv => HitIsWalk
  <2> SUFFICES ASSUME TlbInv, ~ edited, NEW r \in G.contexts, ~ r.MPRV,
                      NEW vpn \in G.vpns, NEW access \in Accesses, Hit(tlb, r, vpn, access)
               PROVE  mmu_translate(mem, r, vpn, access) = Ok(tlb[<<slot(vpn), access>>].page, mem)
    BY DEF HitIsWalk, HitAgrees
  <2>1. vpn \in Nat  BY GuestGround DEF TlbInv
  <2> QED  BY <2>1 DEF TlbInv, Cached
<1> QED  BY <1>1, InitTlb, NextTlb, PTL DEF Spec

LEMMA Quiet ==
    ASSUME TlbInv, [Next]_vars, ~ Store
    PROVE  Untouched
<1>1. CASE Read  BY <1>1, ReadStep DEF Marked, Untouched
<1>2. CASE mem' = mem  BY <1>2 DEF Untouched, OnlyMarked
<1> QED  BY <1>1, <1>2 DEF Next, SfenceVma, SwitchContext, vars

\* A store that page-faults has written nothing, even when it crosses pages or
\* writes the tables that map it (cpu.rs write_mem).
THEOREM PageFaultsAtomic == Spec => PageFaultIsAtomic
<1>1. TlbInv /\ [Next]_vars => [outcome' = "page_fault" => Untouched]_vars
  <2> SUFFICES ASSUME TlbInv, [Next]_vars, outcome' = "page_fault" PROVE Untouched
    OBVIOUS
  <2>1. CASE Store
    BY <2>1, StoreStep DEF Writes, Marked, Untouched
  <2>2. CASE ~ Store  BY <2>2, Quiet
  <2> QED  BY <2>1, <2>2
<1> QED  BY <1>1, InitTlb, NextTlb, PTL DEF Spec, PageFaultIsAtomic

\* User code under fenced tables writes only pages the tables let user code
\* write, whatever the cache has remembered from other contexts
\* (mmu.rs translate, cpu.rs translate).
THEOREM UserWritesConfined == Spec => UserConfined
<1> DEFINE A == regs.priv_mode = User /\ regs.satp.mode # "Bare" /\ ~ edited =>
                  \A p \in Ram, o \in Offsets :
                      OnlyMarked(mem[p][o], mem'[p][o]) \/ UserWritable(p)
<1>1. TlbInv /\ [Next]_vars => [A]_vars
  <2> SUFFICES ASSUME TlbInv, [Next]_vars, regs.priv_mode = User, ~ edited,
                      NEW p \in Ram, NEW o \in Offsets
               PROVE  OnlyMarked(mem[p][o], mem'[p][o]) \/ UserWritable(p)
    OBVIOUS
  <2>1. CASE ~ Store  BY <2>1, Quiet DEF Untouched
  <2>2. CASE Store
    <3>0. PICK vpn \in G.vpns :
            \E x : mem' = x.mem /\ Writes(G.contexts, G.tables, mem, tlb, regs, vpn, x)
      BY <2>2, StoreStep
    <3>1. PICK x : mem' = x.mem /\ Writes(G.contexts, G.tables, mem, tlb, regs, vpn, x)
      BY <3>0
    <3>2. CASE p \notin x.stored  BY <3>1, <3>2 DEF Writes
    <3>3. CASE p \in x.stored
      <4>1. ~ regs.MPRV /\ regs \in Regs  BY GuestGround DEF TlbInv, Ground
      <4>2. Cached(G.contexts, mem, tlb)  BY DEF TlbInv
      <4>3. WalkPage(mem, regs, vpn, "Store", p) \/ WalkPage(mem, regs, vpn + 1, "Store", p)
        BY <3>1, <3>3, <4>1, <4>2 DEF Writes
      <4>4. [regs EXCEPT !.priv_mode = User] = regs  BY <4>1 DEF Regs
      <4>5. UserWritable(p)  BY <4>3, <4>4 DEF UserWritable, WalkPage
      <4> QED  BY <4>5
    <3> QED  BY <3>2, <3>3
  <2> QED  BY <2>1, <2>2
<1> QED  BY <1>1, InitTlb, NextTlb, PTL DEF Spec, UserConfined

=============================================================================
