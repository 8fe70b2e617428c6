-------------------------------- MODULE Tlb --------------------------------
(***************************************************************************)
(* The hart's memory accesses: the direct-mapped translation cache in      *)
(* front of the walk and the splitting of accesses that cross a page       *)
(* (emu/src/cpu.rs translate, flush_tlb, read_mem, write_mem, fetch).      *)
(*                                                                         *)
(* An access names a virtual page and a word in it, and takes one word or  *)
(* two; two words from the last of a page cross into the next.  Bytes of   *)
(* one page translate alike, so the byte loops are two iterations here.    *)
(* Guest stores may hit the page tables themselves.                        *)
(***************************************************************************)
EXTENDS Mmu

CONSTANTS
    TLB_ENTRIES,
    Guests      \* by name: [vpns, kinds, contexts, mems, values, tables], below

\* A walk that follows this entry reads a page of tables, or stops.
Linked(pte, tables) == Below(pte) \in Ram => Below(pte) \in tables

\* A guest touches some virtual pages with some kinds of access, under some
\* register values, from memories with the tables built before paging is on,
\* stores some words, and uses some pages as page tables.
ASSUME TlbAssumption ==
    /\ TLB_ENTRIES \in Nat \ {0, 1}
    /\ \A name \in DOMAIN Guests :
         LET g == Guests[name] IN
         /\ g.vpns \subseteq Nat /\ g.kinds \subseteq Accesses
         /\ g.contexts \subseteq Regs
         \* module Hart proves that MPRV is never set below machine mode
         /\ \A r \in g.contexts : r.MPRV => r.priv_mode = Machine
         /\ g.mems \subseteq [Ram -> [Offsets -> Pte]] /\ g.values \subseteq Pte
         /\ g.tables \subseteq Ram
         \* tables has every page a walk can read: the roots, and what the
         \* pointers in it, now or once the guest has stored its words, name
         /\ \A r \in g.contexts : r.satp.root \in g.tables
         /\ \A m \in g.mems, p \in g.tables, o \in Offsets : Linked(m[p][o], g.tables)
         /\ \A v \in g.values : Linked(v, g.tables)

VARIABLES
    guest,          \* the name of the guest this behaviour runs
    mem,            \* physical memory
    tlb,            \* [slot, way] -> entry
    regs,           \* the registers translations depend on
    outcome,        \* how the last access ended
    edited          \* history: page tables stored to since the last SFENCE.VMA

vars == <<guest, mem, tlb, regs, outcome, edited>>

G == Guests[guest]

Slots == 0 .. TLB_ENTRIES - 1
slot(vpn) == vpn % TLB_ENTRIES

\* The bug of a tag that forgets the privilege.
ctx_without_priv(r) == <<r.SUM, r.MXR, r.MPRV>>

\* What the tag remembers of the registers besides satp.
ctx(r) == <<r.SUM, r.MXR, r.MPRV, r.priv_mode>>

Invalid == [valid |-> FALSE]
Entry(vpn, page, r) ==
    [valid |-> TRUE, vpn |-> vpn, page |-> page, satp |-> r.satp, ctx |-> ctx(r)]

Hit(t, r, vpn, access) ==
    LET e == t[<<slot(vpn), access>>] IN
    e.valid /\ e.vpn = vpn /\ e.satp = r.satp /\ e.ctx = ctx(r)

\* Only successful walks are cached.
Fill(t, r, vpn, access, walk) ==
    [fault |-> walk.fault, page |-> walk.page, mem |-> walk.mem,
     tlb |-> IF walk.fault THEN t
             ELSE [t EXCEPT ![<<slot(vpn), access>>] = Entry(vpn, walk.page, r)]]

\* cpu.rs translate, on memory m and cache t.
translate(m, t, r, vpn, access) ==
    IF Hit(t, r, vpn, access)
    THEN [fault |-> FALSE, page |-> t[<<slot(vpn), access>>].page, mem |-> m, tlb |-> t]
    ELSE Fill(t, r, vpn, access, mmu_translate(m, r, vpn, access))

-----------------------------------------------------------------------------
(* Accesses: each yields the memory, the cache, how it ended and the physical*)
(* pages it stored to                                                       *)

Done(m, t, pages) == [mem |-> m, tlb |-> t, how |-> "ok", stored |-> pages]
Faulted(m, t, how) == [mem |-> m, tlb |-> t, how |-> how, stored |-> {}]

Backed(page) == page \in Ram

\* How an access goes on from its translation: ok is what it does to memory.
After(translation, ok) ==
    IF translation.fault THEN Faulted(translation.mem, translation.tlb, "page_fault")
    ELSE IF ~ Backed(translation.page)
    THEN Faulted(translation.mem, translation.tlb, "access_fault")
    ELSE ok

Loaded(translation) == After(translation, Done(translation.mem, translation.tlb, {}))

\* One page: translate, then Memory::read.  This is also fetch_half.
ReadPart(m, t, r, vpn, access) == Loaded(translate(m, t, r, vpn, access))

ReadRest(first, r, vpn, access, crosses) ==
    IF first.how # "ok" \/ ~ crosses THEN first
    ELSE ReadPart(first.mem, first.tlb, r, vpn, access)

\* read_mem, and fetch: crossing means each page is translated and read in
\* turn.
read_mem(r, vpn, access, crosses) ==
    ReadRest(ReadPart(mem, tlb, r, vpn, access), r, vpn + 1, access, crosses)

Put(m, page, words, value) ==
    [m EXCEPT ![page] = [o \in Offsets |-> IF o \in words THEN value ELSE @[o]]]

Stored(translation, words, value) ==
    After(translation,
          Done(Put(translation.mem, translation.page, words, value),
               translation.tlb, {translation.page}))

WritePart(m, t, r, vpn, words, value) ==
    Stored(translate(m, t, r, vpn, "Store"), words, value)

Joined(first, second) == [second EXCEPT !.stored = @ \cup first.stored]

\* The last word of vpn has been written, or has faulted; now the next page.
WriteSecond(first, r, vpn, value) ==
    IF first.how # "ok" THEN first
    ELSE Joined(first, WritePart(first.mem, first.tlb, r, vpn + 1, {0}, value))

WriteFirst(m, t, r, vpn, value) == WritePart(m, t, r, vpn, {Entries - 1}, value)

\* The second translation, before anything is written.
Precheck(a, r, vpn) ==
    IF a.fault THEN a ELSE translate(a.mem, a.tlb, r, vpn + 1, "Store")

WriteBoth(b, r, vpn, value) ==
    IF b.fault THEN Faulted(b.mem, b.tlb, "page_fault")
    ELSE WriteSecond(WriteFirst(b.mem, b.tlb, r, vpn, value), r, vpn, value)

\* The bug of writing each half as soon as it is translated.
WriteCrossing_one_pass(r, vpn, value) ==
    WriteSecond(WriteFirst(mem, tlb, r, vpn, value), r, vpn, value)

\* Both pages are translated before either is written.
WriteCrossing(r, vpn, value) ==
    WriteBoth(Precheck(translate(mem, tlb, r, vpn, "Store"), r, vpn), r, vpn, value)

write_mem(r, vpn, words, crosses, value) ==
    IF crosses THEN WriteCrossing(r, vpn, value)
    ELSE WritePart(mem, tlb, r, vpn, words, value)

-----------------------------------------------------------------------------
(* Actions *)

Apply(result) ==
    /\ mem' = result.mem /\ tlb' = result.tlb /\ outcome' = result.how
    /\ edited' = (edited \/ result.stored \cap G.tables # {})
    /\ UNCHANGED <<guest, regs>>

\* A load or a fetch: reads change the accessed bits only.
Read ==
    \E vpn \in G.vpns, access \in G.kinds \ {"Store"}, crosses \in BOOLEAN :
        Apply(read_mem(regs, vpn, access, crosses))

Store ==
    /\ "Store" \in G.kinds
    /\ \E vpn \in G.vpns, words \in {{o} : o \in Offsets}, crosses \in BOOLEAN,
          value \in G.values :
           /\ crosses => words = {Entries - 1}
           /\ Apply(write_mem(regs, vpn, words, crosses, value))

\* The bug of a fence that forgets the store way.
flush_tlb_keeping_stores(t) == [x \in DOMAIN t |-> IF x[2] = "Store" THEN t[x] ELSE Invalid]

flush_tlb(t) == [x \in DOMAIN t |-> Invalid]

\* SFENCE.VMA and the SBI fences drop everything.
SfenceVma ==
    /\ regs.priv_mode # User        \* an illegal instruction there
    /\ tlb' = flush_tlb(tlb) /\ edited' = FALSE
    /\ UNCHANGED <<guest, mem, regs, outcome>>

\* A trap, a return or a CSR write: none of them touches the cache.
SwitchContext ==
    /\ regs' \in G.contexts
    /\ UNCHANGED <<guest, mem, tlb, outcome, edited>>

\* The moment after the guest built its tables and fenced.
Init ==
    /\ guest \in DOMAIN Guests
    /\ mem \in G.mems
    /\ tlb = [x \in Slots \X Accesses |-> Invalid]
    /\ regs \in G.contexts
    /\ outcome = "ok" /\ edited = FALSE

Next == Read \/ Store \/ SfenceVma \/ SwitchContext

Spec == Init /\ [][Next]_vars

-----------------------------------------------------------------------------
(* Properties *)

\* A hit answers what the walk would, and the walk would have nothing left to
\* mark.
HitAgrees(r) ==
    \A vpn \in G.vpns, access \in Accesses :
        Hit(tlb, r, vpn, access) =>
            mmu_translate(mem, r, vpn, access) = Ok(tlb[<<slot(vpn), access>>].page, mem)

\* While the guest fences its edits, the cache is invisible: whatever the
\* register changes, evictions and accessed and dirty updates since, a hit is
\* the walk of the current tables.  MPRV accesses are apart
\* (cpu.rs translate, SFENCE.VMA).
HitIsWalk == ~ edited => \A r \in G.contexts : ~ r.MPRV => HitAgrees(r)

\* What the comment on TlbEntry says, MPRV included: the tag "carries
\* everything the walk depended on besides the page tables themselves".
TagCarriesEverything == ~ edited => HitAgrees(regs)

\* The word changed at most as the walk changes an entry.
OnlyMarked(old, new) ==
    /\ new.ppn = old.ppn
    /\ old.flags \subseteq new.flags /\ new.flags \subseteq old.flags \cup {"A", "D"}

Untouched == \A p \in Ram, o \in Offsets : OnlyMarked(mem[p][o], mem'[p][o])

\* A store that page-faults has written nothing, even across two pages and
\* even when it writes the tables that map it (cpu.rs write_mem).
PageFaultIsAtomic == [][outcome' = "page_fault" => Untouched]_vars

\* The comment in write_mem, of every fault: "a fault on the second page does
\* not leave the first partially updated".
FaultIsAtomic == [][outcome' # "ok" => Untouched]_vars

\* The leaf that maps vpn lets user code write the page.
UserWritable(page) ==
    \E vpn \in G.vpns \cup {v + 1 : v \in G.vpns} :
        LET w == mmu_translate(mem, [regs EXCEPT !.priv_mode = User], vpn, "Store")
        IN  ~ w.fault /\ w.page = page

\* User code under fenced tables writes only pages the tables let it write
\* (mmu.rs translate, cpu.rs translate).
UserConfined ==
    [][regs.priv_mode = User /\ regs.satp.mode # "Bare" /\ ~ edited =>
         \A p \in Ram, o \in Offsets :
             OnlyMarked(mem[p][o], mem'[p][o]) \/ UserWritable(p)]_vars

=============================================================================
