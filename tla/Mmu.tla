-------------------------------- MODULE Mmu --------------------------------
(***************************************************************************)
(* The page-table walk (emu/src/mmu.rs translate) over a small memory.     *)
(*                                                                         *)
(* Addresses are page numbers.  Memory is an array of pages of words, and  *)
(* a word is read as a page-table entry: a set of flags and a physical     *)
(* page number.  A page holds Entries words, so a table is one page and a  *)
(* page number has one base-Entries digit per level.  Pages outside Ram    *)
(* are physical addresses where Memory::read and write fail.               *)
(***************************************************************************)
EXTENDS Integers

CONSTANTS
    Entries,        \* entries per table: 2^vpn_bits
    Ram             \* physical pages with memory behind them

ASSUME MmuAssumption == Entries \in Nat \ {0, 1} /\ Ram \subseteq Nat

Offsets == 0 .. Entries - 1
Flags == {"V", "R", "W", "X", "U", "A", "D"}
Pte == [flags : SUBSET Flags, ppn : Nat]
Accesses == {"Fetch", "Load", "Store"}

\* The registers a translation depends on.
User == 0
Supervisor == 1
Machine == 3
Regs == [satp : [mode : {"Bare", "Sv32", "Sv39"}, root : Nat], priv_mode : {User, Supervisor, Machine},
         SUM : BOOLEAN, MXR : BOOLEAN, MPRV : BOOLEAN, MPP : 0 .. 3]

from_bits(v) == IF v = 0 THEN User ELSE IF v = 1 THEN Supervisor ELSE Machine

\* The levels of a scheme, and the pages one entry of a level maps: the powers
\* of Entries.
Levels(mode) == IF mode = "Sv39" THEN 3 ELSE 2
Span(level) == <<1, Entries, Entries * Entries, Entries * Entries * Entries>>[level + 1]

-----------------------------------------------------------------------------

\* MPRV redirects loads and stores, never fetches.
effective(r, access) ==
    IF access # "Fetch" /\ r.MPRV THEN from_bits(r.MPP) ELSE r.priv_mode

Bare(r, access) == r.satp.mode = "Bare" \/ effective(r, access) = Machine

\* In Sv39 the bits above the scheme's repeat its top one.  Page numbers have
\* one such bit here, to stand for all.
Canonical(mode, vpn) ==
    mode = "Sv39" => LET half == Span(Levels(mode)) \div 2 IN vpn < half \/ vpn >= 3 * half

vpn_at(vpn, level) == (vpn \div Span(level)) % Entries

Reserved(pte) == "V" \notin pte.flags \/ ("R" \notin pte.flags /\ "W" \in pte.flags)
IsLeaf(pte) == pte.flags \cap {"R", "X"} # {}

\* The table the walk reads at each level, or Stopped where it ended above.
Stopped == -1
Below(pte) == IF Reserved(pte) \/ IsLeaf(pte) THEN Stopped ELSE pte.ppn
Tables(m, satp, vpn) ==
    LET at[level \in 0 .. Levels(satp.mode) - 1] ==
          IF level = Levels(satp.mode) - 1 THEN satp.root
          ELSE IF at[level + 1] \notin Ram THEN Stopped
          ELSE Below(m[at[level + 1]][vpn_at(vpn, level + 1)])
    IN  at

\* Where a walk through tables ends: a level, a table and the entry in it.
EndLevel(tables) ==
    CHOOSE l \in DOMAIN tables :
        tables[l] # Stopped /\ \A k \in 0 .. l - 1 : tables[k] = Stopped
EntryAt(tables, vpn, level) ==
    [level |-> level, table |-> tables[level], index |-> vpn_at(vpn, level)]
Final(tables, vpn) == EntryAt(tables, vpn, EndLevel(tables))

\* Whether the page may be touched at all at this privilege.
MayReach(pte, mode, r, access) ==
    /\ mode = User => "U" \in pte.flags
    /\ mode = Supervisor /\ "U" \in pte.flags => access # "Fetch" /\ r.SUM

permitted(pte, r, access) ==
    CASE access = "Fetch" -> "X" \in pte.flags
      [] access = "Load"  -> "R" \in pte.flags \/ (r.MXR /\ "X" \in pte.flags)
      [] access = "Store" -> "W" \in pte.flags

\* A superpage takes its low page bits from the virtual address.
Aligned(pte, level) == pte.ppn % Span(level) = 0
Splice(pte, level, vpn) == (pte.ppn - (pte.ppn % Span(level))) + (vpn % Span(level))

Need(access) == {"A"} \cup IF access = "Store" THEN {"D"} ELSE {}

Ok(page, m) == [fault |-> FALSE, page |-> page, mem |-> m]
PageFault(m) == [fault |-> TRUE, page |-> 0, mem |-> m]

\* The accessed and dirty bits are set in place.
Mark(m, at, access) ==
    [m EXCEPT ![at.table][at.index].flags = @ \cup Need(access)]

Grants(pte, level, r, access) ==
    /\ ~ Reserved(pte) /\ IsLeaf(pte)
    /\ MayReach(pte, effective(r, access), r, access)
    /\ permitted(pte, r, access)
    /\ Aligned(pte, level)

Resolve(m, r, vpn, access, at) ==
    IF at.table \in Ram /\ Grants(m[at.table][at.index], at.level, r, access)
    THEN Ok(Splice(m[at.table][at.index], at.level, vpn), Mark(m, at, access))
    ELSE PageFault(m)

\* mmu.rs translate: the physical page, or a page fault, and the memory with
\* the leaf marked.
mmu_translate(m, r, vpn, access) ==
    IF Bare(r, access) THEN Ok(vpn, m)
    ELSE IF ~ Canonical(r.satp.mode, vpn) THEN PageFault(m)
    ELSE Resolve(m, r, vpn, access, Final(Tables(m, r.satp, vpn), vpn))

=============================================================================
