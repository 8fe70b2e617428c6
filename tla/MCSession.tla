----------------------------- MODULE MCSession -----------------------------
(***************************************************************************)
(* Small invocations of Session: a memory of six bytes of two bits at      *)
(* address 4, programs of two or three segments, and each way to run them. *)
(***************************************************************************)
EXTENDS Session

Header(type, paddr, data, memsz) ==
    [type |-> type, paddr |-> paddr, data |-> data, memsz |-> memsz, inFile |-> TRUE]
Table(type, symbols) == [type |-> type, entsize |-> 1, symbols |-> symbols]
Sym(name, value) == [name |-> name, value |-> value]
Elf(headers, sections) ==
    [elf |-> TRUE, error |-> "none", headers |-> headers, sections |-> sections]
Flat(data) == [elf |-> FALSE, error |-> "none", data |-> data]

St(addr, size, value) == [addr |-> addr, size |-> size, value |-> value]

\* Code, data with a zeroed tail, and a note that is not loaded; tohost is the
\* last word.
Linked3 ==
    Elf(<<Header("PT_LOAD", 4, <<1, 2>>, 2), Header("PT_NOTE", 99, <<3>>, 1),
          Header("PT_LOAD", 6, <<3>>, 4)>>,
        <<Table("SHT_SYMTAB", <<Sym("_start", 4), Sym("tohost", 5), Sym("tohost", 8)>>),
          Table("SHT_STRTAB", <<Sym("tohost", 4)>>),
          [Table("SHT_SYMTAB", <<Sym("tohost", 4)>>) EXCEPT !.entsize = 0]>>)

\* The second lies over the first's tail, and memsz is too small to mean anything.
Overlapping ==
    Elf(<<Header("PT_LOAD", 5, <<1>>, 5), Header("PT_LOAD", 6, <<2, 3>>, 0)>>, <<>>)

\* Two bytes and their tail, inside the memory or across an end of it.
Placed(addr, memsz) == Elf(<<Header("PT_LOAD", addr, <<1, 1>>, memsz)>>, <<>>)

Whole == {St(8, 2, v) : v \in {0, 1, 2, 5}} \cup {St(9, 1, 1), St(6, 2, 9)}
Narrow == {St(8, 1, v) : v \in {0, 1, 4, 5}} \cup {St(7, 2, 4)}

Base == [trace |-> FALSE, sample |-> 0, max |-> 3, kernel |-> FALSE, dtb |-> FALSE,
         file |-> Linked3, tree |-> <<>>, stores |-> {}]
Kernel == [Base EXCEPT !.kernel = TRUE, !.dtb = TRUE, !.file = Flat(<<1, 2>>), !.tree = <<3, 3>>]

Tests == [Base EXCEPT !.max = 5, !.stores = Whole]

\* An invocation is named by a word and, for "placed", the segment's place.
Named(names) == names \X {<<0, 0>>}
Names ==
    ({"placed"} \X ((3 .. 10) \X (0 .. 4)))
    \cup Named({"overlapping", "unreadable", "broken", "short", "short_note", "flat",
                "flat_unreadable", "flat_large", "kernel", "kernel_large", "kernel_unreadable",
                "kernel_overlap", "kernel_treeless", "plain", "no_steps", "traced_none",
                "sampled", "sampled_long", "traced", "narrow"})
AllInvocations ==
    [name \in Names |->
        LET w == name[1] IN
        CASE w = "placed" -> [Base EXCEPT !.max = 0, !.file = Placed(name[2][1], name[2][2])]
          [] w = "overlapping" -> [Base EXCEPT !.file = Overlapping]
          [] w = "unreadable" -> [Base EXCEPT !.file.error = "unreadable"]
          [] w = "broken" -> [Base EXCEPT !.file.error = "NotRiscv"]
          [] w = "short" -> [Base EXCEPT !.file.headers[3].inFile = FALSE]
          [] w = "short_note" -> [Base EXCEPT !.file.headers[2].inFile = FALSE]
          [] w = "flat" -> [Base EXCEPT !.file = Flat(<<1, 2, 3, 1, 2, 3>>)]
          [] w = "flat_unreadable" -> [Base EXCEPT !.file = [Flat(<<>>) EXCEPT !.error = "unreadable"]]
          [] w = "flat_large" -> [Base EXCEPT !.file = Flat(<<1, 2, 3, 1, 2, 3, 1>>)]
          [] w = "kernel" -> [Kernel EXCEPT !.sample = 2]
          [] w = "kernel_large" -> [Kernel EXCEPT !.file = Flat(<<1, 2, 3, 1, 2>>)]
          [] w = "kernel_unreadable" -> [Kernel EXCEPT !.file.error = "unreadable"]
          [] w = "kernel_overlap" -> [Kernel EXCEPT !.file = Flat(<<1, 2, 1, 2>>)]
          [] w = "kernel_treeless" -> [Kernel EXCEPT !.dtb = FALSE]
          [] w = "plain" -> Tests
          [] w = "no_steps" -> [Tests EXCEPT !.max = 0]
          [] w = "traced_none" -> [Tests EXCEPT !.trace = TRUE, !.max = 0]
          [] w = "sampled" -> [Tests EXCEPT !.sample = 2]
          [] w = "sampled_long" -> [Tests EXCEPT !.sample = 7]
          [] w = "traced" -> [Tests EXCEPT !.trace = TRUE, !.sample = 2]
          [] w = "narrow" -> [Tests EXCEPT !.stores = Narrow]]
=============================================================================
