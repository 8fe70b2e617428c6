------------------------------- MODULE MCBoard -------------------------------
(***************************************************************************)
(* Small instances of Board for TLC: guests that between them use every    *)
(* device, each with the operations that matter together.                  *)
(***************************************************************************)
EXTENDS Board

External == [sbi |-> FALSE, rv32 |-> TRUE,
             ops |-> {"input", "plic", "rbr", "uart", "amo", "other", "none"}]
Polling == [sbi |-> TRUE, rv32 |-> FALSE, ops |-> {"input", "plic", "rbr", "uart", "getchar", "none"}]
Timers == [sbi |-> FALSE, rv32 |-> FALSE, ops |-> {"clint", "mtime", "csr", "thr", "none"}]
Kernel(rv32) == [sbi |-> TRUE, rv32 |-> rv32, ops |-> {"set_timer", "putchar", "ipi", "csr", "none"}]
Printing == [sbi |-> TRUE, rv32 |-> FALSE, ops |-> {"input", "plic", "uart", "thr", "dbcn", "none"}]

\* In memory and off its end, over a whole device, and off a device's end.
SomeBuffers ==
    {<<"dram", "dram">>, <<"dram", "beyond">>, <<"rbr", "register">>, <<"register", "claim">>,
     <<"register", "hole">>}

AllGuests == {External, Polling, Timers, Kernel(FALSE), Kernel(TRUE), Printing}
Rv32KernelOnly == {Kernel(TRUE)}

=============================================================================
