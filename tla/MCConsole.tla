----------------------------- MODULE MCConsole -----------------------------
(***************************************************************************)
(* The console path under SBI, where both console interfaces exist.        *)
(***************************************************************************)
EXTENDS Console

Driver == [sbi |-> TRUE, rv32 |-> FALSE, ops |-> {"input", "plic", "rbr", "uart", "other", "getchar", "none"}]
DriverOnly == {Driver}

=============================================================================
