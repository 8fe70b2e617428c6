----------------------------- MODULE MCAtomics -----------------------------
(***************************************************************************)
(* Three threads on two words of two bits each.                            *)
(***************************************************************************)
EXTENDS Atomics, TLC

Interchangeable == Permutations(Threads) \cup Permutations(Addrs)

=============================================================================
