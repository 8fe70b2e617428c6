--------------------------- MODULE InterruptBits ---------------------------
(***************************************************************************)
(* The interrupt bits shared by mie, mip, sie, sip and mideleg (emu/src/   *)
(* csr.rs mod int).  A bit's position is its cause number, so a register   *)
(* is a set of causes.                                                     *)
(***************************************************************************)
EXTENDS Naturals

SSIP == 1
MSIP == 3
STIP == 5
MTIP == 7
SEIP == 9
MEIP == 11

\* The bits a supervisor may see and touch through sie and sip.
S_VISIBLE == {SSIP, STIP, SEIP}
ALL == {SSIP, MSIP, STIP, MTIP, SEIP, MEIP}

\* Bits of new inside mask, bits of old outside it.
Merge(old, new, mask) == (old \ mask) \cup (new \cap mask)

\* What software may change in mip; the devices drive the rest.
MIP_WRITABLE == {SSIP, MSIP, STIP}
SIP_WRITABLE == {SSIP}

=============================================================================
