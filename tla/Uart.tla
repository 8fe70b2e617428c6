-------------------------------- MODULE Uart --------------------------------
(***************************************************************************)
(* The NS16550a console (emu/src/uart.rs): the receive queue, the interrupt*)
(* enables, and the DLAB bit that swaps the first two registers for the    *)
(* baud-rate divisor.  The registers that are only stored and read back    *)
(* (FCR, MCR, SCR, the other LCR bits) are left out.                       *)
(***************************************************************************)
EXTENDS Naturals, Sequences

CONSTANTS
    Bytes,          \* bytes that travel over the line
    MaxQueue        \* bound on the model's receive queue and transmit log

ASSUME UartAssumption == Bytes \subseteq Nat /\ 0 \in Bytes /\ MaxQueue \in Nat

VARIABLES
    rx,             \* queued input
    tx,             \* everything transmitted
    ier,            \* the set of enabled interrupts, of "rx" and "thr"
    dlab,           \* LCR bit 7
    divisor         \* [low, high]

uartVars == <<rx, tx, ier, dlab, divisor>>

UartTypeOK ==
    /\ rx \in Seq(Bytes) /\ tx \in Seq(Bytes)
    /\ ier \in SUBSET {"rx", "thr"} /\ dlab \in BOOLEAN
    /\ divisor \in [low : Bytes, high : Bytes]

UartInit ==
    /\ rx = <<>> /\ tx = <<>> /\ ier = {} /\ dlab = FALSE
    /\ divisor = [low |-> 0, high |-> 0]

\* The embedder types bytes between two steps of the hart.
push_input(bytes) ==
    /\ Len(rx) + Len(bytes) <= MaxQueue
    /\ rx' = rx \o bytes
    /\ UNCHANGED <<tx, ier, dlab, divisor>>

has_input == rx # <<>>

Pop == IF has_input THEN Tail(rx) ELSE rx

\* The SBI console's read: one byte, whatever DLAB says.
take_input ==
    /\ rx' = Pop
    /\ UNCHANGED <<tx, ier, dlab, divisor>>

\* The bug of a line that ignores whether there is anything to read.
is_interrupting_always == ier # {}

is_interrupting == ("rx" \in ier /\ has_input) \/ "thr" \in ier

\* The value a read of RBR returns: 0 when nothing is queued.
RbrValue == IF dlab THEN divisor.low ELSE IF has_input THEN Head(rx) ELSE 0

\* Reading RBR consumes a byte unless DLAB shows the divisor instead; the
\* other registers read without effect.
ReadRbr ==
    /\ rx' = IF dlab THEN rx ELSE Pop
    /\ UNCHANGED <<tx, ier, dlab, divisor>>

putchar(byte) ==
    /\ Len(tx) < MaxQueue
    /\ tx' = Append(tx, byte)
    /\ UNCHANGED <<rx, ier, dlab, divisor>>

WriteThr(byte) ==
    \/ /\ dlab
       /\ divisor' = [divisor EXCEPT !.low = byte]
       /\ UNCHANGED <<rx, tx, ier, dlab>>
    \/ /\ ~ dlab
       /\ putchar(byte)

\* IER, or the high half of the divisor: byte is what the divisor would hold.
WriteIer(bits, byte) ==
    /\ IF dlab THEN divisor' = [divisor EXCEPT !.high = byte] /\ ier' = ier
               ELSE ier' = bits /\ divisor' = divisor
    /\ UNCHANGED <<rx, tx, dlab>>

WriteLcr(bit) ==
    /\ dlab' = bit
    /\ UNCHANGED <<rx, tx, ier, divisor>>

=============================================================================
