------------------------------ MODULE Console ------------------------------
(***************************************************************************)
(* The whole path of a typed byte: UART line, PLIC, mip, trap, and the     *)
(* guest's driver that claims the interrupt, reads while the line status   *)
(* says data is ready, completes and returns (the end-to-end test of       *)
(* emu/tests/devices.rs).  The same guest also polls the SBI console with  *)
(* interrupts masked.  Every driver step is one hart step of module Board, *)
(* and input may be typed between any two.                                 *)
(***************************************************************************)
EXTENDS Board

CONSTANTS
    Context,        \* the PLIC context the driver serves
    MaxTyped        \* bound on the bytes typed

ASSUME ConsoleAssumption == Context \in CONTEXTS /\ MaxTyped \in Nat /\ MaxTyped <= MaxQueue

VARIABLES
    at,             \* where the guest is
    received        \* every byte the guest got

driverVars == <<vars, at, received>>

Setup == {"priority", "enable", "ier"}
Handler == {"claim", "status", "read", "complete", "return"}

\* pending_interrupt sees the bit and the guest runs with interrupts on.
Interrupted == at = "main" /\ ExtBit(Context) \in mip

Idle == received' = received

-----------------------------------------------------------------------------
(* The driver's device accesses *)

SetUp ==
    /\ \/ /\ at = "priority" /\ at' = "enable"
          /\ Touches("plic") /\ WritePriority(UART_IRQ, 1) /\ UNCHANGED uartVars
       \/ /\ at = "enable" /\ at' = "ier"
          /\ Touches("plic") /\ WriteEnable(Context, {UART_IRQ}) /\ UNCHANGED uartVars
       \/ /\ at = "ier" /\ at' = "main"
          /\ Touches("uart") /\ WriteIer({"rx"}, 0) /\ UNCHANGED plicVars
    /\ UNCHANGED clintVars /\ Idle

TakeInterrupt ==
    /\ Interrupted
    /\ OtherInstruction
    /\ at' = "claim" /\ Idle

HandlerClaim ==
    /\ at = "claim"
    /\ Touches("plic") /\ claim(Context) /\ UNCHANGED <<uartVars, clintVars>>
    /\ at' = IF best(Context) = UART_IRQ THEN "status" ELSE "return"
    /\ Idle

\* The line status register: bit 0 is data ready.
HandlerStatus ==
    /\ at = "status"
    /\ OtherAccess
    /\ at' = IF has_input THEN "read" ELSE "complete"
    /\ Idle

HandlerRead ==
    /\ at = "read"
    /\ UartReadRbr
    /\ received' = Append(received, RbrValue)
    /\ at' = "status"

HandlerComplete ==
    /\ at = "complete"
    /\ Touches("plic") /\ complete(UART_IRQ) /\ UNCHANGED <<uartVars, clintVars>>
    /\ at' = "return" /\ Idle

HandlerReturn == at = "return" /\ OtherInstruction /\ at' = "main" /\ Idle

-----------------------------------------------------------------------------
(* The interrupted program *)

MainRuns ==
    /\ at = "main" /\ ~ Interrupted
    /\ OtherInstruction
    /\ at' \in {"main", "masked"} /\ Idle

MaskedGetchar ==
    /\ at = "masked"
    /\ SbiGetchar
    /\ received' = IF has_input THEN Append(received, Head(rx)) ELSE received
    /\ at' = "main"

Type ==
    /\ Len(received) + Len(rx) < MaxTyped
    /\ PushInput
    /\ UNCHANGED <<at, received>>

DriverInit == Init /\ at = "priority" /\ received = <<>>

Guest ==
    \/ SetUp \/ TakeInterrupt \/ HandlerClaim \/ HandlerStatus \/ HandlerRead
    \/ HandlerComplete \/ HandlerReturn \/ MainRuns \/ MaskedGetchar

Tick == tick_timer /\ UNCHANGED <<at, received>>

DriverNext == Tick \/ Guest \/ Type

\* run() steps for ever; nobody promises to type.
DriverSpec ==
    /\ DriverInit /\ [][DriverNext]_driverVars
    /\ WF_driverVars(Tick) /\ WF_driverVars(Guest)

-----------------------------------------------------------------------------
(* Properties *)

Line == INSTANCE Channel WITH Messages <- Bytes, queue <- rx, delivered <- received

\* The console is a channel: every byte typed reaches the guest once, in order
\* and eventually, whether the interrupt handler or a masked SBI poll gets it,
\* and however the sweep, the dirty flag and the claim interleave
\* (uart.rs read and take_input, cpu.rs tick_timer, plic.rs complete).
ConsoleIsChannel == Line!Spec

\* No interrupt storm: the interrupted program runs again and again, stale
\* bits after a masked poll included (cpu.rs tick_timer).
NoStorm == []<>(at \in {"main", "masked"} /\ phase = "exec" /\ ~ Interrupted)

=============================================================================
