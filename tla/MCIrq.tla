------------------------------- MODULE MCIrq -------------------------------
(***************************************************************************)
(* Irq with five entries of INTERRUPT_TABLE (Iop/iop.h): two of one        *)
(* priority, both levels, and level 1 vectors that sort before level 6.    *)
(***************************************************************************)
EXTENDS Irq

CONSTANTS
  DIAG_BUS_TXRDY, CONSOLE_RXRDY, MODEM_RXRDY, REQUEST_FIFO, PIT

MCVectors ==
  {DIAG_BUS_TXRDY, CONSOLE_RXRDY, MODEM_RXRDY, REQUEST_FIFO, PIT}

L67 == 6

MCLevel ==
  [v \in MCVectors |-> IF v \in {CONSOLE_RXRDY, MODEM_RXRDY} THEN L67 ELSE 1]

MCPriority ==
  [v \in MCVectors |->
     CASE v = DIAG_BUS_TXRDY -> 328                          \* 0x148
       [] v = CONSOLE_RXRDY -> 1605                          \* 0x645
       [] v = PIT -> 335                                      \* 0x14f
       [] OTHER -> 1606]                                     \* 0x646
=============================================================================
