SPECIFICATION IrqSpec
CONSTANTS
  DIAG_BUS_TXRDY = DIAG_BUS_TXRDY
  CONSOLE_RXRDY = CONSOLE_RXRDY
  MODEM_RXRDY = MODEM_RXRDY
  REQUEST_FIFO = REQUEST_FIFO
  PIT = PIT
  None = None
  Vectors <- MCVectors
  level <- MCLevel
  priority <- MCPriority
  MaxRaise = 4
INVARIANTS HeadIsBest
PROPERTIES LineFollows
CHECK_DEADLOCK FALSE
