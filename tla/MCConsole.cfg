SPECIFICATION ConSpec
CONSTANTS
  duart = duart
  cli = cli
  con = con
  Getters = {duart, cli, con}
  Loops = {duart, con}
  Want <- MCWant
  ChunkLens = {1, 2, 3}
  MaxBytes = 4
  Cmds <- MCCmds
  MaxTx = 2
  MaxCmds = 3
INVARIANTS InOrder ConsoleIn ConsoleOut
PROPERTIES AllGot TxGoesOn
CHECK_DEADLOCK FALSE
