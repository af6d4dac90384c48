SPECIFICATION Spec
CONSTANTS
  Board = 3
  Pin1 = 207
  Pin2 = 255
  Pin3 = 134
  ProgMem <- P8052AH_9028
  Programs <- MCPrograms
  Targets <- MCTargets
  Tells <- MCTells
  Octets <- MCOctets
  MaxCommands = 2
INVARIANTS BytesTaken Arithmetic
PROPERTIES Transparent DownloadWhole WaitMeansDone UploadWhole Answered
