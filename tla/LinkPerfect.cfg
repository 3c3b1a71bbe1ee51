\* A cable that is never disturbed, read in pieces of any size.
SPECIFICATION FairSpec
CONSTANTS
  File <- TwoChunks
  NumTries = 3
  Garbage <- FlagOrZero
  Modes = {"on"}
  CableBuffer = 512
  Partial = TRUE
  MaxFaults = 0
  ReceiverFirst = TRUE
  Premature = FALSE
INVARIANTS
  TypeOK
  StopAndWait
PROPERTIES
  ImplementsTransfer
  Completes
