\* One read of the cable is lost.
SPECIFICATION FairSpec
CONSTANTS
  File <- OneChunk
  NumTries = 3
  Garbage <- FlagOrZero
  Modes = {"on", "off"}
  CableBuffer = 512
  Partial = FALSE
  MaxFaults = 1
  ReceiverFirst = TRUE
  Premature = FALSE
PROPERTY PenguinArrives
CHECK_DEADLOCK FALSE
