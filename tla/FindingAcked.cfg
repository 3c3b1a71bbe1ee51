\* One read of the cable is lost; answers are never late.
SPECIFICATION Spec
CONSTANTS
  File <- OneChunk
  NumTries = 3
  Garbage <- FlagOrZero
  Modes = {"on", "off"}
  CableBuffer = 512
  Partial = FALSE
  MaxFaults = 1
  ReceiverFirst = TRUE
  Premature = FALSE
INVARIANT AckedIsAccepted
CHECK_DEADLOCK FALSE
