\* Whole reads are lost while the cable is off, and answers may be late.
SPECIFICATION FairSpec
CONSTANTS
  File <- OneChunk
  NumTries = 2
  Garbage <- FlagOrZero
  Modes = {"on", "off"}
  CableBuffer = 512
  Partial = FALSE
  MaxFaults = 3
  ReceiverFirst = FALSE
  Premature = TRUE
INVARIANTS
  AckedWhileAlive
PROPERTIES
  ImplementsTransfer
  WriteReturns
\* The handshake and the disconnection wait for ever when a frame is lost.
CHECK_DEADLOCK FALSE
