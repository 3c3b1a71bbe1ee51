\* Any piece of what is on the line may be lost or have its first byte flipped.
SPECIFICATION Spec
CONSTANTS
  File <- OneChunk
  NumTries = 2
  Garbage <- FlagOrZero
  Modes = {"on", "off", "noise"}
  CableBuffer = 512
  Partial = TRUE
  MaxFaults = 1
  ReceiverFirst = TRUE
  Premature = FALSE
INVARIANTS
  SequenceBits
  CloseAgreement
\* A program that has lost part of a frame may wait for ever.
CHECK_DEADLOCK FALSE
