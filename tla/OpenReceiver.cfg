\* Any stream of the bytes the protocol knows.
SPECIFICATION Spec
CONSTANTS
  Garbage <- FlagOrZero
  Alphabet <- ProtocolBytes
  MaxBody = 2
  MaxAccepted = 2
CONSTRAINT Bounded
INVARIANTS
  AcceptedSound
  BitCountsAccepted
PROPERTY RRNumbersAccepted
\* The process may have ended.
CHECK_DEADLOCK FALSE
