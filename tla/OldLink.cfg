\* Part of a frame, or a frame or an answer, is lost once.
SPECIFICATION FairSpec
CONSTANTS
  Messages <- TwoMessages
  Garbage <- Telling
  Calls = 2
  StaleBytes = 2
  Modes = {"on", "off"}
  CableBuffer = 512
  Partial = TRUE
  MaxFaults = 1
INVARIANTS
  InOrder
PROPERTIES
  Undisturbed
\* Once something is lost the programs may wait for each other for ever.
CHECK_DEADLOCK FALSE
