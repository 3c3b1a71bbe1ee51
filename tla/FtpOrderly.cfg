SPECIFICATION FairSpec
CONSTANTS
  Requests <- AllRequests
  File <- TwoParts
  Refusals <- NoSuchFile
  Greetings <- Long
  PassReplies <- OneLine
  Faults = {}
  Cuts = "line"
INVARIANTS
  ParsesExactly
PROPERTIES
  ImplementsDownload
  InStep
  EndsWell
