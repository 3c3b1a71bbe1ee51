SPECIFICATION OlderFairSpec
CONSTANTS
  Requests <- ShortPaths
  File <- TwoParts
  Refusals <- AnyRefusal
  Greetings <- Long
  PassReplies <- Banner
  Faults = {"abort", "close"}
  Cuts = "anywhere"
INVARIANTS
  LoginStillNeeded
  PrintsFile
  OlderParsesExactly
PROPERTIES
  EndsOnceGreeted
