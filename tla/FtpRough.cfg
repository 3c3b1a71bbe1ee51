SPECIFICATION Spec
CONSTANTS
  Requests <- InDirectory
  File <- TwoParts
  Refusals <- AnyRefusal
  Greetings <- Long
  PassReplies <- Banner
  Faults = {"abort", "close", "open"}
  Cuts = "anywhere"
INVARIANTS
  SessionFits
  SavedPrefix
