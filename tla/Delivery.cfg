\* Every chunk of up to three bytes, and the end message.
SPECIFICATION Spec
CONSTANTS
  Garbage <- FlagOrZero
  Payloads <- ShortPayloads
INVARIANT ExactlyUnflagged
\* Nothing more arrives after the frame.
CHECK_DEADLOCK FALSE
