\* A line may be empty, fill the buffer, or be longer than it.
SPECIFICATION FairSpec
CONSTANTS
  BufferSize = 2
  Lengths = {1, 2, 3}
  MaxLines = 4
INVARIANTS
  InputAvailable
PROPERTIES
  ReadsLines
  EndsUnlessDelayed
\* Both programs end, and asynchronous.c may wait for a line that never comes.
CHECK_DEADLOCK FALSE
