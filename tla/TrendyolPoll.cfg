\* Pages of one question, at most three of them; clocks that differ by a tick.
CONSTANTS
  Questions = {1, 2, 3, 4}
  PageSize = 1
  MaxPages = 3
  Overlap = 1
  Window = 3
  Skew = 1
  MaxTime = 6
  MaxChanges = 5
  MaxFailures = 1
  None = None
SPECIFICATION FairSpec
INVARIANT TypeOK CursorSafe
PROPERTY QuestionsArrive
