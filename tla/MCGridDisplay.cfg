CONSTANTS
  MAX_CACHE_SIZE = 1
  Text = {"a"}
  MaxLines = 3
  HistoryLimits = {0, 2}
SPECIFICATION Spec
INVARIANTS
  DisplayWithinHistory
