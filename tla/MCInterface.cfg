SPECIFICATION Spec
CONSTANTS
  Rows = 3
  Limits = {0, 2}
  MaxRows = 5
  Text <- MCText
  Chars = {"a", "b", "("}
  MaxRegex = 1
  MaxDelta = 1
  Loads <- MCLoads
  MAX_SEARCH_HISTORY_SIZE = 2
  MAX_SEARCH_WHILE_TYPING = 1
  Lines = 2
  Columns = 1
  History = 1
  Finger = {f1, f2}
  TouchPlaces <- MCTouchPlaces
  MaxMessages = 1
  PointerLoads <- MCPointerLoads
  Alphabets <- MCAlphabets
  MaxMatches = 5
  Keys <- MCKeys
  Modifiers <- MCModifiers
  Modes <- MCModes
INVARIANTS CancelRestores   LabelsPick KeysTold
CHECK_DEADLOCK FALSE
