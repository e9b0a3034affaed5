CONSTANTS
  Heights = {1, 2, 3}
  Histories = {0, 1, 2}
  PrivateModes <- MCPrivateModes
  KeyboardModes <- MCKeyboardModes
  Titles = {"a"}
  KEYBOARD_MODE_STACK_MAX_DEPTH = 2
  TITLE_STACK_MAX_DEPTH = 1
  MaxStack = 3
  TermLoads <- MCLoads
SPECIFICATION Spec
INVARIANTS
  HistoryIsPrimary
  ScreensAgree
PROPERTIES
  ViCursorKept
  KeyboardModeLoaded
CHECK_DEADLOCK FALSE
