CONSTANTS
  INITIAL_TABSTOPS = 2
  Loads <- Screens
  WindowLines = 3
  WindowColumns = 3
  CellSize = 2
  Padding = 1
  HistoryLines = 1
  Frames <- Events
SPECIFICATION Spec
INVARIANTS  FrameShown
