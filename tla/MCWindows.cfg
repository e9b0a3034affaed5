SPECIFICATION Spec
CONSTANTS
  w1 = w1
  w2 = w2
  Window <- MCWindow
  Loads <- MCLoads
  Heights = {1, 5}
  MessageLines <- MCMessageLines
  MIN_FREE_LINES = 3
  MaxQueue = 1
  MaxProxy = 1
  MaxFrames = 1
  unfocused_hollow = TRUE
INVARIANTS FrameReturns
CHECK_DEADLOCK FALSE
PROPERTIES ChangesDrawn LayoutSettles
