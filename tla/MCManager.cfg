SPECIFICATION Spec
CONSTANTS
  p1 = p1
  p2 = p2
  t1 = t1
  t2 = t2
  j1 = j1
  j2 = j2
  Profile = {p1, p2}
  MaxSessions = 3
  Task = {t1, t2}
  NoSession = NoSession
  Name = {"x", "y"}
  Job = {j1, j2}
  Loads <- MCLoads
SYMMETRY MCSymmetry
INVARIANTS
  SessionsBacked
  PtysOwned
  ExitIsOwn
  SavedKept
  
CHECK_DEADLOCK FALSE
