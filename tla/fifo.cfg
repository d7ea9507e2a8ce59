CONSTANTS
  u1 = u1
  u2 = u2
  User = {u1, u2}
  Leavers = {u1}
  Sends <- BackAndForth
  Stale = {1}
  MaxPipes = 2
SPECIFICATION Spec
INVARIANTS EndsMeet FileRemoved
CHECK_DEADLOCK FALSE
