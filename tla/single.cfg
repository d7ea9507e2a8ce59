CONSTANTS
  Conn = {k1, k2, k3}
  Name = {n1}
  NoName = NoName
  MaxUserNum = 2
  MaxFd = 4
  MaxLines = 2
  Ahead = 1
SPECIFICATION Spec
CHECK_DEADLOCK FALSE
INVARIANTS TableSound OwnLines NoneLost
SYMMETRY Interchangeable
