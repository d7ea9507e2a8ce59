CONSTANTS
  Conn = {k1, k2}
  Name = {n1}
  NoName = NoName
  MaxUserNum = 2
  MaxFd = 6
  MaxLines = 2
  Ahead = 2
SPECIFICATION FairSpec
CHECK_DEADLOCK FALSE
PROPERTY LineRead
