CONSTANTS
  c1 = c1
  c2 = c2
  BIGCOUNT = 4
  Client = {c1, c2}
  Jobs = {}
  Leavers = {}
  Asks = {"talk"}
  MaxCmds <- Nobody
SPECIFICATION FairSpec
CHECK_DEADLOCK FALSE
PROPERTIES
  ImplementsBulletin
  Answered
