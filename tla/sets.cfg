CONSTANTS
  BIGCOUNT = 9
  s1 = s1
  s2 = s2
  c1 = c1
  c2 = c2
  Key = {"clisem", "clienting", "call_system"}
  Server = {s1, s2}
  Client = {c1}
  Kills = {s1}
SPECIFICATION Spec
INVARIANTS SetsSound NotUnderAnyone CleanEnd
CHECK_DEADLOCK FALSE
