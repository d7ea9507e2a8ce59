CONSTANTS
  BIGCOUNT = 9
  s1 = s1
  s2 = s2
  c1 = c1
  c2 = c2
  Key = {"clisem", "clienting", "call_system", "serving"}
  Server = {s1}
  Client = {c1, c2}
  Kills = {}
SPECIFICATION Spec
CONSTRAINT ShellsGoOn
INVARIANTS CleanEnd
SYMMETRY Clients
CHECK_DEADLOCK FALSE
