CONSTANTS
  c1 = c1
  c2 = c2
  BIGCOUNT = 4
  Client = {c1, c2}
  Jobs = {c1}
  Leavers = {c1}
  Asks = {"talk", "pipe"}
  MaxCmds <- TwiceC1
SPECIFICATION Spec
CONSTRAINT OneOrTwo
CHECK_DEADLOCK FALSE
INVARIANTS
  TypeOK
  OneReader
  AudienceOnce
  NobodySkipped
  WakeupOwed
  CountersTrackProcesses
  EverybodyBack
  OneCaller
  AnswerIsMine
  ReadsTheAnnouncement
  NoStrayToken
  DoorReopens
