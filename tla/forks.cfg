CONSTANTS
  max_fork_num = 1
  MaxForks = 4
SPECIFICATION FairSpec
CHECK_DEADLOCK FALSE
INVARIANTS TypeOK CountDrifts InputsClosed
PROPERTY GoesOn
