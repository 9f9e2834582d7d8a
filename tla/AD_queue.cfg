SPECIFICATION FairSpec
CONSTANTS
  Runs = {r1}
  Workers = {w1, w2}
  Operators = {o1}
  NoRun = NoRun
  MaxCrashes = 1
  MaxStalls = 1
  MaxReplies = 2
INVARIANTS
  TypeOK
  OneWorkerUnlessStalled
  StoppedNotStarted
PROPERTIES
  NotRunAgain
  EveryRunEnds
CHECK_DEADLOCK FALSE
