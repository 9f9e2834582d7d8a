SPECIFICATION FairSpec
CONSTANTS
  Runs = {1, 2}
  Turns = {1}
  RunOf <- OwnRun
  Deliverers = {web, w1}
  Sweepers = {w1}
  Window = 2
  MaxStalls = 1
  MaxFaults = 1
  NoRun = NoRun
  NoTurn = NoTurn
INVARIANTS
  TypeOK
  NotMarkedUnderDelivery
  ResumedOnceUnlessSlow
PROPERTIES
  EveryRunNotified
  ParkedInTimeWakes
CHECK_DEADLOCK FALSE
