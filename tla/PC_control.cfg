SPECIFICATION FairSpec
CONSTANTS
  Gates = {g1, g2}
  Steps = {n1}
  Approvers = {w1, w2}
  Assistants = {w1}
  Stoppers = {s1}
  Decisions = {"approved"}
  MaxTogether = 1
  NoGate = NoGate
INVARIANTS
  TypeOK
  
  OneBatchAfterStop
PROPERTIES
  OutcomeSettled
  StopEndsRun
CHECK_DEADLOCK FALSE
