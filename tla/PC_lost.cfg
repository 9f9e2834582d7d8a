SPECIFICATION Spec
CONSTANTS
  Gates = {g1, g2}
  Steps = {}
  Approvers = {w1}
  Assistants = {}
  Stoppers = {}
  Decisions = {"approved", "rejected"}
  MaxTogether = 2
  NoGate = NoGate
INVARIANT RecordedStays
CHECK_DEADLOCK FALSE
