SPECIFICATION Spec
CONSTANTS
  Runs = {1}
  Workers = {w1, w2}
  Users = {"alice"}
  Owner <- OneUser
  RetrySafe = {1}
  Container = {1}
  GlobalLimit = 1
  UserLimit = 1
  MaxStalls = 1
  MaxFaults = 0
  NoWorker = NoWorker
  NoRun = NoRun

INVARIANT OneContainer
