SPECIFICATION FairSpec
CONSTANTS
  Runs = {1}
  Workers = {w1, w2}
  Users = {"alice"}
  Owner <- OneUser
  RetrySafe = {1}
  Container = {1}
  GlobalLimit = 1
  UserLimit = 1
  MaxStalls = 1
  MaxFaults = 2
  NoWorker = NoWorker
  NoRun = NoRun
PROPERTIES
  KeepsPromise
  EveryRunFinishes
