SPECIFICATION Spec
CONSTANTS
  Runs = {1, 2}
  Workers = {w1, w2}
  Users = {"alice"}
  Owner <- OneUser
  RetrySafe = {1}
  Container = {1}
  GlobalLimit = 2
  UserLimit = 1
  MaxStalls = 1
  MaxFaults = 2
  NoWorker = NoWorker
  NoRun = NoRun
SYMMETRY WorkerSymmetry
INVARIANTS
  TypeOK
  QueuedIsClaimable
  RowsAgree
  CancelledOnRequest
  NoReplay
  ConcurrencyCaps
  OneContainerUnlessStalled
PROPERTIES
  OutcomeIsFinal
  OutcomeFromHolder
