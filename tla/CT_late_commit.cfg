SPECIFICATION Spec
CONSTANTS
  Rows = {1, 2, 3}
  Workers = {w1, w2}
  Limit = 1
  CommitsInOrder = FALSE
  NoWorker = NoWorker
  NoRow = NoRow
SYMMETRY WorkerSymmetry
INVARIANT CapHolds
