SPECIFICATION Spec
CONSTANTS
  Rows = {1, 2, 3, 4}
  Workers = {w1, w2, w3}
  Limit = 2
  CommitsInOrder = TRUE
  NoWorker = NoWorker
  NoRow = NoRow
SYMMETRY WorkerSymmetry
INVARIANTS
  TypeOK
  OneDecides
 
