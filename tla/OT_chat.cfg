SPECIFICATION FairSpec
CONSTANTS
  Turns = {1, 2}
  Proposing = {1}
  Sockets = {s1}
  Requests = {q1}
  NoTurn = NoTurn
  NoTask = NoTask
  MaxIterations = 2
  MaxCrashes = 1
INVARIANTS
  TypeOK
  OneDialog
  ExecutedOnce
  ToldWhatHappened
PROPERTIES
  TurnsSettle
