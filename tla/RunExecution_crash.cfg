SPECIFICATION Spec
CONSTANTS
  t1 = t1
  t2 = t2
  Tasks = {t1, t2}
  Deps <- Chain
  MaxAttempts <- FirstTwice
  Nodes = {n1}
  NoNode = NoNode
  ReviewTasks = {t2}
  CorruptInputs = {t2}
  MaxCrashes = 1
  MaxFaults = 1
  MaxOrphans = 1
INVARIANTS
  TypeOK
  DependenciesFirst
  AttemptsInTurn
PROPERTIES
  SuccessIsEarned
  CancelIsConfirmed
  EndedStaysEnded
  RunEndsOnce
  PauseHolds
