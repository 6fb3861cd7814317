SPECIFICATION Spec
CONSTANTS
  t1 = t1
  t2 = t2
  Tasks = {t1, t2}
  Deps <- Parallel
  MaxAttempts <- FirstTwice
  Nodes = {n1}
  NoNode = NoNode
  ReviewTasks = {t1}
  CorruptInputs = {}
  MaxCrashes = 1
  MaxFaults = 0
  MaxOrphans = 1
INVARIANTS
  NoLostUpdate
  OfferedIsAccepted
PROPERTIES
  RaisesAreKnown
