SPECIFICATION Spec
CONSTANTS
  t1 = t1
  t2 = t2
  Tasks = {t1, t2}
  Deps <- Parallel
  MaxAttempts <- FirstTwice
  Nodes = {n1}
  NoNode = NoNode
  ReviewTasks = {t1}
  CorruptInputs = {}
  MaxCrashes = 0
  MaxFaults = 1
  MaxOrphans = 1
PROPERTIES
  VerifiedSuccessKept
