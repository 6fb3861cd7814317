SPECIFICATION Spec
CONSTANTS
  t1 = t1
  t2 = t2
  Tasks = {t1, t2}
  Deps <- Chain
  MaxAttempts <- Once
  Nodes = {n1, n2}
  NoNode = NoNode
  ReviewTasks = {}
  CorruptInputs = {}
  MaxCrashes = 0
  MaxFaults = 1
  MaxOrphans = 1
INVARIANTS
  OneRemoteTaskPerKey
