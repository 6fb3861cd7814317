SPECIFICATION FairSpec
CONSTANTS
  t1 = t1
  t2 = t2
  Tasks = {t1, t2}
  Deps <- Chain
  MaxAttempts <- FirstTwice
  Nodes = {n1}
  NoNode = NoNode
  ReviewTasks = {}
  CorruptInputs = {}
  MaxCrashes = 0
  MaxFaults = 1
  MaxOrphans = 1
PROPERTIES
  CancelSettles
  RunSettles
