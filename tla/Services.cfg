SPECIFICATION Spec
CONSTANTS
  h1 = h1
  h2 = h2
  r1 = r1
  r2 = r2
  c1 = c1
  c2 = c2
  c3 = c3
  c4 = c4
  first = first
  retry = retry
  Profiles = {m1}
  Endpoints = {e1, e2}
  Planner = planner_config
  Nothing = nothing
  MaxChanges = 2
  Extras = {extra}
  MaxWorkflows = 2
  MaxPlans = 2
  LastVersion = 2
  Secrets = {k1, k2}
  MaxBreaks = 2
  Threshold = 3
  MaxRestarts = 1
  MaxFaults = 2
  Runs = {r1, r2}
  Watched = r1
  Tickets = {t1, t2, t3}
  PageSize = 2
  MaxEvents = 4
  MaxDrops = 2
  Collections = {c1, c2, c3, c4}
  Collected <- OfAttempts
  Chunks = 2
  NoFile = no_file
  Hosts = {h1, h2}
  Machine = h1
  HostKeys = {key1, key2}
  Jobs = {j1, j2}
  NodeTokens = {old, new}
  MaxMishaps = 1
INVARIANTS
  ServicesTypeOK
  VersionsInOrder
  PlannedByChosen
  RunsAsConfirmed
  SecretsKept
  OneCoordinator
  TicketOpensOnce
  CommittedStaysWhole
  TrustIsConfirmed
PROPERTIES
  CompletedMeansServing
  ComesUp
  CoordinatorComesBack
  StreamImplements
  ClientCatchesUp
CHECK_DEADLOCK FALSE
