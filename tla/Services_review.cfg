SPECIFICATION Spec
CONSTANTS
  h1 = h1
  h2 = h2
  r1 = r1
  r2 = r2
  c1 = c1
  c2 = c2
  c3 = c3
  c4 = c4
  first = first
  retry = retry
  Profiles = {m1, m2}
  Endpoints = {e1, e2}
  Planner = planner_config
  Nothing = nothing
  MaxChanges = 2
  Extras = {as_shown, edited}
  MaxWorkflows = 1
  MaxPlans = 1
  LastVersion = 2
  Secrets = {k1, k2}
  MaxBreaks = 2
  Threshold = 3
  MaxRestarts = 1
  MaxFaults = 2
  Runs = {r1, r2}
  Watched = r1
  Tickets = {t1, t2, t3}
  PageSize = 2
  MaxEvents = 4
  MaxDrops = 1
  Collections = {c1, c2, c3}
  Collected <- OfAttempts
  Chunks = 2
  NoFile = no_file
  Hosts = {h1, h2}
  Machine = h1
  HostKeys = {key1, key2}
  Jobs = {j1, j2}
  NodeTokens = {old, new}
  MaxMishaps = 1
INVARIANT
  ReviewedAsShown
CHECK_DEADLOCK FALSE
