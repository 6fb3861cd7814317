SPECIFICATION Spec
CONSTANTS
  a1 = a1
  a2 = a2
  here = here
  there = there
  gpu = gpu
  Nodes = {here, there}
  Local = {here}
  Direct = {here}
  Labels = {gpu}
  Attempts = {a1, a2}
  None = None
  Offers <- EveryLabel
  PolicyOf <- FirstOrFixed
  Settings <- RoomierOrFull
  MaxEdits = 1
  MaxDiagnoses = 1
  MaxExits = 1
  MaxStops = 1
INVARIANTS
  PoolTypeOK
  ClientFollowsRow
  ReadyIsDispatchable
  ClientHasItsTunnel
  NothingHeldAfterRelease
  ProcessesAreKnown
PROPERTIES
  CapacityKept
CHECK_DEADLOCK FALSE
