SPECIFICATION FairSpec
CONSTANTS
  HasInputs = TRUE
  Reviewed = FALSE
  MaxCrashes = 2
INVARIANTS
  TypeOK
  OneExecution
  CancelledIsStopped
  SuccessDelivered
PROPERTIES
  KeepsProtocol
  RunningEnds
