SPECIFICATION FairSpec
CONSTANTS
  release = release
  approval = approval
  accounting = accounting
  NoEvent = NoEvent
  Events = {release, approval}
  Transactional = {release}
  Destinations = {accounting}
  DestinationOf <- MCDestinationOf
  Workers = {w1, w2}
  MaxVersion = 2
  MaxAttempts = 2
  AttemptCap = 1
  MaxInterventions = 1
  LateWorkers = FALSE
INVARIANTS TypeOK ExclusiveClaim ClaimSnapshotFresh CompletedWasApplied RetryBudget
PROPERTIES CompletedImmutable ImplementsDelivery 
CHECK_DEADLOCK FALSE
