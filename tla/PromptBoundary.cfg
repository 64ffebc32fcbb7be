SPECIFICATION FairSpec
CONSTANTS
  Runs = {r1, r2}
  Capacity = 1
  TTL = 1
  MaxTime = 2
  MaxBack = 1
  MaxFaults = 1
  MaxCrashes = 1
INVARIANTS
  NoObservationGap
  RefusedNeverClaimed
  DeliveredOnce
PROPERTIES
  QueueDrains
