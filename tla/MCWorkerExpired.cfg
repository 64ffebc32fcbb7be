SPECIFICATION Spec
CONSTANTS
  w1 = w1
  w2 = w2
  r1 = r1
  r2 = r2
  Nobody = Nobody
  Workers <- OneWorker
  Runs <- OneRun
  TTL = 2
  MaxFaults = 0
  MaxCrashes = 0
PROPERTY ExpiredLeaseMovesNothing
