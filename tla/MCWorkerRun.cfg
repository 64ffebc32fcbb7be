SPECIFICATION FairSpec
CONSTANTS
  w1 = w1
  w2 = w2
  r1 = r1
  r2 = r2
  Nobody = Nobody
  Workers <- TwoWorkers
  Runs <- OneRun
  TTL = 2
  MaxFaults = 1
  MaxCrashes = 1
INVARIANT ReportedEndIsReal
INVARIANT SuccessIsBacked
PROPERTY ExecutedOnce
PROPERTY EarlyCancelPreventsStart
PROPERTY EveryRunEnds
