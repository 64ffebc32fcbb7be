SPECIFICATION Spec
CONSTANTS
  Actions = {a1}
  Clients = {c1}
  MaxFaults = 0
  MaxHangups = 0
  MaxCrashes = 1
INVARIANTS
  CrashIsReportedUncertain
