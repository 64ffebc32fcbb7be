SPECIFICATION FairSpec
CONSTANTS
  Actions = {a1}
  Clients = {c1, c2}
  MaxFaults = 1
  MaxHangups = 1
  MaxCrashes = 2
PROPERTIES
  ImplementsContract
  EveryCallSettles
