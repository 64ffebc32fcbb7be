SPECIFICATION HostSpec
CONSTANTS
  Installers = {"a", "b"}
  Planned = {"claude", "codex"}
  Requests <- MCRequests
  Chain <- MCChain
  Dirs <- MCDirs
  Script <- MCScript
  Data = "Data"
  LockPath = "Lock"
  DocPath = "Doc"
  Hosts <- MCHosts
  MaxFaults = 1
  Clients = {"c1", "c2"}
  Asked <- MCAsked
  Configured = {"github"}
  SuccessTtl = 2
  FailureTtl = 1
  Timeout = 1
  MaxClock = 3
  MaxAsked = 3
  Commands = {"x", "y", "z", "u", "v"}
  Target <- MCTarget
  Reviewed = {"github", "lark"}
  Environment <- MCEnvironment
  MaxBreaks = 1
INVARIANTS
  CacheIsFresh
  CleanFailure
  SoleInstaller
  CompletedIsRecorded
PROPERTIES
  RecordsSurvive
  EverythingEnds
  DamageIsNotOverwritten
CHECK_DEADLOCK FALSE
