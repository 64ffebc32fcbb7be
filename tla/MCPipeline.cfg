SPECIFICATION FairSpec
CONSTANTS
  Execs = {e1, e2}
  Callers = {c1}
  Nobody = Nobody
  Main = e1
  Outputs <- MCOutputs
  Tasks <- MCTasks
  MaxOutput = 3
  MaxEntries = 3
  MaxFiles = 2
  Attempts = 2
  Leftovers = {1}
  MaxFaults = 1
  Providers = {"claude", "codex", "pi", "opencode"}
  MaxEvents = 3
INVARIANTS
  CancelIsNotMistaken
  NothingLeftBehind
  
  SucceededIsProven
  NoRunLeftOpen
PROPERTIES
  RunReturns
CHECK_DEADLOCK FALSE
