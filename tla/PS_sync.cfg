SPECIFICATION Spec
CONSTANTS
  openai = openai  relay = relay  f1 = f1  f2 = f2  legacy = legacy  current = current
  Syncs = {launcher, manager}
  Files = {f1, f2}
  Dbs = {legacy, current}
  Providers = {openai, relay}
  Homes <- MCHomes
  None = None
  KeepCount = 1
  MaxEvents = 1  MaxRuns = 2  MaxFaults = 1  MaxCrashes = 1
CHECK_DEADLOCK FALSE
INVARIANTS SyncInv ChangesAreBackedUp 
PROPERTIES LaterFailureRestores SyncedMeansAligned SyncEnds
