SPECIFICATION Spec
CONSTANTS
  l1 = l1  l2 = l2
  Launchers = {l1, l2}
  Systems <- MCSystems
  Occupants = {None, "stale", "program", "deaf"}
  Requested = Requested
  Limit <- MCLimit
  None = None
CHECK_DEADLOCK FALSE
INVARIANTS IInv
PROPERTIES  SomebodyLaunches PageIsServed
