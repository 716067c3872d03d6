SPECIFICATION Spec
CONSTANTS
  api = api  relay = relay  own = own
  Managers = {m1}
  Profiles = {api, own}
  Installed = {api, own}
  Mode <- ModesAO
  Ops = {"switch", "apply", "clear", "codex"}
  None = None  Login = Login  NoAuth = NoAuth
  MaxTag = 1  MaxModel = 0  MaxFaults = 2  MaxCrashes = 1
CHECK_DEADLOCK FALSE
INVARIANTS  ProfilesKeepTheirProvider LiveBelongsToActive
PROPERTIES FailureLeavesNoTrace 
