SPECIFICATION Spec
CONSTANTS
  api = api  relay = relay  own = own
  Managers = {m1, m2}
  Profiles = {api, relay}
  Installed = {api, relay}
  Mode <- ModesAG
  Ops = {"switch", "bridge", "saveWorkspace"}
  None = None  Login = Login  NoAuth = NoAuth
  MaxTag = 0  MaxModel = 1  MaxFaults = 1  MaxCrashes = 0
CHECK_DEADLOCK FALSE
PROPERTIES SwitchTakesEffect OperationsEnd
