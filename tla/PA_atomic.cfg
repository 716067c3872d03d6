SPECIFICATION Spec
CONSTANTS
  api = api  relay = relay  own = own
  Managers = {m1}
  Profiles = {api, relay}
  Installed = {relay}
  Mode <- ModesAB
  Ops = {"switch", "saveLive", "import", "importCcs", "backfill", "saveWorkspace", "saveTarget"}
  None = None  Login = Login  NoAuth = NoAuth
  MaxTag = 1  MaxModel = 0  MaxFaults = 1  MaxCrashes = 0
CHECK_DEADLOCK FALSE
 
PROPERTIES OperationsAreAtomic
