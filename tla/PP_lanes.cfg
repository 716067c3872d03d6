SPECIFICATION Spec
CONSTANTS
  Order <- MCOrder
  Referenced <- MCReferenced
  Edits <- OneEdit
  Uses <- LaneUses
  MaxCalls = 2
  MaxForeign = 0
  Mortal = {"store", "activation"}
  None = None
PROPERTIES OperationsEnd
CHECK_DEADLOCK FALSE
