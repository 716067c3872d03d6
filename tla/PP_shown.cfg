SPECIFICATION Spec
CONSTANTS
  Order <- MCOrder
  Referenced <- MCReferenced
  Edits <- OneEdit
  Uses <- LaneUses
  MaxCalls = 3
  MaxForeign = 0
  Mortal = {}
  None = None
INVARIANTS ShownIsStored
CHECK_DEADLOCK FALSE
