SPECIFICATION Spec
CONSTANTS
  Order <- MCOrder
  Referenced <- MCReferenced
  Edits <- OneEdit
  Uses <- PageUses
  MaxCalls = 3
  MaxForeign = 1
  Mortal = {}
  None = None
INVARIANTS PageInv
PROPERTIES EditsAreSafeWhenIdle NothingForeignIsLost
CHECK_DEADLOCK FALSE
