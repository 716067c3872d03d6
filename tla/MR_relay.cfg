SPECIFICATION Spec
CONSTANTS
  h1 = h1  h2 = h2  c1 = c1  c2 = c2
  room = room  key = key  otherKey = otherKey
  Conns = {h1, h2, c1, c2}
  Rooms = {room}
  Tokens = {key, otherKey}
  RoleOf <- MCRole
  RoomOf <- MCRoom
  TokenOf <- MCToken
  Says <- MCSays
  Lossy = {c1}
  None = None  Registered = Registered  Close = Close
CHECK_DEADLOCK FALSE
INVARIANTS StreamInv UnreplacedKeepsItsPlace HeardInOrder
PROPERTIES ReplacedLeaves
