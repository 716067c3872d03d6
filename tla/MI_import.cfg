SPECIFICATION Spec
CONSTANTS
  a = a  b = b  p1 = p1  p2 = p2  p3 = p3
  Procs = {p1, p2, p3}
  Links = {a, b}
  Arg <- ThreeStart
  Identity <- Same
  Preferred = Preferred
  Limit <- TwoClicks
  None = None
SYMMETRY Exchange
CHECK_DEADLOCK FALSE
INVARIANTS HandoverInv ShownIsPending  OnlyApproved
