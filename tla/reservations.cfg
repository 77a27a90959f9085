SPECIFICATION Spec
CONSTANTS
  p1 = p1
  p2 = p2
  p3 = p3
  k1 = k1
  None = None
  Proc <- Procs
  Key <- Keys
  ReserveTTL = 2
  UnsuitableTTL = 6
  MaxClock = 8
SYMMETRY Symmetry
CHECK_DEADLOCK FALSE
INVARIANTS TypeOK ExclusiveUnlessLate
PROPERTY MarksLast
