SPECIFICATION Spec
CONSTANTS
  p1 = p1
  p2 = p2
  k1 = k1
  k2 = k2
  a1 = a1
  a2 = a2
  None = None
  Proc <- Both
  Key <- TwoKeys
  IP <- TwoIPs
  MaxAttempts = 1
  Interruptible <- Nobody
  Crashable <- Both
  MayFail = {"stop"}
CHECK_DEADLOCK FALSE
SYMMETRY SafetySymmetry
INVARIANTS TypeOK FailClosed DuplicateOnlyIfRaced CleanExit LiveRecorded
PROPERTIES RecordKept Promised
