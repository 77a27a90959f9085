SPECIFICATION Spec
CONSTANTS
  p1 = p1
  p2 = p2
  k1 = k1
  k2 = k2
  a1 = a1
  a2 = a2
  None = None
  Proc <- JustP1
  Key <- TwoKeys
  IP <- OneIP
  MaxAttempts = 1
  Interruptible <- JustP1
  Crashable <- Nobody
  MayFail = {}
CHECK_DEADLOCK FALSE
INVARIANT FullTeardown
