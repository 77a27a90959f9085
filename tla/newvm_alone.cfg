SPECIFICATION FairSpec
CONSTANTS
  p1 = p1
  p2 = p2
  k1 = k1
  k2 = k2
  a1 = a1
  a2 = a2
  None = None
  Proc <- JustP1
  Key <- TwoKeys
  IP <- OneIP
  MaxAttempts = 2
  Interruptible <- JustP1
  Crashable <- JustP1
  MayFail = {"stop", "status", "rootfs", "secrets"}
CHECK_DEADLOCK FALSE
INVARIANTS CleanExit StoppedAtVerify FreshMachine
PROPERTIES SetupAdvances SetupEnds InterruptEnds
