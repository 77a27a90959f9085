SPECIFICATION FairSpec
CONSTANTS
  p1 = p1
  p2 = p2
  None = None
  Proc <- Procs
  Busy <- JustP1
  MayFail <- SomeFail
  BridgeNF = FALSE
CHECK_DEADLOCK FALSE
INVARIANTS TypeOK NeverBusy FilterUp NoFallback
PROPERTIES TwoBarriers LifeCycle CreateEnds
