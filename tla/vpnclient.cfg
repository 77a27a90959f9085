SPECIFICATION FairSpec
CONSTANTS
  p1 = p1
  p2 = p2
  k1 = k1
  k2 = k2
  a4 = a4
  a6 = a6
  None = None
  Proc <- Procs
  Key <- Keys
  Countries = 2
  CountryOf <- Place
  MaxTries = 2
  V4 <- OneV4
  V6 <- OneV6
  Others <- OneOther
CHECK_DEADLOCK FALSE
INVARIANTS TypeOK ClaimAlone ClaimInUse UniqueUnlessRaced
PROPERTIES Promised AllocateAdvances AllocateEnds
