SPECIFICATION FairSpec
CONSTANTS
  p1 = p1
  p2 = p2
  p3 = p3
  r1 = r1
  None = None
  Absent = Absent
  Torn = Torn
  Proc <- Procs
  Record <- Records
CHECK_DEADLOCK FALSE
INVARIANT TypeOK
PROPERTIES OneStepEach UnremovedStay PersistEnds
