SPECIFICATION FairSpec
CONSTANTS
  t1 = t1  t2 = t2
  None = None
  Turns = {t1, t2}
  MaxCalls = 4
  Tools <- All
  SlowAdmission = TRUE
INVARIANTS
  TypeOK
PROPERTIES
  EofTearsDownUnlessAwaiting
  CallsAreAnswered
CHECK_DEADLOCK FALSE
