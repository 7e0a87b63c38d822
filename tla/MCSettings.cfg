SPECIFICATION Spec
CONSTANTS
  c1 = c1
  c2 = c2
  old = old
  idle = idle
  s1 = s1
  s2 = s2
  None = None
  Calls = {c1, c2}
  Stored = {old, idle}
  Pid <- SomePid
  MaxPid = 3
  StoredThread <- SomeThread
  StoredEffort <- SomeEffort
  Texts <- AnyText
  Params <- SomeParams
  ConfigFiles <- SomeFiles
  Sessions = {s1, s2}
  Home = "home"
  EnvHome = "absent"
  MaxNow = 1
INVARIANTS
  TypeOK
  ModelIsFrozen
  PolicyIsInForce
  RulesAreFrozen
  EffortIsPrevious
  SessionIsKept
SYMMETRY SessionSymmetry
CHECK_DEADLOCK FALSE
