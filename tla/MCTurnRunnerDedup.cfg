SPECIFICATION Spec
CONSTANTS
  r1 = r1  r2 = r2  h1 = h1  c1 = c1
  None = None
  Hosts = {h1}
  Runners = {r1, r2}
  Cancellers = {c1}
  HostOf <- OneHost
  KeyOf <- SameKey
  MaxLive = 2
  SlowSpawns = FALSE
  Answers = {"completed"}
  Failing = {r1}
  Lockless = {r2}
INVARIANTS
  OneChildPerTurn
CHECK_DEADLOCK FALSE
