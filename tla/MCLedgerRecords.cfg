SPECIFICATION Spec
CONSTANTS
  ProcessOf <- Apart
  a1 = a1  a2 = a2  a3 = a3  th1 = th1  th2 = th2
  t1 = t1  t2 = t2  t3 = t3  r1 = r1  r2 = r2 d1 = d1 d2 = d2
  None = None
  Actors = {a1, a2}
  Watchers = {}
  Runners = {a1, a2}
  Threads = {th1}
  Turns = {t1, t2}
  Keys = {}
  Requests = {}
  Decisions = {}
  Children = {"c"}
  Sessions = {"s1", "s2"}
  Items = {"i"}
SYMMETRY Symmetry
INVARIANTS
  TypeOK
  WorkerGoneIsHonest
PROPERTIES
  FirstTerminalWins
  AcpSessionNeverLost
