SPECIFICATION Spec
CONSTANTS
  ProcessOf <- Apart
  a1 = a1  a2 = a2  a3 = a3  th1 = th1  th2 = th2
  t1 = t1  t2 = t2  t3 = t3  r1 = r1  r2 = r2 d1 = d1 d2 = d2
  Actors = {a1, a2}
  Watchers = {}
  Runners = {a1, a2}
  Threads = {th1, th2}
  Turns = {t1, t2}
  Keys = {"k"}
  Requests = {}
  Decisions = {}
  Children = {}
  Sessions = {}
  Items = {}
  None = None
SYMMETRY Symmetry
INVARIANTS
  OneInProgressPerThread
  OneInFlightPerKey
PROPERTIES
  ImplementsStore
