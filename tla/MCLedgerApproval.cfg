SPECIFICATION Spec
CONSTANTS
  ProcessOf <- Together
  a1 = a1  a2 = a2  a3 = a3  th1 = th1  th2 = th2
  t1 = t1  t2 = t2  t3 = t3  r1 = r1  r2 = r2 d1 = d1 d2 = d2
  None = None
  Actors = {a1, a2, a3}
  Watchers = {a2, a3}
  Runners = {a1}
  Threads = {th1}
  Turns = {t1}
  Keys = {}
  Requests = {r1, r2}
  Decisions = {d1, d2}
  Children = {}
  Sessions = {}
  Items = {}
SYMMETRY SymmetryApproval
INVARIANTS
  GateObeysItsAnswer
PROPERTIES
  ImplementsStore
