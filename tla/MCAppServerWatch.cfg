SPECIFICATION FairSpec
CONSTANTS
  t1 = t1  i1 = i1  r1 = r1  r2 = r2
  None = None
  Turns = {t1}
  Items = {i1}
  Requests = {r1, r2}
  Decisions = {"accept"}
  MaxAsks = 2
INVARIANTS
  SocketAnswersItsAsk
  NotificationOrder
PROPERTIES
  ParkedIsDecided
  CompletionIsAnnounced
CHECK_DEADLOCK FALSE
