--------------------------- MODULE AppServerProofs ---------------------------
(***************************************************************************)
(* Proofs about module AppServer for any number of turns, items, requests  *)
(* and asks and any decisions.                                             *)
(***************************************************************************)
EXTENDS AppServer, FiniteSetTheorems, TLAPS

Statuses == {"absent", "inProgress", "completed", "interrupted", "failed"}
Marks == {"none", "inProgress", "completed"}
Snapshot == [status : Statuses, item : [Items -> Marks], req : Requests \cup {None}]

Reply == <<"reply">>
Started(i) == <<"item/started", i>>
Completed(i) == <<"item/completed", i>>
TurnCompleted == <<"turn/completed">>
Approval(r) == <<"requestApproval", r>>
Event == {Reply, TurnCompleted} \cup {Started(i) : i \in Items}
           \cup {Completed(i) : i \in Items} \cup {Approval(r) : r \in Requests}

AppType ==
  /\ status \in [Turns -> Statuses]
  /\ item \in [Turns -> [Items -> Marks]]
  /\ req \in [Turns -> Requests \cup {None}]
  /\ dec \in [Turns -> Decisions \cup {None}]
  /\ bg \in [Turns -> {"none", "admitting", "late", "run", "refused"}]
  /\ reader \in {"read", "closed"} \cup Turns
  /\ open \in BOOLEAN
  /\ wpc \in [Turns -> {"off", "observe", "emit", "recv", "ask", "done"}]
  /\ snap \in [Turns -> Snapshot]
  /\ started \in [Turns -> SUBSET Items] /\ completed \in [Turns -> SUBSET Items]
  /\ lastReq \in [Turns -> Requests \cup {None}]
  /\ ask \in [Turns -> [id : Ids, req : Requests] \cup {None}]
  /\ pending \subseteq Ids
  /\ chan \in [Ids -> Decisions \cup {Bad, None}]
  /\ asked \in Seq(Requests)
  /\ log \in [Turns -> Seq(Event)]
  /\ said \in [Requests -> Decisions \cup {Bad, None}]
  /\ socket \in [Requests -> Decisions \cup {Bad, None}]
  /\ parked \subseteq Requests

\* The requests a turn has parked and its watcher has seen or asked about.
Owns(t, r) == r # None /\ (r = req[t] \/ r = snap[t].req \/ r = lastReq[t])

\* A request belongs to one turn, whose watcher asks about it once: a request it
\* has asked about is the last one or a thing of the past, and what it has asked
\* about last is not what is pending if it has observed another one.
OwnInv ==
  /\ \A t \in Turns, r \in Requests : Owns(t, r) => r \in parked
  /\ \A t, u \in Turns, r \in Requests : Owns(t, r) /\ Owns(u, r) => t = u
  /\ \A k \in DOMAIN asked : asked[k] \in parked
  /\ \A t \in Turns, k \in DOMAIN asked :
       asked[k] = req[t] \/ asked[k] = snap[t].req => asked[k] = lastReq[t]
  /\ \A t \in Turns :
       snap[t].req # None /\ snap[t].req # lastReq[t] /\ req[t] # None =>
         req[t] # lastReq[t]
  /\ \A j, k \in DOMAIN asked : asked[j] = asked[k] => j = k

\* An id is answered once, and what its channel holds was said about its request.
ChanInv ==
  /\ \A id \in pending : id \in DOMAIN asked /\ chan[id] = None
  /\ \A id \in Ids :
       chan[id] # None => id \in DOMAIN asked /\ said[asked[id]] = chan[id]
  /\ \A t \in Turns :
       ask[t] # None => ask[t].id \in DOMAIN asked /\ asked[ask[t].id] = ask[t].req
  /\ \A r \in Requests :
       socket[r] # None =>
         \E id \in Ids : id \in DOMAIN asked /\ asked[id] = r /\ chan[id] = socket[r]

AskInv == OwnInv /\ ChanInv

\* What NotificationOrder says of a log, but for the last record.
InOrder(s) ==
  /\ \A j, k \in DOMAIN s : s[j] = s[k] => j = k
  /\ s # <<>> => s[1] = Reply
  /\ \A i \in Items, k \in DOMAIN s :
       s[k] = Completed(i) => \E j \in 1..(k - 1) : s[j] = Started(i)
  /\ \A k \in DOMAIN s : s[k] = TurnCompleted => k = Len(s)

Heard(t, e) == \E k \in DOMAIN log[t] : log[t][k] = e

\* The reply is the first that is written, and the watcher starts after it.
ReplyInv(t) ==
  /\ bg[t] = "none" => reader # t /\ log[t] = <<>>
  /\ reader = t => log[t] = <<>> /\ bg[t] \in {"admitting", "run", "refused"}
  /\ wpc[t] # "off" => bg[t] = "run" /\ reader # t /\ log[t] # <<>>
  /\ status[t] = "absent" <=> bg[t] # "run"

\* The watcher's sets are what it has written, or tried to.
SetsInv(t) ==
  /\ \A i \in Items : Heard(t, Started(i)) => i \in started[t]
  /\ \A i \in Items : Heard(t, Completed(i)) => i \in completed[t]
  /\ \A r \in Requests : Heard(t, Approval(r)) => \E k \in DOMAIN asked : asked[k] = r
  /\ open => /\ \A i \in started[t] : Heard(t, Started(i))
             /\ \A i \in completed[t] : Heard(t, Completed(i))

\* A terminal turn that was observed is the record for good.
LastInv(t) ==
  /\ wpc[t] \notin {"off", "observe"} => snap[t].status # "absent"
  /\ snap[t].status \notin {"absent", "inProgress"} =>
       Terminal(t) /\ snap[t].item = item[t]
  /\ Heard(t, TurnCompleted) =>
       /\ wpc[t] = "done" /\ Terminal(t)
       /\ \A i \in Items :
            /\ item[t][i] # "none" => Heard(t, Started(i))
            /\ item[t][i] = "completed" => Heard(t, Completed(i))

LogInv(t) == InOrder(log[t]) /\ ReplyInv(t) /\ SetsInv(t) /\ LastInv(t)

AppInv == AppType /\ AskInv /\ \A t \in Turns : LogInv(t)

USE DEF ledgerVars, connVars, watchVars, askVars, historyVars

-----------------------------------------------------------------------------
(***************************************************************************)
(* Logs                                                                    *)
(***************************************************************************)
\* A sequence with one more element.
LEMMA Appending ==
  ASSUME NEW S, NEW s \in Seq(S), NEW e \in S
  PROVE  /\ Append(s, e) \in Seq(S) /\ Len(Append(s, e)) = Len(s) + 1
         /\ Len(s) \in Nat /\ DOMAIN s = 1..Len(s)
         /\ DOMAIN Append(s, e) = 1..(Len(s) + 1)
         /\ \A n \in 1..Len(s) : Append(s, e)[n] = s[n]
         /\ Append(s, e)[Len(s) + 1] = e
OBVIOUS

\* The empty sequence, and the others.
LEMMA EmptySequence ==
  ASSUME NEW S
  PROVE  /\ <<>> \in Seq(S) /\ Len(<<>>) = 0 /\ DOMAIN <<>> = {}
         /\ \A s \in Seq(S) : s # <<>> => Len(s) \in Nat /\ Len(s) >= 1
OBVIOUS

\* Events of different kinds are different.
LEMMA EventsDiffer ==
  ASSUME NEW i, NEW j
  PROVE  /\ Reply # TurnCompleted /\ Reply # Started(i) /\ Reply # Completed(i)
         /\ Reply # Approval(i) /\ TurnCompleted # Started(i) /\ TurnCompleted # Completed(i)
         /\ TurnCompleted # Approval(i) /\ Started(i) # Completed(j) /\ Started(i) # Approval(j)
         /\ Completed(i) # Approval(j)
         /\ Started(i) = Started(j) => i = j
         /\ Completed(i) = Completed(j) => i = j
         /\ Approval(i) = Approval(j) => i = j
<1>1. ASSUME NEW a, NEW b, NEW c, NEW d PROVE <<a, b>> = <<c, d>> => a = c /\ b = d
  OBVIOUS
<1>2. ASSUME NEW a, NEW c, NEW d PROVE <<a>> # <<c, d>>
  <2>1. Len(<<a>>) = 1 /\ Len(<<c, d>>) = 2
    OBVIOUS
  <2> QED BY <2>1
<1>3. ASSUME NEW a, NEW c PROVE <<a>> = <<c>> => a = c
  OBVIOUS
<1>4. Reply # TurnCompleted
  BY <1>3 DEF Reply, TurnCompleted
<1>5. /\ Reply # Started(i) /\ Reply # Completed(i) /\ Reply # Approval(i)
      /\ TurnCompleted # Started(i) /\ TurnCompleted # Completed(i)
      /\ TurnCompleted # Approval(i)
  BY <1>2 DEF Reply, TurnCompleted, Started, Completed, Approval
<1>6. Started(i) # Completed(j) /\ Started(i) # Approval(j) /\ Completed(i) # Approval(j)
  BY <1>1 DEF Started, Completed, Approval
<1>7. /\ Started(i) = Started(j) => i = j
      /\ Completed(i) = Completed(j) => i = j
      /\ Approval(i) = Approval(j) => i = j
  BY <1>1 DEF Started, Completed, Approval
<1> QED BY <1>4, <1>5, <1>6, <1>7

\* One more event, not heard before, of which the first is the reply, an end
\* comes after its start and turn/completed has not been heard.
LEMMA AppendInOrder ==
  ASSUME NEW s \in Seq(Event), NEW e \in Event, InOrder(s),
         \A k \in DOMAIN s : s[k] # e /\ s[k] # TurnCompleted,
         s = <<>> => e = Reply,
         \A i \in Items : e = Completed(i) => \E j \in DOMAIN s : s[j] = Started(i)
  PROVE  InOrder(Append(s, e))
<1> DEFINE a == Append(s, e)
           L == Len(s)
<1>1. /\ L \in Nat /\ DOMAIN s = 1..L /\ DOMAIN a = 1..(L + 1) /\ Len(a) = L + 1
      /\ (\A n \in 1..L : a[n] = s[n]) /\ a[L + 1] = e
  BY Appending
<1>2. s = <<>> => L = 0
  BY EmptySequence
<1>3. s # <<>> => L >= 1
  BY EmptySequence
<1> HIDE DEF a, L
<1>4. ASSUME NEW k \in 1..(L + 1) PROVE k \in 1..L \/ k = L + 1
  BY <1>1
<1>5. \A j, k \in DOMAIN a : a[j] = a[k] => j = k
  BY <1>1, <1>4 DEF InOrder
<1>6. a[1] = Reply
  <2>1. CASE s = <<>>
    BY <1>1, <1>2, <2>1
  <2>2. CASE s # <<>>
    <3>1. 1 \in 1..L
      BY <1>1, <1>3, <2>2
    <3> QED BY <1>1, <2>2, <3>1 DEF InOrder
  <2> QED BY <2>1, <2>2
<1>7. ASSUME NEW i \in Items, NEW k \in DOMAIN a, a[k] = Completed(i)
      PROVE  \E j \in 1..(k - 1) : a[j] = Started(i)
  <2>1. CASE k \in 1..L
    <3>1. PICK j \in 1..(k - 1) : s[j] = Started(i)
      BY <1>1, <1>7, <2>1 DEF InOrder
    <3>2. j \in 1..L
      BY <1>1, <2>1
    <3> QED BY <1>1, <3>1, <3>2
  <2>2. CASE k = L + 1
    <3>1. PICK j \in 1..L : s[j] = Started(i)
      BY <1>1, <1>7, <2>2
    <3>2. j \in 1..(k - 1)
      BY <1>1, <2>2
    <3> QED BY <1>1, <3>1, <3>2
  <2> QED BY <1>1, <1>4, <2>1, <2>2
<1>8. ASSUME NEW k \in DOMAIN a, a[k] = TurnCompleted
      PROVE  k = Len(a)
  BY <1>1, <1>4, <1>8
<1> QED BY <1>5, <1>6, <1>7, <1>8 DEF InOrder, a

\* write_locked: the log of one turn has one more event if the client is there.
LEMMA Writing ==
  ASSUME AppType, NEW t \in Turns, NEW e \in Event, WriteLocked(t, e)
  PROVE  /\ log' \in [Turns -> Seq(Event)]
         /\ \A u \in Turns \ {t} : log'[u] = log[u]
         /\ \A x : Heard(t, x)' <=> Heard(t, x) \/ (open /\ x = e)
         /\ open => log'[t] = Append(log[t], e) /\ log'[t] # <<>>
         /\ ~open => log'[t] = log[t]
<1>1. log \in [Turns -> Seq(Event)] /\ open \in BOOLEAN
  BY DEF AppType
<1>2. CASE open
  <2>1. log' = [log EXCEPT ![t] = Append(@, e)]
    BY <1>2 DEF WriteLocked
  <2> DEFINE s == log[t]
             a == Append(s, e)
  <2>2. log'[t] = a /\ s \in Seq(Event)
    BY <1>1, <2>1
  <2>3. /\ a \in Seq(Event) /\ Len(s) \in Nat /\ DOMAIN s = 1..Len(s)
        /\ DOMAIN a = 1..(Len(s) + 1)
        /\ (\A n \in 1..Len(s) : a[n] = s[n]) /\ a[Len(s) + 1] = e
    BY <2>2, Appending
  <2> HIDE DEF a
  <2>4. ASSUME NEW x PROVE Heard(t, x)' <=> Heard(t, x) \/ x = e
    <3>1. ASSUME Heard(t, x)' PROVE Heard(t, x) \/ x = e
      <4>1. PICK k \in 1..(Len(s) + 1) : a[k] = x
        BY <2>2, <2>3, <3>1 DEF Heard
      <4>2. k \in 1..Len(s) \/ k = Len(s) + 1
        BY <2>3
      <4> QED BY <2>3, <4>1, <4>2 DEF Heard
    <3>2. ASSUME Heard(t, x) PROVE Heard(t, x)'
      <4>1. PICK k \in 1..Len(s) : s[k] = x
        BY <2>3, <3>2 DEF Heard
      <4>2. k \in 1..(Len(s) + 1)
        BY <2>3
      <4> QED BY <2>2, <2>3, <4>1, <4>2 DEF Heard
    <3>3. ASSUME x = e PROVE Heard(t, x)'
      <4>1. Len(s) + 1 \in 1..(Len(s) + 1)
        BY <2>3
      <4> QED BY <2>2, <2>3, <3>3, <4>1 DEF Heard
    <3> QED BY <3>1, <3>2, <3>3
  <2>5. log' \in [Turns -> Seq(Event)] /\ \A u \in Turns \ {t} : log'[u] = log[u]
    BY <1>1, <2>1, <2>2, <2>3 DEF a
  <2>6. log'[t] # <<>>
    <3>1. Len(s) + 1 \in DOMAIN log'[t]
      BY <2>2, <2>3
    <3>2. DOMAIN <<>> = {}
      BY EmptySequence
    <3> QED BY <3>1, <3>2
  <2> QED BY <1>2, <2>2, <2>4, <2>5, <2>6 DEF a
<1>3. CASE ~open
  <2>1. log' = log
    BY <1>3 DEF WriteLocked
  <2> QED BY <1>1, <1>3, <2>1 DEF Heard
<1> QED BY <1>1, <1>2, <1>3

\* Such a write keeps the order of the log if the event comes in its place.
LEMMA WritingInOrder ==
  ASSUME AppType, NEW t \in Turns, NEW e \in Event, WriteLocked(t, e), InOrder(log[t]),
         open => ~Heard(t, e) /\ ~Heard(t, TurnCompleted),
         open /\ log[t] = <<>> => e = Reply,
         \A i \in Items : open /\ e = Completed(i) => Heard(t, Started(i))
  PROVE  InOrder(log[t])'
<1>1. log[t] \in Seq(Event) /\ open \in BOOLEAN
  BY DEF AppType
<1>2. CASE open
  <2>1. log'[t] = Append(log[t], e)
    BY <1>2, Writing
  <2>2. InOrder(Append(log[t], e))
    BY <1>1, <1>2, AppendInOrder DEF Heard
  <2> QED BY <2>1, <2>2 DEF InOrder
<1>3. CASE ~open
  <2>1. log'[t] = log[t]
    BY <1>3, Writing
  <2> QED BY <2>1 DEF InOrder
<1> QED BY <1>1, <1>2, <1>3

-----------------------------------------------------------------------------
(***************************************************************************)
(* What a step leaves alone                                                *)
(***************************************************************************)
\* The asks, while nothing is parked, observed, asked or answered.
LEMMA AskStays ==
  ASSUME AskInv, UNCHANGED <<req, snap, lastReq, asked, pending, chan, ask, said, socket, parked>>
  PROVE  AskInv'
BY DEF AskInv, OwnInv, ChanInv, Owns

\* What the log of a turn depends on.
Left(t) ==
  /\ status'[t] = status[t] /\ item'[t] = item[t] /\ bg'[t] = bg[t]
  /\ reader'= t => reader = t
  /\ wpc'[t] = wpc[t] /\ snap'[t] = snap[t] /\ started'[t] = started[t]
  /\ completed'[t] = completed[t] /\ log'[t] = log[t]

LEMMA LogStays ==
  ASSUME NEW t \in Turns, LogInv(t), Left(t), open' => open,
         \A r \in Requests : (\E k \in DOMAIN asked : asked[k] = r) =>
                              (\E k \in DOMAIN asked : asked[k] = r)'
  PROVE  LogInv(t)'
<1>1. \A x : Heard(t, x)' = Heard(t, x)
  BY DEF Left, Heard
<1>2. InOrder(log[t])'
  BY DEF LogInv, Left, InOrder
<1>3. ReplyInv(t)'
  BY DEF LogInv, Left, ReplyInv
<1>4. SetsInv(t)'
  BY <1>1 DEF LogInv, Left, SetsInv
<1>5. LastInv(t)'
  BY <1>1 DEF LogInv, Left, LastInv, Terminal
<1> QED BY <1>2, <1>3, <1>4, <1>5 DEF LogInv

\* A step that keeps the log of the turn it is about keeps all.
LEMMA LogSteps ==
  ASSUME AppInv, AppType', AskInv', NEW t \in Turns, LogInv(t)',
         \A u \in Turns \ {t} : Left(u), open' => open,
         \A r \in Requests : (\E k \in DOMAIN asked : asked[k] = r) =>
                              (\E k \in DOMAIN asked : asked[k] = r)'
  PROVE  AppInv'
<1>1. ASSUME NEW u \in Turns, u # t PROVE LogInv(u)'
  BY <1>1, LogStays DEF AppInv
<1> QED BY <1>1 DEF AppInv

\* A log nothing is written to.
LEMMA SameLog ==
  ASSUME NEW t \in Turns, log'[t] = log[t]
  PROVE  (InOrder(log[t]) => InOrder(log[t])') /\ \A x : Heard(t, x)' = Heard(t, x)
BY DEF InOrder, Heard

\* Before the first turn/start.
LEMMA AppInit == Init => AppInv
<1> SUFFICES ASSUME Init PROVE AppInv
  OBVIOUS
<1> USE AppNoneAssumption, AppTurnsAssumption, MaxAsksAssumption
<1>1. AppType
  <2>1. /\ status \in [Turns -> Statuses] /\ item \in [Turns -> [Items -> Marks]]
        /\ req \in [Turns -> Requests \cup {None}] /\ dec \in [Turns -> Decisions \cup {None}]
        /\ bg \in [Turns -> {"none", "admitting", "late", "run", "refused"}]
        /\ wpc \in [Turns -> {"off", "observe", "emit", "recv", "ask", "done"}]
    BY DEF Init, Statuses, Marks
  <2>2. /\ started \in [Turns -> SUBSET Items] /\ completed \in [Turns -> SUBSET Items]
        /\ lastReq \in [Turns -> Requests \cup {None}]
        /\ ask \in [Turns -> [id : Ids, req : Requests] \cup {None}]
    BY DEF Init
  <2>3. /\ chan \in [Ids -> Decisions \cup {Bad, None}]
        /\ said \in [Requests -> Decisions \cup {Bad, None}]
        /\ socket \in [Requests -> Decisions \cup {Bad, None}]
    BY DEF Init
  <2>4. snap \in [Turns -> Snapshot]
    <3>1. NoSnapshot \in Snapshot
      BY DEF NoSnapshot, Snapshot, Statuses, Marks
    <3> QED BY <3>1 DEF Init
  <2>5. asked \in Seq(Requests) /\ log \in [Turns -> Seq(Event)]
    <3>1. <<>> \in Seq(Requests) /\ <<>> \in Seq(Event)
      BY EmptySequence
    <3> QED BY <3>1 DEF Init
  <2>6. reader \in {"read", "closed"} \cup Turns /\ open \in BOOLEAN /\ pending \subseteq Ids
        /\ parked \subseteq Requests
    BY DEF Init
  <2> QED BY <2>1, <2>2, <2>3, <2>4, <2>5, <2>6 DEF AppType
<1>2. DOMAIN asked = {}
  <2>1. asked = <<>>
    BY DEF Init
  <2> QED BY <2>1, EmptySequence
<1>3. OwnInv
  <2>1. \A t \in Turns : req[t] = None /\ snap[t].req = None /\ lastReq[t] = None
    BY DEF Init, NoSnapshot
  <2> QED BY <1>2, <2>1 DEF OwnInv, Owns
<1>4. ChanInv
  <2>1. /\ pending = {} /\ (\A id \in Ids : chan[id] = None)
        /\ (\A t \in Turns : ask[t] = None) /\ \A r \in Requests : socket[r] = None
    BY DEF Init
  <2> QED BY <2>1 DEF ChanInv
<1>5. ASSUME NEW t \in Turns PROVE LogInv(t)
  <2>1. log[t] = <<>>
    BY DEF Init
  <2>2. DOMAIN log[t] = {}
    BY <2>1, EmptySequence
  <2>3. \A x : ~Heard(t, x)
    BY <2>2 DEF Heard
  <2>4. /\ bg[t] = "none" /\ reader # t /\ wpc[t] = "off" /\ status[t] = "absent"
        /\ started[t] = {} /\ completed[t] = {} /\ snap[t].status = "absent"
    BY DEF Init, NoSnapshot
  <2>5. InOrder(log[t])
    BY <2>1, <2>2 DEF InOrder
  <2> QED BY <2>1, <2>3, <2>4, <2>5 DEF LogInv, ReplyInv, SetsInv, LastInv
<1> QED BY <1>1, <1>3, <1>4, <1>5 DEF AppInv, AskInv

-----------------------------------------------------------------------------
(***************************************************************************)
(* rpc_loop                                                                *)
(***************************************************************************)
\* The reader waits for the admission of a turn it has not heard of before.
LEMMA TurnStartKeeps ==
  ASSUME AppInv, NEW t \in Turns, TurnStart(t)
  PROVE  AppInv'
<1>1. /\ reader = "read" /\ bg[t] = "none" /\ bg' = [bg EXCEPT ![t] = "admitting"] /\ reader' = t
      /\ UNCHANGED <<status, item, req, dec, open, wpc, snap, started, completed, lastReq, ask,
                     pending, chan, asked, log, said, socket, parked>>
  BY DEF TurnStart
<1>2. AppType'
  BY <1>1 DEF AppInv, AppType
<1>3. AskInv'
  BY <1>1, AskStays DEF AppInv
<1>4. \A u \in Turns \ {t} : Left(u)
  BY <1>1 DEF AppInv, AppType, Left
<1>5. LogInv(t) /\ bg'[t] = "admitting"
  BY <1>1 DEF AppInv, AppType
<1>6. InOrder(log[t])' /\ \A x : Heard(t, x)' = Heard(t, x)
  BY <1>1, <1>5, SameLog DEF LogInv
<1>7. ReplyInv(t)' /\ SetsInv(t)' /\ LastInv(t)'
  BY <1>1, <1>5, <1>6 DEF LogInv, ReplyInv, SetsInv, LastInv, Terminal
<1>8. LogInv(t)'
  BY <1>6, <1>7 DEF LogInv
<1> QED BY <1>1, <1>2, <1>3, <1>4, <1>8, LogSteps

\* A turn comes into being, or is refused.
LEMMA AdmitKeeps ==
  ASSUME AppInv, NEW t \in Turns, Admit(t)
  PROVE  AppInv'
<1>1. /\ bg[t] \in {"admitting", "late"}
      /\ \/ bg' = [bg EXCEPT ![t] = "run"] /\ status' = [status EXCEPT ![t] = "inProgress"]
         \/ bg' = [bg EXCEPT ![t] = "refused"] /\ status' = status
      /\ UNCHANGED <<item, req, dec, reader, open, wpc, snap, started, completed, lastReq, ask,
                     pending, chan, asked, log, said, socket, parked>>
  BY DEF Admit
<1>2. AppType'
  BY <1>1 DEF AppInv, AppType, Statuses
<1>3. AskInv'
  BY <1>1, AskStays DEF AppInv
<1>4. \A u \in Turns \ {t} : Left(u)
  BY <1>1 DEF AppInv, AppType, Left
<1>5. /\ LogInv(t)
      /\ \/ bg'[t] = "run" /\ status'[t] = "inProgress"
         \/ bg'[t] = "refused" /\ status'[t] = status[t]
  BY <1>1 DEF AppInv, AppType
<1>6. InOrder(log[t])' /\ \A x : Heard(t, x)' = Heard(t, x)
  BY <1>1, <1>5, SameLog DEF LogInv
<1>7. status[t] = "absent" /\ wpc[t] = "off" /\ snap[t].status \in {"absent", "inProgress"}
  BY <1>1, <1>5 DEF LogInv, ReplyInv, LastInv, Terminal
<1>8. ReplyInv(t)' /\ SetsInv(t)'
  BY <1>1, <1>5, <1>6, <1>7 DEF LogInv, ReplyInv, SetsInv
<1>9. LastInv(t)'
  BY <1>1, <1>5, <1>6, <1>7 DEF LogInv, LastInv, Terminal
<1>10. LogInv(t)'
  BY <1>6, <1>8, <1>9 DEF LogInv
<1> QED BY <1>1, <1>2, <1>3, <1>4, <1>10, LogSteps

\* The reply to turn/start is the first the client hears of the turn, whether
\* its admission is over or has taken too long.
LEMMA ReplyKeeps ==
  ASSUME AppInv, NEW t \in Turns, reader = t, WriteLocked(t, Reply),
         reader' = IF open THEN "read" ELSE "closed",
         \/ UNCHANGED <<wpc, bg>>
         \/ bg[t] = "run" /\ open /\ wpc' = [wpc EXCEPT ![t] = "observe"] /\ UNCHANGED bg
         \/ bg[t] = "admitting" /\ bg' = [bg EXCEPT ![t] = "late"] /\ UNCHANGED wpc,
         UNCHANGED <<status, item, req, dec, open, snap, started, completed, lastReq, ask,
                     pending, chan, asked, said, socket, parked>>
  PROVE  AppInv'
<1>1. Reply \in Event /\ AppType
  BY DEF Event, AppInv
<1>2. /\ log' \in [Turns -> Seq(Event)]
      /\ \A u \in Turns \ {t} : log'[u] = log[u]
      /\ \A x : Heard(t, x)' <=> Heard(t, x) \/ (open /\ x = Reply)
      /\ open => log'[t] # <<>>
      /\ ~open => log'[t] = log[t]
  BY <1>1, Writing
<1>3. /\ wpc' \in [Turns -> {"off", "observe", "emit", "recv", "ask", "done"}]
      /\ bg' \in [Turns -> {"none", "admitting", "late", "run", "refused"}]
      /\ \A u \in Turns \ {t} : wpc'[u] = wpc[u] /\ bg'[u] = bg[u]
      /\ \/ wpc'[t] = wpc[t] /\ bg'[t] = bg[t]
         \/ bg[t] = "run" /\ open /\ wpc'[t] = "observe" /\ bg'[t] = bg[t]
         \/ bg[t] = "admitting" /\ bg'[t] = "late" /\ wpc'[t] = wpc[t]
  BY <1>1 DEF AppType
<1>4. AppType'
  BY <1>1, <1>2, <1>3 DEF AppType
<1>5. AskInv'
  BY AskStays DEF AppInv
<1>6. reader' \notin Turns
  BY AppTurnsAssumption
<1>7. \A u \in Turns \ {t} : Left(u)
  BY <1>2, <1>3, <1>6 DEF Left
<1>8. /\ LogInv(t) /\ log[t] = <<>> /\ wpc[t] = "off" /\ bg[t] # "none"
      /\ \A x : ~Heard(t, x)
  <2>1. LogInv(t)
    BY DEF AppInv
  <2>2. log[t] = <<>> /\ wpc[t] = "off" /\ bg[t] # "none"
    BY <2>1 DEF LogInv, ReplyInv
  <2>3. \A x : ~Heard(t, x)
    BY <2>2, EmptySequence DEF Heard
  <2> QED BY <2>1, <2>2, <2>3
<1>9. InOrder(log[t])'
  <2>1. \A i \in Items : Reply # Completed(i)
    BY EventsDiffer
  <2> QED BY <1>1, <1>8, <2>1, WritingInOrder DEF LogInv
<1>10. ReplyInv(t)'
  BY <1>2, <1>3, <1>6, <1>8 DEF LogInv, ReplyInv
<1>11. \A x : x # Reply => ~Heard(t, x)'
  BY <1>2, <1>8
<1>12. SetsInv(t)'
  <2>1. \A i : Started(i) # Reply /\ Completed(i) # Reply /\ Approval(i) # Reply
    BY EventsDiffer
  <2>2. open => started[t] = {} /\ completed[t] = {}
    BY <1>1, <1>8 DEF LogInv, SetsInv, AppType
  <2> QED BY <1>11, <2>1, <2>2 DEF SetsInv
<1>13. LastInv(t)'
  <2>1. ~Heard(t, TurnCompleted)'
    BY <1>11, EventsDiffer
  <2>2. wpc'[t] \in {"off", "observe"}
    BY <1>3, <1>8
  <2> QED BY <1>8, <2>1, <2>2 DEF LogInv, LastInv, Terminal
<1>14. LogInv(t)'
  BY <1>9, <1>10, <1>12, <1>13 DEF LogInv
<1> QED BY <1>4, <1>5, <1>7, <1>14, LogSteps

\* The watcher starts after the reply.
LEMMA AfterRpcKeeps ==
  ASSUME AppInv, NEW t \in Turns, AfterRpc(t)
  PROVE  AppInv'
BY ReplyKeeps DEF AfterRpc, Reply

\* An admission that comes after the error has no watcher.
LEMMA AdmitTimeoutKeeps ==
  ASSUME AppInv, NEW t \in Turns, AdmitTimeout(t)
  PROVE  AppInv'
BY ReplyKeeps DEF AdmitTimeout, Reply

\* The reader ends, or the client goes.
LEMMA ReaderEnds ==
  ASSUME AppInv, StopReading \/ ClientCloses
  PROVE  AppInv'
<1>1. /\ UNCHANGED <<status, item, req, dec, bg, wpc, snap, started, completed, lastReq, ask,
                     pending, chan, asked, log, said, socket, parked>>
      /\ reader' \in {"closed", reader} /\ open' \in BOOLEAN /\ (open' => open)
  <2>1. open \in BOOLEAN
    BY DEF AppInv, AppType
  <2>2. CASE StopReading
    BY <2>1, <2>2 DEF StopReading
  <2>3. CASE ClientCloses
    BY <2>1, <2>3 DEF ClientCloses
  <2> QED BY <2>2, <2>3
<1>2. AppType'
  BY <1>1 DEF AppInv, AppType
<1>3. AskInv'
  BY <1>1, AskStays DEF AppInv
<1>4. ASSUME NEW t \in Turns PROVE LogInv(t)'
  <2>1. Left(t)
    BY <1>1, AppTurnsAssumption DEF Left
  <2> QED BY <1>1, <2>1, LogStays DEF AppInv
<1> QED BY <1>2, <1>3, <1>4 DEF AppInv

\* An id that is pending was not answered, and it is the only one for its
\* request: what was said about that request was said nowhere else.
LEMMA DeliverKeeps ==
  ASSUME AppInv, NEW id \in Ids, NEW d \in Answers, DeliverPending(id, d)
  PROVE  AppInv'
<1>1. /\ id \in pending /\ pending' = pending \ {id} /\ chan' = [chan EXCEPT ![id] = d]
      /\ said' = [said EXCEPT ![asked[id]] = d]
      /\ UNCHANGED <<status, item, req, dec, bg, reader, open, wpc, snap, started, completed,
                     lastReq, ask, asked, log, socket, parked>>
  BY DEF DeliverPending
<1>2. /\ chan \in [Ids -> Decisions \cup {Bad, None}] /\ pending \subseteq Ids
      /\ said \in [Requests -> Decisions \cup {Bad, None}] /\ asked \in Seq(Requests)
      /\ OwnInv /\ ChanInv
  BY DEF AppInv, AppType, AskInv
<1>3. id \in DOMAIN asked /\ chan[id] = None /\ asked[id] \in Requests
  <2>1. id \in DOMAIN asked /\ chan[id] = None
    BY <1>1, <1>2 DEF ChanInv
  <2> QED BY <1>2, <2>1
<1>4. /\ chan' \in [Ids -> Decisions \cup {Bad, None}] /\ pending' \subseteq Ids
      /\ said' \in [Requests -> Decisions \cup {Bad, None}]
      /\ chan'[id] = d /\ said'[asked[id]] = d
      /\ \A k \in Ids : k # id => chan'[k] = chan[k]
      /\ \A r \in Requests : r # asked[id] => said'[r] = said[r]
  BY <1>1, <1>2, <1>3 DEF Answers
<1>5. AppType'
  BY <1>1, <1>4 DEF AppInv, AppType
<1>6. OwnInv'
  BY <1>1, <1>2 DEF OwnInv, Owns
<1>7. ChanInv'
  <2>1. \A k \in pending' : k \in DOMAIN asked' /\ chan'[k] = None
    BY <1>1, <1>2, <1>4 DEF ChanInv
  <2>2. ASSUME NEW k \in Ids, chan'[k] # None
        PROVE  k \in DOMAIN asked /\ said'[asked[k]] = chan'[k]
    <3>1. CASE k = id
      BY <1>3, <1>4, <3>1
    <3>2. CASE k # id
      <4>1. k \in DOMAIN asked /\ said[asked[k]] = chan[k] /\ chan'[k] = chan[k]
        BY <1>2, <1>4, <2>2, <3>2 DEF ChanInv
      <4>2. asked[k] # asked[id] /\ asked[k] \in Requests
        BY <1>2, <1>3, <3>2, <4>1 DEF OwnInv
      <4> QED BY <1>4, <4>1, <4>2
    <3> QED BY <3>1, <3>2
  <2>3. ASSUME NEW r \in Requests, socket[r] # None
        PROVE  \E k \in Ids : k \in DOMAIN asked /\ asked[k] = r /\ chan'[k] = socket[r]
    <3>1. PICK k \in Ids : k \in DOMAIN asked /\ asked[k] = r /\ chan[k] = socket[r]
      BY <1>2, <2>3 DEF ChanInv
    <3>2. k # id
      BY <1>3, <2>3, <3>1
    <3> QED BY <1>4, <3>1, <3>2
  <2>4. \A t \in Turns :
          ask[t] # None => ask[t].id \in DOMAIN asked /\ asked[ask[t].id] = ask[t].req
    BY <1>2 DEF ChanInv
  <2> QED BY <1>1, <2>1, <2>2, <2>3, <2>4 DEF ChanInv
<1>8. ASSUME NEW t \in Turns PROVE LogInv(t)'
  <2>1. Left(t)
    BY <1>1 DEF Left
  <2> QED BY <1>1, <2>1, LogStays DEF AppInv
<1> QED BY <1>5, <1>6, <1>7, <1>8 DEF AppInv, AskInv

-----------------------------------------------------------------------------
(***************************************************************************)
(* The ledger of a turn that runs                                          *)
(***************************************************************************)
\* The record of a turn in progress changes: the watcher has not seen its end.
LEMMA RecordKeeps ==
  ASSUME AppInv, NEW t \in Turns, InProgress(t),
         \/ \E s \in {"completed", "interrupted", "failed"} :
              status' = [status EXCEPT ![t] = s] /\ UNCHANGED item
         \/ \E i \in Items, mark \in {"inProgress", "completed"} :
              item' = [item EXCEPT ![t][i] = mark] /\ UNCHANGED status,
         UNCHANGED <<req, dec, bg, reader, open, wpc, snap, started, completed,
                     lastReq, ask, pending, chan, asked, log, said, socket, parked>>
  PROVE  AppInv'
<1>1. status \in [Turns -> Statuses] /\ item \in [Turns -> [Items -> Marks]]
  BY DEF AppInv, AppType
<1>2. /\ status' \in [Turns -> Statuses] /\ item' \in [Turns -> [Items -> Marks]]
      /\ \A u \in Turns \ {t} : status'[u] = status[u] /\ item'[u] = item[u]
      /\ status'[t] # "absent"
  <2>1. ASSUME NEW s \in {"completed", "interrupted", "failed"},
               status' = [status EXCEPT ![t] = s], UNCHANGED item
        PROVE  <1>2!:
    BY <1>1, <2>1 DEF Statuses
  <2>2. ASSUME NEW i \in Items, NEW mark \in {"inProgress", "completed"},
               item' = [item EXCEPT ![t][i] = mark], UNCHANGED status
        PROVE  <1>2!:
    BY <1>1, <2>2 DEF Marks, InProgress
  <2> QED BY <2>1, <2>2
<1>3. AppType'
  BY <1>2 DEF AppInv, AppType
<1>4. AskInv'
  BY AskStays DEF AppInv
<1>5. \A u \in Turns \ {t} : Left(u)
  BY <1>2 DEF Left
<1>6. LogInv(t)
  BY DEF AppInv
<1>7. InOrder(log[t])' /\ \A x : Heard(t, x)' = Heard(t, x)
  BY <1>6, SameLog DEF LogInv
<1>8. ReplyInv(t)' /\ SetsInv(t)'
  BY <1>2, <1>6, <1>7 DEF LogInv, ReplyInv, SetsInv, InProgress
<1>9. LastInv(t)'
  <2>1. ~Heard(t, TurnCompleted) /\ snap[t].status \in {"absent", "inProgress"}
    BY <1>6 DEF LogInv, LastInv, InProgress, Terminal
  <2> QED BY <1>6, <1>7, <2>1 DEF LogInv, LastInv
<1>10. LogInv(t)'
  BY <1>7, <1>8, <1>9 DEF LogInv
<1> QED BY <1>3, <1>4, <1>5, <1>10, LogSteps

\* A decision from elsewhere is nothing the watcher keeps.
LEMMA RespondElsewhereKeeps ==
  ASSUME AppInv, NEW t \in Turns, NEW d \in Decisions, RespondElsewhere(t, d)
  PROVE  AppInv'
<1>1. /\ dec' = [dec EXCEPT ![t] = d]
      /\ UNCHANGED <<status, item, req, bg, reader, open, wpc, snap, started, completed,
                     lastReq, ask, pending, chan, asked, log, said, socket, parked>>
  BY DEF RespondElsewhere
<1>2. AppType'
  BY <1>1 DEF AppInv, AppType
<1>3. AskInv'
  BY <1>1, AskStays DEF AppInv
<1>4. ASSUME NEW u \in Turns PROVE LogInv(u)'
  <2>1. Left(u)
    BY <1>1 DEF Left
  <2> QED BY <1>1, <2>1, LogStays DEF AppInv
<1> QED BY <1>2, <1>3, <1>4 DEF AppInv

\* A request is parked under a name no request has had, or is taken away.
LEMMA RequestKeeps ==
  ASSUME AppInv, NEW t \in Turns, (\E r \in Requests : ParkApproval(t, r)) \/ ClearPending(t)
  PROVE  AppInv'
<1>1. PICK r \in Requests \cup {None} :
        /\ req' = [req EXCEPT ![t] = r] /\ dec' = [dec EXCEPT ![t] = None]
        /\ r # None => r \notin parked
        /\ parked' = parked \cup ({r} \ {None})
  <2>1. CASE \E r \in Requests : ParkApproval(t, r)
    <3>1. PICK r \in Requests : ParkApproval(t, r)
      BY <2>1
    <3>2. r # None
      BY AppNoneAssumption
    <3>3. /\ req' = [req EXCEPT ![t] = r] /\ dec' = [dec EXCEPT ![t] = None]
          /\ r \notin parked /\ parked' = parked \cup {r} /\ {r} \ {None} = {r}
      BY <3>1, <3>2 DEF ParkApproval
    <3> QED BY <3>3, Zenon
  <2>2. CASE ClearPending(t)
    <3>1. /\ req' = [req EXCEPT ![t] = None] /\ dec' = [dec EXCEPT ![t] = None]
          /\ parked' = parked
      BY <2>2 DEF ClearPending
    <3>2. parked' = parked \cup ({None} \ {None}) /\ None \in Requests \cup {None}
      BY <3>1
    <3> QED BY <3>1, <3>2, Zenon
  <2> QED BY <2>1, <2>2
<1>2. UNCHANGED <<status, item, bg, reader, open, wpc, snap, started, completed, lastReq, ask,
                  pending, chan, asked, log, said, socket>>
  BY DEF ParkApproval, ClearPending
<1>3. /\ req \in [Turns -> Requests \cup {None}] /\ dec \in [Turns -> Decisions \cup {None}]
      /\ parked \subseteq Requests /\ asked \in Seq(Requests) /\ OwnInv /\ ChanInv
      /\ lastReq \in [Turns -> Requests \cup {None}]
  BY DEF AppInv, AppType, AskInv
<1>4. /\ req' \in [Turns -> Requests \cup {None}] /\ dec' \in [Turns -> Decisions \cup {None}]
      /\ parked' \subseteq Requests /\ parked \subseteq parked' /\ (r # None => r \in parked')
      /\ req'[t] = r /\ \A u \in Turns \ {t} : req'[u] = req[u]
  BY <1>1, <1>3
<1>5. AppType'
  BY <1>2, <1>4 DEF AppInv, AppType
<1>6. OwnInv'
  <2>1. ASSUME NEW u \in Turns, NEW q \in Requests, Owns(u, q)'
        PROVE  \/ Owns(u, q) /\ q \in parked
               \/ u = t /\ q = r /\ q \notin parked
    <3>1. q # None /\ (q = req'[u] \/ q = snap[u].req \/ q = lastReq[u])
      BY <1>2, <2>1 DEF Owns
    <3>2. Owns(u, q) => q \in parked
      BY <1>3 DEF OwnInv
    <3>3. CASE u = t /\ q = r
      BY <1>1, <3>1, <3>3
    <3>4. CASE ~(u = t /\ q = r)
      <4>1. Owns(u, q)
        BY <1>4, <3>1, <3>4 DEF Owns
      <4> QED BY <3>2, <4>1
    <3> QED BY <3>3, <3>4
  <2>2. \A u \in Turns, q \in Requests : Owns(u, q)' => q \in parked'
    BY <1>1, <1>4, <2>1 DEF Owns
  <2>3. \A u, v \in Turns, q \in Requests : Owns(u, q)' /\ Owns(v, q)' => u = v
    BY <1>3, <2>1 DEF OwnInv
  <2>4. \A k \in DOMAIN asked : asked[k] \in parked'
    BY <1>3, <1>4 DEF OwnInv
  <2>5. ASSUME NEW u \in Turns, NEW k \in DOMAIN asked, asked[k] = req'[u] \/ asked[k] = snap[u].req
        PROVE  asked[k] = lastReq[u]
    <3>1. asked[k] \in parked /\ asked[k] # None
      BY <1>3, AppNoneAssumption DEF OwnInv
    <3>2. asked[k] # r
      BY <1>1, <3>1
    <3>3. asked[k] = req[u] \/ asked[k] = snap[u].req
      BY <1>4, <2>5, <3>2
    <3> QED BY <1>3, <3>3 DEF OwnInv
  <2>6. ASSUME NEW u \in Turns, snap[u].req # None, snap[u].req # lastReq[u], req'[u] # None
        PROVE  req'[u] # lastReq[u]
    <3>1. CASE u = t
      <4>1. lastReq[t] # None => lastReq[t] \in parked
        BY <1>3 DEF OwnInv, Owns
      <4> QED BY <1>1, <1>4, <2>6, <3>1, <4>1
    <3>2. CASE u # t
      BY <1>3, <1>4, <2>6, <3>2 DEF OwnInv
    <3> QED BY <3>1, <3>2
  <2>7. \A j, k \in DOMAIN asked : asked[j] = asked[k] => j = k
    BY <1>3 DEF OwnInv
  <2> QED BY <1>2, <2>2, <2>3, <2>4, <2>5, <2>6, <2>7 DEF OwnInv
<1>7. ChanInv'
  BY <1>2, <1>3 DEF ChanInv
<1>8. ASSUME NEW u \in Turns PROVE LogInv(u)'
  <2>1. Left(u)
    BY <1>2 DEF Left
  <2> QED BY <1>2, <2>1, LogStays DEF AppInv
<1> QED BY <1>5, <1>6, <1>7, <1>8 DEF AppInv, AskInv

\* What else changes the record of a turn: its run, and turn/interrupt.
LEMMA RunKeeps ==
  ASSUME AppInv, NEW t \in Turns, RunStep(t) \/ TurnInterrupt(t)
  PROVE  AppInv'
<1>1. CASE \E i \in Items : UpsertItem(t, i)
  BY <1>1, RecordKeeps DEF UpsertItem
<1>2. CASE PublishTerminal(t)
  BY <1>2, RecordKeeps DEF PublishTerminal
<1>3. CASE TurnInterrupt(t)
  BY <1>3, RecordKeeps DEF TurnInterrupt
<1>4. CASE \E d \in Decisions : RespondElsewhere(t, d)
  BY <1>4, RespondElsewhereKeeps
<1>5. CASE (\E r \in Requests : ParkApproval(t, r)) \/ ClearPending(t)
  BY <1>5, RequestKeeps
<1> QED BY <1>1, <1>2, <1>3, <1>4, <1>5 DEF RunStep

-----------------------------------------------------------------------------
(***************************************************************************)
(* The watcher                                                             *)
(***************************************************************************)
\* The watcher of a turn that is not done has not told its end.
LEMMA Watching ==
  ASSUME AppInv, NEW t \in Turns, wpc[t] \in {"observe", "emit", "recv", "ask"}
  PROVE  /\ log[t] # <<>> /\ ~Heard(t, TurnCompleted) /\ bg[t] = "run" /\ reader # t
         /\ status[t] # "absent" /\ InOrder(log[t])
BY DEF AppInv, LogInv, ReplyInv, LastInv

\* A watcher that writes nothing and knows the same goes on.
LEMMA WatchGoes ==
  ASSUME AppInv, NEW t \in Turns, wpc[t] \in {"observe", "emit", "recv", "ask"},
         NEW l \in {"observe", "emit", "recv", "ask"}, wpc' = [wpc EXCEPT ![t] = l],
         wpc[t] # "observe" \/ snap[t].status # "absent",
         UNCHANGED <<status, item, bg, reader, open, snap, started, completed, asked, log>>,
         AppType', AskInv'
  PROVE  AppInv'
<1>1. /\ wpc \in [Turns -> {"off", "observe", "emit", "recv", "ask", "done"}] /\ LogInv(t)
  BY DEF AppInv, AppType
<1>2. wpc'[t] = l /\ \A u \in Turns \ {t} : wpc'[u] = wpc[u]
  BY <1>1
<1>3. \A u \in Turns \ {t} : Left(u)
  BY <1>2 DEF Left
<1>4. InOrder(log[t])' /\ \A x : Heard(t, x)' = Heard(t, x)
  BY <1>1, SameLog DEF LogInv
<1>5. ReplyInv(t)' /\ SetsInv(t)'
  BY <1>1, <1>2, <1>4 DEF LogInv, ReplyInv, SetsInv
<1>6. LastInv(t)'
  <2>1. ~Heard(t, TurnCompleted) /\ snap[t].status # "absent"
    BY <1>1, Watching DEF LogInv, LastInv
  <2> QED BY <1>1, <1>4, <2>1 DEF LogInv, LastInv, Terminal
<1>7. LogInv(t)'
  BY <1>4, <1>5, <1>6 DEF LogInv
<1> QED BY <1>3, <1>7, LogSteps

\* What is observed is the record of this moment.
LEMMA ObserveKeeps ==
  ASSUME AppInv, NEW t \in Turns, Observe(t)
  PROVE  AppInv'
<1> DEFINE q == IF PendingApproval(t) THEN req[t] ELSE None
           n == [status |-> status[t], item |-> item[t], req |-> q]
<1>1. /\ wpc[t] = "observe" /\ snap' = [snap EXCEPT ![t] = n]
      /\ wpc' = [wpc EXCEPT ![t] = "emit"]
      /\ UNCHANGED <<status, item, req, dec, bg, reader, open, started, completed, lastReq, ask,
                     pending, chan, asked, log, said, socket, parked>>
  BY DEF Observe, WatchGoto
<1>2. /\ wpc \in [Turns -> {"off", "observe", "emit", "recv", "ask", "done"}]
      /\ snap \in [Turns -> Snapshot] /\ status[t] \in Statuses
      /\ item[t] \in [Items -> Marks] /\ req[t] \in Requests \cup {None}
  BY DEF AppInv, AppType
<1>3. q \in {req[t], None} /\ q \in Requests \cup {None}
  BY <1>2
<1>4. /\ n \in Snapshot /\ n.status = status[t] /\ n.item = item[t] /\ n.req = q
  BY <1>2, <1>3 DEF Snapshot
<1> HIDE DEF q, n
<1>5. /\ snap'[t] = n /\ snap' \in [Turns -> Snapshot]
      /\ \A u \in Turns \ {t} : snap'[u] = snap[u] /\ wpc'[u] = wpc[u]
      /\ wpc'[t] = "emit"
      /\ wpc' \in [Turns -> {"off", "observe", "emit", "recv", "ask", "done"}]
  BY <1>1, <1>2, <1>4
<1>6. AppType'
  BY <1>1, <1>5 DEF AppInv, AppType
<1>7. OwnInv'
  <2>1. OwnInv /\ AskInv /\ asked \in Seq(Requests)
    BY DEF AppInv, AskInv, AppType
  <2>2. \A u \in Turns : snap'[u].req = snap[u].req \/ (u = t /\ snap'[u].req \in {req[t], None})
    BY <1>3, <1>4, <1>5
  <2>3. \A u \in Turns, r \in Requests : Owns(u, r)' => Owns(u, r)
    BY <1>1, <2>2 DEF Owns
  <2>4. \A k \in DOMAIN asked : asked[k] # None
    BY <2>1, AppNoneAssumption
  <2>5. \A u \in Turns, k \in DOMAIN asked :
          asked[k] = req[u] \/ asked[k] = snap'[u].req => asked[k] = lastReq[u]
    BY <2>1, <2>2, <2>4 DEF OwnInv
  <2>6. \A u \in Turns :
          snap'[u].req # None /\ snap'[u].req # lastReq[u] /\ req[u] # None =>
            req[u] # lastReq[u]
    BY <2>1, <2>2 DEF OwnInv
  <2>7. /\ \A u \in Turns, r \in Requests : Owns(u, r)' => r \in parked
        /\ \A u, v \in Turns, r \in Requests : Owns(u, r)' /\ Owns(v, r)' => u = v
    BY <2>1, <2>3 DEF OwnInv
  <2> QED BY <1>1, <2>1, <2>5, <2>6, <2>7 DEF OwnInv
<1>8. AskInv'
  <2>1. ChanInv
    BY DEF AppInv, AskInv
  <2>2. ChanInv'
    BY <1>1, <2>1 DEF ChanInv
  <2> QED BY <1>7, <2>2 DEF AskInv
<1>9. \A u \in Turns \ {t} : Left(u)
  BY <1>1, <1>5 DEF Left
<1>10. LogInv(t) /\ ~Heard(t, TurnCompleted) /\ status[t] # "absent" /\ bg[t] = "run"
       /\ reader # t /\ log[t] # <<>>
  BY <1>1, Watching DEF AppInv
<1>11. InOrder(log[t])' /\ \A x : Heard(t, x)' = Heard(t, x)
  BY <1>1, <1>10, SameLog DEF LogInv
<1>12. ReplyInv(t)' /\ SetsInv(t)'
  BY <1>1, <1>5, <1>10, <1>11 DEF LogInv, ReplyInv, SetsInv
<1>13. LastInv(t)'
  BY <1>1, <1>2, <1>4, <1>5, <1>10, <1>11 DEF LastInv, Terminal, Statuses
<1>14. LogInv(t)'
  BY <1>11, <1>12, <1>13 DEF LogInv
<1> QED BY <1>1, <1>6, <1>8, <1>9, <1>14, LogSteps

\* An item is announced once, and its end after that.
LEMMA EmitItemKeeps ==
  ASSUME AppInv, NEW t \in Turns, EmitItem(t)
  PROVE  AppInv'
<1>1. PICK i \in Items, e \in Event :
        /\ WriteLocked(t, e)
        /\ \/ /\ e = Started(i) /\ i \notin started[t]
              /\ started' = [started EXCEPT ![t] = @ \cup {i}] /\ completed' = completed
           \/ /\ e = Completed(i) /\ i \in started[t] /\ i \notin completed[t]
              /\ completed' = [completed EXCEPT ![t] = @ \cup {i}] /\ started' = started
  <2>1. CASE \E i \in ToStart(t) :
               /\ started' = [started EXCEPT ![t] = @ \cup {i}]
               /\ WriteLocked(t, <<"item/started", i>>) /\ UNCHANGED completed
    <3>1. PICK i \in ToStart(t) :
               /\ started' = [started EXCEPT ![t] = @ \cup {i}]
               /\ WriteLocked(t, Started(i)) /\ UNCHANGED completed
      BY <2>1 DEF Started
    <3>2. i \in Items /\ i \notin started[t] /\ Started(i) \in Event
      BY DEF ToStart, Event
    <3> QED BY <3>1, <3>2
  <2>2. CASE \E i \in ToComplete(t) :
               /\ completed' = [completed EXCEPT ![t] = @ \cup {i}]
               /\ WriteLocked(t, <<"item/completed", i>>) /\ UNCHANGED started
    <3>1. PICK i \in ToComplete(t) :
               /\ completed' = [completed EXCEPT ![t] = @ \cup {i}]
               /\ WriteLocked(t, Completed(i)) /\ UNCHANGED started
      BY <2>2 DEF Completed
    <3>2. i \in started[t] /\ i \notin completed[t]
      BY DEF ToComplete
    <3>3. i \in Items
      BY <3>2 DEF AppInv, AppType
    <3>4. Completed(i) \in Event
      BY <3>3 DEF Event
    <3> QED BY <3>1, <3>2, <3>3, <3>4
  <2> QED BY <2>1, <2>2 DEF EmitItem
<1>2. /\ wpc[t] = "emit"
      /\ UNCHANGED <<status, item, req, dec, bg, reader, open, wpc, snap, lastReq, ask,
                     pending, chan, asked, said, socket, parked>>
  BY DEF EmitItem
<1>3. /\ AppType /\ LogInv(t) /\ SetsInv(t) /\ LastInv(t) /\ ReplyInv(t)
      /\ started \in [Turns -> SUBSET Items] /\ completed \in [Turns -> SUBSET Items]
      /\ log[t] # <<>> /\ ~Heard(t, TurnCompleted) /\ InOrder(log[t])
  BY <1>2, Watching DEF AppInv, AppType, LogInv
<1>4. /\ log' \in [Turns -> Seq(Event)]
      /\ \A u \in Turns \ {t} : log'[u] = log[u]
      /\ \A x : Heard(t, x)' <=> Heard(t, x) \/ (open /\ x = e)
      /\ open => log'[t] # <<>>
      /\ ~open => log'[t] = log[t]
  BY <1>1, <1>3, Writing
<1>5. /\ started' \in [Turns -> SUBSET Items] /\ completed' \in [Turns -> SUBSET Items]
      /\ \A u \in Turns \ {t} : started'[u] = started[u] /\ completed'[u] = completed[u]
      /\ \/ /\ e = Started(i) /\ i \notin started[t]
            /\ started'[t] = started[t] \cup {i} /\ completed'[t] = completed[t]
         \/ /\ e = Completed(i) /\ i \in started[t] /\ i \notin completed[t]
            /\ completed'[t] = completed[t] \cup {i} /\ started'[t] = started[t]
  BY <1>1, <1>3
<1>6. AppType'
  BY <1>2, <1>3, <1>4, <1>5 DEF AppType
<1>7. AskInv'
  BY <1>2, AskStays DEF AppInv
<1>8. \A u \in Turns \ {t} : Left(u)
  BY <1>2, <1>4, <1>5 DEF Left
<1>9. InOrder(log[t])'
  <2>1. ~Heard(t, e)
    BY <1>3, <1>5 DEF SetsInv
  <2>2. \A j \in Items : open /\ e = Completed(j) => Heard(t, Started(j))
    BY <1>3, <1>5, EventsDiffer DEF SetsInv
  <2> QED BY <1>1, <1>3, <2>1, <2>2, WritingInOrder
<1>10. ReplyInv(t)'
  BY <1>2, <1>3, <1>4 DEF ReplyInv
<1>11. SetsInv(t)'
  <2>1. \A j \in Items : Heard(t, Started(j))' => j \in started'[t]
    BY <1>3, <1>4, <1>5, EventsDiffer DEF SetsInv
  <2>2. \A j \in Items : Heard(t, Completed(j))' => j \in completed'[t]
    BY <1>3, <1>4, <1>5, EventsDiffer DEF SetsInv
  <2>3. \A r \in Requests : Heard(t, Approval(r))' => \E k \in DOMAIN asked : asked[k] = r
    <3>1. \A r \in Requests : e # Approval(r)
      BY <1>5, EventsDiffer
    <3> QED BY <1>3, <1>4, <3>1 DEF SetsInv
  <2>4. open => /\ \A j \in started'[t] : Heard(t, Started(j))'
                /\ \A j \in completed'[t] : Heard(t, Completed(j))'
    BY <1>3, <1>4, <1>5 DEF SetsInv
  <2> QED BY <1>2, <2>1, <2>2, <2>3, <2>4 DEF SetsInv
<1>12. LastInv(t)'
  <2>1. ~Heard(t, TurnCompleted)'
    BY <1>3, <1>4, <1>5, EventsDiffer
  <2> QED BY <1>2, <1>3, <2>1 DEF LastInv, Terminal
<1>13. LogInv(t)'
  BY <1>9, <1>10, <1>11, <1>12 DEF LogInv
<1> QED BY <1>2, <1>6, <1>7, <1>8, <1>13, LogSteps

\* The end is told when nothing is left to say of the record, which is final.
LEMMA FinishWatchKeeps ==
  ASSUME AppInv, NEW t \in Turns, FinishWatch(t)
  PROVE  AppInv'
<1>1. /\ wpc[t] = "emit" /\ Ended(t) /\ (~open \/ ToStart(t) \cup ToComplete(t) = {})
      /\ WriteLocked(t, TurnCompleted) /\ wpc' = [wpc EXCEPT ![t] = "done"]
      /\ UNCHANGED <<status, item, req, dec, bg, reader, open, snap, started, completed,
                     lastReq, ask, pending, chan, asked, said, socket, parked>>
  BY DEF FinishWatch, WatchGoto, TurnCompleted
<1>2. /\ AppType /\ LogInv(t) /\ SetsInv(t) /\ LastInv(t) /\ ReplyInv(t)
      /\ wpc \in [Turns -> {"off", "observe", "emit", "recv", "ask", "done"}]
      /\ log[t] # <<>> /\ ~Heard(t, TurnCompleted) /\ InOrder(log[t])
      /\ TurnCompleted \in Event
  BY <1>1, Watching DEF AppInv, AppType, LogInv, Event
<1>3. /\ log' \in [Turns -> Seq(Event)]
      /\ \A u \in Turns \ {t} : log'[u] = log[u]
      /\ \A x : Heard(t, x)' <=> Heard(t, x) \/ (open /\ x = TurnCompleted)
      /\ open => log'[t] # <<>>
      /\ ~open => log'[t] = log[t]
  BY <1>1, <1>2, Writing
<1>4. /\ wpc' \in [Turns -> {"off", "observe", "emit", "recv", "ask", "done"}]
      /\ wpc'[t] = "done" /\ \A u \in Turns \ {t} : wpc'[u] = wpc[u]
  BY <1>1, <1>2
<1>5. AppType'
  BY <1>1, <1>2, <1>3, <1>4 DEF AppType
<1>6. AskInv'
  BY <1>1, AskStays DEF AppInv
<1>7. \A u \in Turns \ {t} : Left(u)
  BY <1>1, <1>3, <1>4 DEF Left
<1>8. \A i : Started(i) # TurnCompleted /\ Completed(i) # TurnCompleted
               /\ Approval(i) # TurnCompleted
  BY EventsDiffer
<1>9. InOrder(log[t])'
  BY <1>1, <1>2, <1>8, WritingInOrder
<1>10. ReplyInv(t)'
  BY <1>1, <1>2, <1>3, <1>4 DEF ReplyInv
<1>11. SetsInv(t)'
  BY <1>1, <1>2, <1>3, <1>8 DEF SetsInv
<1>12. LastInv(t)'
  <2>1. /\ snap[t].status \notin {"absent", "inProgress"} /\ Terminal(t)
        /\ snap[t].item = item[t]
    BY <1>1, <1>2 DEF LastInv, Ended
  <2>2. ASSUME open, NEW i \in Items
        PROVE  /\ item[t][i] # "none" => Heard(t, Started(i))
               /\ item[t][i] = "completed" => Heard(t, Completed(i))
    <3>1. ToStart(t) = {} /\ ToComplete(t) = {}
      BY <1>1, <2>2
    <3>2. item[t][i] # "none" => i \in started[t]
      BY <2>1, <3>1 DEF ToStart
    <3>3. item[t][i] = "completed" => i \in completed[t]
      BY <2>1, <3>1, <3>2 DEF ToComplete
    <3> QED BY <1>2, <2>2, <3>2, <3>3 DEF SetsInv
  <2>3. Heard(t, TurnCompleted)' => open
    BY <1>2, <1>3
  <2> QED BY <1>1, <1>2, <1>3, <1>4, <2>1, <2>2, <2>3 DEF LastInv, Terminal
<1>13. LogInv(t)'
  BY <1>9, <1>10, <1>11, <1>12 DEF LogInv
<1> QED BY <1>1, <1>5, <1>6, <1>7, <1>13, LogSteps

\* An answer is recorded for the request its id was used for.
LEMMA TryRecvKeeps ==
  ASSUME AppInv, NEW t \in Turns, TryRecv(t)
  PROVE  AppInv'
<1>1. /\ wpc[t] = "recv" /\ wpc' = [wpc EXCEPT ![t] = "ask"]
      /\ UNCHANGED <<status, item, req, parked, bg, reader, open, snap, started, completed,
                     lastReq, pending, chan, asked, log, said>>
  BY DEF TryRecv, WatchGoto
<1>2. /\ AppType /\ OwnInv /\ ChanInv
      /\ wpc \in [Turns -> {"off", "observe", "emit", "recv", "ask", "done"}]
      /\ ask \in [Turns -> [id : Ids, req : Requests] \cup {None}]
      /\ dec \in [Turns -> Decisions \cup {None}]
      /\ socket \in [Requests -> Decisions \cup {Bad, None}]
  BY DEF AppInv, AskInv, AppType
<1>3. wpc' \in [Turns -> {"off", "observe", "emit", "recv", "ask", "done"}]
  BY <1>1, <1>2
<1>4. OwnInv'
  BY <1>1, <1>2 DEF OwnInv, Owns
<1>5. /\ ask' \in [Turns -> [id : Ids, req : Requests] \cup {None}]
      /\ dec' \in [Turns -> Decisions \cup {None}]
      /\ socket' \in [Requests -> Decisions \cup {Bad, None}]
      /\ ChanInv'
  <2>1. CASE ask[t] # None /\ chan[ask[t].id] # None
    <3> DEFINE r == ask[t].req
               d == chan[ask[t].id]
    <3>1. ask' = [ask EXCEPT ![t] = None] /\ Respond(t, r, d)
      BY <2>1 DEF TryRecv
    <3>2. ask[t] \in [id : Ids, req : Requests]
      BY <1>2, <2>1
    <3>3. r \in Requests /\ ask[t].id \in Ids /\ ask[t].id \in DOMAIN asked /\ asked[ask[t].id] = r
      BY <1>2, <2>1, <3>2 DEF ChanInv
    <3>4. /\ ask' \in [Turns -> [id : Ids, req : Requests] \cup {None}]
          /\ \A u \in Turns : ask'[u] # None => ask'[u] = ask[u]
      BY <1>2, <3>1
    <3>5. CASE UNCHANGED <<dec, socket>>
      <4>1. ChanInv'
        BY <1>1, <1>2, <3>4, <3>5 DEF ChanInv
      <4> QED BY <1>2, <3>4, <3>5, <4>1
    <3>6. CASE d \in Decisions /\ dec' = [dec EXCEPT ![t] = d] /\ socket' = [socket EXCEPT ![r] = d]
      <4>1. /\ dec' \in [Turns -> Decisions \cup {None}]
            /\ socket' \in [Requests -> Decisions \cup {Bad, None}]
            /\ socket'[r] = d /\ \A x \in Requests \ {r} : socket'[x] = socket[x]
        BY <1>2, <3>3, <3>6
      <4>2. ASSUME NEW x \in Requests, socket'[x] # None
            PROVE  \E id \in Ids : id \in DOMAIN asked /\ asked[id] = x /\ chan[id] = socket'[x]
        <5>1. CASE x = r
          BY <3>3, <4>1, <5>1
        <5>2. CASE x # r
          BY <1>2, <4>1, <4>2, <5>2 DEF ChanInv
        <5> QED BY <5>1, <5>2
      <4>3. ChanInv'
        BY <1>1, <1>2, <3>4, <4>2 DEF ChanInv
      <4> QED BY <3>4, <4>1, <4>3
    <3> QED BY <3>1, <3>5, <3>6 DEF Respond
  <2>2. CASE ~(ask[t] # None /\ chan[ask[t].id] # None)
    <3>1. UNCHANGED <<ask, dec, socket>>
      BY <2>2 DEF TryRecv
    <3>2. ChanInv'
      BY <1>1, <1>2, <3>1 DEF ChanInv
    <3> QED BY <1>2, <3>1, <3>2
  <2> QED BY <2>1, <2>2
<1>6. AppType'
  BY <1>1, <1>2, <1>3, <1>5 DEF AppType
<1> QED BY <1>1, <1>4, <1>5, <1>6, WatchGoes DEF AskInv

\* An id is used for a request that no id was used for.
LEMMA AskKeeps ==
  ASSUME AppInv, NEW t \in Turns, Ask(t)
  PROVE  AppInv'
<1>1. /\ wpc[t] = "ask" /\ wpc' = [wpc EXCEPT ![t] = "observe"]
      /\ UNCHANGED <<status, item, req, dec, parked, bg, reader, open, snap, started, completed,
                     said, socket>>
  BY DEF Ask, WatchGoto
<1>2. /\ AppType /\ AskInv /\ OwnInv /\ ChanInv /\ SetsInv(t) /\ LastInv(t) /\ ReplyInv(t)
      /\ wpc \in [Turns -> {"off", "observe", "emit", "recv", "ask", "done"}]
      /\ ask \in [Turns -> [id : Ids, req : Requests] \cup {None}]
      /\ lastReq \in [Turns -> Requests \cup {None}]
      /\ asked \in Seq(Requests) /\ pending \subseteq Ids
      /\ log[t] # <<>> /\ ~Heard(t, TurnCompleted) /\ InOrder(log[t])
  BY <1>1, Watching DEF AppInv, AskInv, AppType, LogInv
<1>3. /\ wpc' \in [Turns -> {"off", "observe", "emit", "recv", "ask", "done"}]
      /\ wpc'[t] = "observe" /\ \A u \in Turns \ {t} : wpc'[u] = wpc[u]
  BY <1>1, <1>2
<1>4. CASE UNCHANGED <<askVars, lastReq, ask, log>>
  <2>1. AppType'
    BY <1>1, <1>2, <1>3, <1>4 DEF AppType
  <2>2. AskInv'
    BY <1>1, <1>2, <1>4, AskStays
  <2> QED BY <1>1, <1>4, <2>1, <2>2, WatchGoes
<1>5. CASE /\ snap[t].req \notin {None, lastReq[t]} /\ open
           /\ StartSocketApproval(t, snap[t].req)
  <2> DEFINE r == snap[t].req
             id == Len(asked) + 1
  <2>1. r \in Requests /\ r # None /\ r # lastReq[t]
    <3>1. snap[t] \in Snapshot
      BY <1>2 DEF AppType
    <3> QED BY <1>5, <3>1 DEF Snapshot
  <2>2. /\ id \in Ids /\ asked' = Append(asked, r) /\ pending' = pending \cup {id}
        /\ lastReq' = [lastReq EXCEPT ![t] = r] /\ ask' = [ask EXCEPT ![t] = [id |-> id, req |-> r]]
        /\ WriteLocked(t, Approval(r)) /\ chan' = chan
    BY <1>5 DEF StartSocketApproval, Approval
  <2> DEFINE new == [id |-> id, req |-> r]
  <2>3. new \in [id : Ids, req : Requests] /\ new.id = id /\ new.req = r
    BY <2>1, <2>2
  <2>4. ask' = [ask EXCEPT ![t] = new]
    BY <2>2
  <2>5. /\ asked' \in Seq(Requests) /\ DOMAIN asked = 1..Len(asked)
        /\ DOMAIN asked' = 1..id /\ Len(asked) \in Nat
        /\ (\A n \in DOMAIN asked : asked'[n] = asked[n]) /\ asked'[id] = r
    BY <1>2, <2>1, <2>2, Appending
  <2>6. id \notin DOMAIN asked /\ DOMAIN asked' = DOMAIN asked \cup {id}
    BY <2>5
  <2>7. \A k \in DOMAIN asked : asked[k] \in Requests
    BY <1>2
  <2> HIDE DEF id, r, new
  <2>8. /\ ask' \in [Turns -> [id : Ids, req : Requests] \cup {None}]
        /\ ask'[t] = new /\ \A u \in Turns \ {t} : ask'[u] = ask[u]
    BY <1>2, <2>3, <2>4
  <2>9. /\ lastReq' \in [Turns -> Requests \cup {None}]
        /\ lastReq'[t] = r /\ \A u \in Turns \ {t} : lastReq'[u] = lastReq[u]
    BY <1>2, <2>1, <2>2
  <2>10. Approval(r) \in Event
    BY <2>1 DEF Event
  <2>11. /\ log' \in [Turns -> Seq(Event)]
         /\ \A u \in Turns \ {t} : log'[u] = log[u]
         /\ \A x : Heard(t, x)' <=> Heard(t, x) \/ (open /\ x = Approval(r))
         /\ open => log'[t] # <<>>
    BY <1>2, <2>2, <2>10, Writing
  <2>12. pending' \subseteq Ids
    BY <1>2, <2>2
  <2>13. AppType'
    BY <1>1, <1>2, <1>3, <2>2, <2>5, <2>8, <2>9, <2>11, <2>12 DEF AppType
  <2>14. \A k \in DOMAIN asked : asked[k] # r
    BY <1>2, <2>1 DEF OwnInv, r
  <2>15. OwnInv'
    <3>1. Owns(t, r)
      BY <2>1 DEF Owns, r
    <3>2. \A u \in Turns, q \in Requests : Owns(u, q)' => Owns(u, q)
      BY <1>1, <2>9, <3>1 DEF Owns
    <3>3. r \in parked
      BY <1>2, <2>1, <3>1 DEF OwnInv
    <3>4. \A k \in DOMAIN asked' : asked'[k] \in parked
      BY <1>2, <2>5, <2>6, <3>3 DEF OwnInv
    <3>5. ASSUME NEW u \in Turns, NEW k \in DOMAIN asked',
                 asked'[k] = req[u] \/ asked'[k] = snap[u].req
          PROVE  asked'[k] = lastReq'[u]
      <4>1. CASE k = id
        <5>1. Owns(u, r)
          BY <2>1, <2>5, <3>5, <4>1 DEF Owns
        <5>2. u = t
          BY <1>2, <2>1, <3>1, <5>1 DEF OwnInv
        <5> QED BY <2>5, <2>9, <4>1, <5>2
      <4>2. CASE k \in DOMAIN asked /\ u = t
        <5>1. asked[k] = lastReq[t] /\ asked[k] # r /\ asked[k] = req[t]
          BY <1>2, <2>5, <2>14, <3>5, <4>2 DEF OwnInv, r
        <5>2. req[t] # None
          BY <2>7, <4>2, <5>1, AppNoneAssumption
        <5>3. req[t] # lastReq[t]
          BY <1>2, <2>1, <5>2 DEF OwnInv, r
        <5> QED BY <5>1, <5>3
      <4>3. CASE k \in DOMAIN asked /\ u # t
        BY <1>2, <2>5, <2>9, <3>5, <4>3 DEF OwnInv
      <4> QED BY <2>6, <4>1, <4>2, <4>3
    <3>6. \A u \in Turns :
            snap[u].req # None /\ snap[u].req # lastReq'[u] /\ req[u] # None =>
              req[u] # lastReq'[u]
      BY <1>2, <2>9 DEF OwnInv, r
    <3>7. \A j, k \in DOMAIN asked' : asked'[j] = asked'[k] => j = k
      BY <1>2, <2>5, <2>6, <2>14 DEF OwnInv
    <3>8. /\ \A u \in Turns, q \in Requests : Owns(u, q)' => q \in parked
          /\ \A u, v \in Turns, q \in Requests : Owns(u, q)' /\ Owns(v, q)' => u = v
      BY <1>2, <3>2 DEF OwnInv
    <3> QED BY <1>1, <3>4, <3>5, <3>6, <3>7, <3>8 DEF OwnInv
  <2>16. ChanInv'
    <3>1. chan[id] = None
      BY <1>2, <2>2, <2>6 DEF ChanInv
    <3>2. \A k \in pending' : k \in DOMAIN asked' /\ chan[k] = None
      BY <1>2, <2>2, <2>6, <3>1 DEF ChanInv
    <3>3. \A k \in Ids : chan[k] # None => k \in DOMAIN asked' /\ said[asked'[k]] = chan[k]
      BY <1>2, <2>5, <2>6 DEF ChanInv
    <3>4. \A u \in Turns :
            ask'[u] # None => ask'[u].id \in DOMAIN asked' /\ asked'[ask'[u].id] = ask'[u].req
      <4>1. ask'[t].id \in DOMAIN asked' /\ asked'[ask'[t].id] = ask'[t].req
        BY <2>3, <2>5, <2>6, <2>8
      <4>2. ASSUME NEW u \in Turns \ {t}, ask'[u] # None
            PROVE  ask'[u].id \in DOMAIN asked' /\ asked'[ask'[u].id] = ask'[u].req
        <5>1. ask[u].id \in DOMAIN asked /\ asked[ask[u].id] = ask[u].req /\ ask'[u] = ask[u]
          BY <1>2, <2>8, <4>2 DEF ChanInv
        <5> QED BY <2>5, <2>6, <5>1
      <4> QED BY <4>1, <4>2
    <3>5. ASSUME NEW x \in Requests, socket[x] # None
          PROVE  \E k \in Ids : k \in DOMAIN asked' /\ asked'[k] = x /\ chan[k] = socket[x]
      <4>1. PICK k \in Ids : k \in DOMAIN asked /\ asked[k] = x /\ chan[k] = socket[x]
        BY <1>2, <3>5 DEF ChanInv
      <4> QED BY <2>5, <2>6, <4>1
    <3> QED BY <1>1, <2>2, <3>2, <3>3, <3>4, <3>5 DEF ChanInv
  <2>17. \A q \in Requests : (\E k \in DOMAIN asked : asked[k] = q) =>
                               (\E k \in DOMAIN asked : asked[k] = q)'
    BY <2>5, <2>6
  <2>18. \A u \in Turns \ {t} : Left(u)
    BY <1>1, <1>3, <2>11 DEF Left
  <2>19. InOrder(log[t])'
    <3>1. ~Heard(t, Approval(r))
      BY <1>2, <2>1, <2>14 DEF SetsInv
    <3>2. \A i : Approval(r) # Completed(i)
      BY EventsDiffer
    <3> QED BY <1>2, <2>2, <2>10, <3>1, <3>2, WritingInOrder
  <2>20. ReplyInv(t)'
    BY <1>1, <1>2, <1>3, <1>5, <2>11 DEF ReplyInv
  <2>21. SetsInv(t)'
    <3>1. \A i : Started(i) # Approval(r) /\ Completed(i) # Approval(r)
                  /\ (Approval(i) = Approval(r) => i = r)
      BY EventsDiffer
    <3>2. \A q \in Requests : Heard(t, Approval(q))' => \E k \in DOMAIN asked' : asked'[k] = q
      <4>1. \A q \in Requests : Heard(t, Approval(q))' => Heard(t, Approval(q)) \/ q = r
        BY <2>11, <3>1
      <4>2. \A q \in Requests : Heard(t, Approval(q)) => \E k \in DOMAIN asked : asked[k] = q
        BY <1>2 DEF SetsInv
      <4> QED BY <2>5, <2>6, <4>1, <4>2
    <3> QED BY <1>1, <1>2, <2>11, <3>1, <3>2 DEF SetsInv
  <2>22. LastInv(t)'
    <3>1. ~Heard(t, TurnCompleted)'
      BY <1>2, <2>11, EventsDiffer
    <3> QED BY <1>1, <1>2, <1>3, <3>1 DEF LastInv, Terminal
  <2>23. LogInv(t)'
    BY <2>19, <2>20, <2>21, <2>22 DEF LogInv
  <2> QED BY <1>1, <2>13, <2>15, <2>16, <2>17, <2>18, <2>23, LogSteps DEF AskInv
<1> QED BY <1>4, <1>5 DEF Ask

\* Every step keeps the invariant.
LEMMA AppNext == AppInv /\ [Next]_vars => AppInv'
<1> SUFFICES ASSUME AppInv, [Next]_vars PROVE AppInv'
  OBVIOUS
<1>1. CASE UNCHANGED vars
  <2>1. UNCHANGED <<status, item, req, dec, bg, reader, open, wpc, snap, started, completed,
                    lastReq, ask, pending, chan, asked, log, said, socket, parked>>
    BY <1>1 DEF vars
  <2>2. AppType' /\ AskInv'
    BY <2>1, AskStays DEF AppInv, AppType
  <2>3. ASSUME NEW t \in Turns PROVE LogInv(t)'
    BY <2>1, LogStays DEF AppInv, Left
  <2> QED BY <2>2, <2>3 DEF AppInv
<1>2. ASSUME NEW t \in Turns, TurnStart(t) \/ Admit(t) \/ AfterRpc(t) \/ AdmitTimeout(t)
      PROVE  AppInv'
  BY <1>2, TurnStartKeeps, AdmitKeeps, AfterRpcKeeps, AdmitTimeoutKeeps
<1>3. ASSUME NEW t \in Turns, RunStep(t) \/ TurnInterrupt(t) PROVE AppInv'
  BY <1>3, RunKeeps
<1>4. ASSUME NEW t \in Turns, WatchStep(t) PROVE AppInv'
  <2>1. CASE Emitted(t)
    <3>1. /\ wpc[t] = "emit" /\ wpc' = [wpc EXCEPT ![t] = "recv"]
          /\ UNCHANGED <<status, item, req, dec, bg, reader, open, snap, started, completed,
                         lastReq, ask, pending, chan, asked, log, said, socket, parked>>
      BY <2>1 DEF Emitted, WatchGoto
    <3>2. AppType' /\ AskInv'
      BY <3>1, AskStays DEF AppInv, AppType
    <3> QED BY <3>1, <3>2, WatchGoes
  <2> QED BY <1>4, <2>1, ObserveKeeps, EmitItemKeeps, FinishWatchKeeps, TryRecvKeeps, AskKeeps
          DEF WatchStep
<1>5. ASSUME NEW id \in Ids, NEW d \in Answers, DeliverPending(id, d) PROVE AppInv'
  BY <1>5, DeliverKeeps
<1>6. CASE StopReading \/ ClientCloses
  BY <1>6, ReaderEnds
<1> QED BY <1>1, <1>2, <1>3, <1>4, <1>5, <1>6 DEF Next

-----------------------------------------------------------------------------
\* The state of a connection is always one the code can have: a request is one
\* turn's, its watcher asks about it under one id, an id is answered once, the
\* client hears of a turn in order, and a terminal turn a watcher has observed is
\* the record for good.  From TurnStart to FinishWatch, and whatever is done to
\* the records from elsewhere.
THEOREM AppInvariant == Spec => []AppInv
<1>1. AppInv /\ [Next]_vars => AppInv'
  BY AppNext
<1> QED BY <1>1, AppInit, PTL DEF Spec

\* What deliver_pending hands to the watcher of a turn and the watcher records
\* for a request (try_recv, then ledger.respond) is what the client said about
\* that request, however late it comes and whatever has been parked since.
THEOREM AnswersReachTheirAsk == Spec => []SocketAnswersItsAsk
<1>1. AppInv => SocketAnswersItsAsk
  <2> SUFFICES ASSUME AppInv, NEW r \in Requests, socket[r] # None PROVE said[r] = socket[r]
    BY DEF SocketAnswersItsAsk
  <2>1. PICK id \in Ids : id \in DOMAIN asked /\ asked[id] = r /\ chan[id] = socket[r]
    BY DEF AppInv, AskInv, ChanInv
  <2> QED BY <2>1 DEF AppInv, AskInv, ChanInv
<1> QED BY <1>1, AppInvariant, PTL

\* The client hears of a turn in order: the reply of rpc_loop to turn/start, then
\* of each item once (emit_item_notifications, whose sets hold what was written),
\* then once of its end (watch_turn), and by then of all that the record holds.
THEOREM TurnIsToldInOrder == Spec => []NotificationOrder
<1>1. AppInv => NotificationOrder
  <2> SUFFICES ASSUME AppInv, NEW t \in Turns
               PROVE  /\ \A e \in ToSet(log[t]) : Cardinality(Position(t, e)) = 1
                      /\ log[t] # <<>> => log[t][1] = Reply
                      /\ \A i \in Items, k \in DOMAIN log[t] :
                           log[t][k] = Completed(i) =>
                             \E j \in 1..(k - 1) : log[t][j] = Started(i)
                      /\ \A k \in DOMAIN log[t] :
                           log[t][k] = TurnCompleted => k = Len(log[t])
                      /\ TurnCompleted \in ToSet(log[t]) =>
                           \A i \in Items :
                             /\ item[t][i] # "none" => Started(i) \in ToSet(log[t])
                             /\ item[t][i] = "completed" => Completed(i) \in ToSet(log[t])
    BY DEF NotificationOrder, Reply, Completed, Started, TurnCompleted
  <2>1. InOrder(log[t]) /\ LastInv(t)
    BY DEF AppInv, LogInv
  <2>2. \A e : e \in ToSet(log[t]) <=> Heard(t, e)
    BY DEF ToSet, Heard
  <2>3. ASSUME NEW e \in ToSet(log[t]) PROVE Cardinality(Position(t, e)) = 1
    <3>1. PICK k \in DOMAIN log[t] : log[t][k] = e
      BY <2>2, <2>3 DEF Heard
    <3>2. Position(t, e) = {k}
      BY <2>1, <3>1 DEF InOrder, Position
    <3> QED BY <3>2, FS_Singleton
  <2>4. TurnCompleted \in ToSet(log[t]) =>
          \A i \in Items :
            /\ item[t][i] # "none" => Started(i) \in ToSet(log[t])
            /\ item[t][i] = "completed" => Completed(i) \in ToSet(log[t])
    BY <2>1, <2>2 DEF LastInv
  <2> QED BY <2>1, <2>3, <2>4 DEF InOrder
<1> QED BY <1>1, AppInvariant, PTL
=============================================================================
