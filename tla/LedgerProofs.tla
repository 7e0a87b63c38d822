---------------------------- MODULE LedgerProofs ----------------------------
(***************************************************************************)
(* Proofs about module Ledger for any number of actors, threads, turns,    *)
(* keys and requests.                                                      *)
(***************************************************************************)
EXTENDS LedgerInv, TLAPS

\* No step forgets a turn, moves it to another thread or key, or reopens it.
TurnsKeep ==
  \A u \in Turns :
    turn[u] # None =>
      /\ turn'[u] # None
      /\ turn'[u].thread = turn[u].thread
      /\ turn'[u].key = turn[u].key
      /\ turn[u].status # "inProgress" => turn'[u].status # "inProgress"

NoNewTurn == \A u \in Turns : turn[u] = None => turn'[u] = None

GensKeep ==
  \A u \in Turns :
    gen[u] # None => gen'[u] # None /\ gen'[u].owner = gen[u].owner

\* A step of others, seen by actor b.
EnvKeeps(b) ==
  /\ pc'[b] = pc[b] /\ op'[b] = op[b]
  /\ TurnsKeep /\ GensKeep
  /\ NoNewTurn \/ admitLock # b
  /\ admitLock = b => admitLock' = b
  /\ \A th \in Threads : /\ threadLock[th] = b => threadLock'[th] = b
                         /\ thread[th] # None => thread'[th] # None
  /\ \A r \in Requests : outcome[r] # "unused" => outcome'[r] # "unused"

-----------------------------------------------------------------------------
\* A step of others that respects b's locks leaves b's part of the invariant.
LEMMA OthersKeep ==
  ASSUME AdmissionInv, TypeOK', NEW b \in Actors, EnvKeeps(b)
  PROVE  ActorInv(b)'
<1> USE DEF AdmissionInv, ActorInv
<1>0. op[b] \in Op /\ \A u \in Turns : turn[u] # None => turn[u] \in Turn
  BY DEF TypeOK
<1>1. LockInv(b)'
  <2>1. Admitting(b)' = Admitting(b) /\ OnThread(b)' = OnThread(b)
    BY DEF EnvKeeps, Admitting, OnThread
  <2>2. \A u \in Turns : Terminal(u) => Terminal(u)' /\ turn'[u].thread = turn[u].thread
                                        /\ turn[u].thread \in Threads
    BY <1>0 DEF EnvKeeps, TurnsKeep, Terminal, Admitted, Turn
  <2> QED BY <2>1, <2>2 DEF LockInv, EnvKeeps, OnThread, Admitting, AdmitLabels, ThreadLabels
<1>2. CallInv(b)'
  <2>1. OnThread(b)' = OnThread(b)
    BY DEF EnvKeeps, OnThread
  <2>2. Admitted \subseteq Admitted' /\ Issued \subseteq Issued'
    BY DEF EnvKeeps, TurnsKeep, Admitted, Issued
  <2>3. OnThread(b) => PointsInto(op[b].thread, op[b].copy)'
    BY <2>2, <1>0 DEF EnvKeeps, TurnsKeep, PointsInto, Admitted, CallInv, Op, Thread
  <2>4. pc[b] = "writeTurn" => NoNewTurn
    BY DEF EnvKeeps, LockInv, Admitting, AdmitLabels
  <2> QED BY <2>1, <2>2, <2>3, <2>4, <1>0 DEF CallInv, EnvKeeps, TurnsKeep, GensKeep, NewLabels, NoNewTurn, Admitted
<1>3. FreshInv(b)'
  BY DEF FreshInv, EnvKeeps
<1>4. ScanInv(b)'
  <2> SUFFICES ASSUME NEW t \in Turns, InProgress(t)'
               PROVE ScanInv(b)!(t)!2'
    BY DEF ScanInv
  <2>1. CASE NoNewTurn
    <3>1. InProgress(t) /\ turn'[t].thread = turn[t].thread /\ turn'[t].key = turn[t].key
      BY <2>1 DEF NoNewTurn, EnvKeeps, TurnsKeep, InProgress, Admitted
    <3> QED BY <3>1 DEF ScanInv, EnvKeeps
  <2>2. CASE admitLock # b
    BY <2>2 DEF EnvKeeps, LockInv, Admitting, AdmitLabels
  <2> QED BY <2>1, <2>2 DEF EnvKeeps
<1> QED BY <1>1, <1>2, <1>3, <1>4

\* Steps that admit no turn keep the files consistent and the two exclusions.
LEMMA FilesKeep ==
  ASSUME AdmissionInv, TypeOK', TurnsKeep, NoNewTurn, GensKeep,
         UNCHANGED client,
         \A th \in Threads : thread'[th] = thread[th] \/ PointsInto(th, thread'[th])
  PROVE  FileInv' /\ OneInProgressPerThread' /\ OneInFlightPerKey'
<1> USE DEF AdmissionInv
<1>1. Admitted' = Admitted /\ \A u \in Turns : InProgress(u)' => InProgress(u)
  BY DEF TurnsKeep, NoNewTurn, Admitted, InProgress
<1>2. FileInv'
  BY <1>1 DEF FileInv, PointsInto, TurnsKeep, GensKeep, Admitted, TypeOK, Thread
<1>3. OneInProgressPerThread'
  BY <1>1 DEF OneInProgressPerThread, TurnsKeep, InProgress, Admitted
<1>4. OneInFlightPerKey'
  BY <1>1 DEF OneInFlightPerKey, TurnsKeep, InProgress, Admitted
<1> QED BY <1>2, <1>3, <1>4

\* An actor that is back in "idle" has nothing to keep.
LEMMA IdleKeeps ==
  ASSUME NEW a \in Actors, pc'[a] = "idle", op'[a] = NoOp
  PROVE  ActorInv(a)'
BY DEF ActorInv, LockInv, CallInv, FreshInv, ScanInv, Admitting, OnThread,
       AdmitLabels, ThreadLabels, NewLabels, NoOp

\* A step of actor a that keeps the turns, its own part of the invariant and
\* the locks of the others keeps the whole.
LEMMA StepKeeps ==
  ASSUME AdmissionInv, TypeOK', TurnsKeep, NoNewTurn, GensKeep, UNCHANGED client,
         \A th \in Threads : /\ thread'[th] = thread[th] \/ PointsInto(th, thread'[th])
                             /\ thread[th] # None => thread'[th] # None,
         \A r \in Requests : outcome[r] # "unused" => outcome'[r] # "unused",
         NEW a \in Actors, ActorInv(a)',
         \A b \in Actors \ {a} :
           /\ pc'[b] = pc[b] /\ op'[b] = op[b]
           /\ admitLock = b => admitLock' = b
           /\ \A th \in Threads : threadLock[th] = b => threadLock'[th] = b
  PROVE  AdmissionInv'
<1>1. FileInv' /\ OneInProgressPerThread' /\ OneInFlightPerKey'
  BY FilesKeep
<1>2. ASSUME NEW b \in Actors, b # a PROVE ActorInv(b)'
  <2>1. EnvKeeps(b)
    BY <1>2 DEF EnvKeeps
  <2> QED BY <2>1, OthersKeep
<1> QED BY <1>1, <1>2 DEF AdmissionInv

\* A jump to a label keeps pc well-typed and moves nobody else.
LEMMA GotoType ==
  ASSUME TypeOK, NEW a \in Actors, NEW l \in Labels, Goto(a, l)
  PROVE  /\ pc' \in [Actors -> Labels] /\ pc'[a] = l
         /\ \A b \in Actors \ {a} : pc'[b] = pc[b]
BY DEF Goto, TypeOK

\* The guards that go out of scope are the actor's own.
LEMMA DropLocksType ==
  ASSUME TypeOK, NEW a \in Actors, DropLocks(a)
  PROVE  /\ admitLock' \in Actors \cup {None}
         /\ threadLock' \in [Threads -> Actors \cup {None}]
         /\ \A b \in Actors \ {a} :
              /\ admitLock = b => admitLock' = b
              /\ \A th \in Threads : threadLock[th] = b => threadLock'[th] = b
BY DEF DropLocks, TypeOK

\* A call that returns is idle with fresh locals; nobody else moves.
LEMMA ReturnType ==
  ASSUME TypeOK, NEW a \in Actors, Return(a)
  PROVE  /\ pc' \in [Actors -> Labels] /\ op' \in [Actors -> Op]
         /\ pc'[a] = "idle" /\ op'[a] = NoOp
         /\ \A b \in Actors \ {a} : pc'[b] = pc[b] /\ op'[b] = op[b]
<1>1. NoOp \in Op
  BY DEF NoOp, Op, Returns
<1> QED BY <1>1 DEF Return, Goto, TypeOK, Labels

\* A call that returns without a write.
LEMMA LeaveKeeps ==
  ASSUME AdmissionInv, NEW a \in Actors, Leave(a)
  PROVE  AdmissionInv'
<1> USE DEF AdmissionInv
<1>1. /\ DropLocks(a) /\ Return(a)
      /\ UNCHANGED <<thread, turn, gen, client, hold, running, outcome, answered, gone, bare>>
  BY DEF Leave, files, extras
<1>2. TypeOK'
  BY <1>1, DropLocksType, ReturnType DEF TypeOK
<1>3. TurnsKeep /\ NoNewTurn /\ GensKeep
  BY <1>1 DEF TurnsKeep, NoNewTurn, GensKeep
<1>4. ActorInv(a)'
  BY <1>1, ReturnType, IdleKeeps
<1> QED BY <1>1, <1>2, <1>3, <1>4, DropLocksType, ReturnType, StepKeeps

\* A step that only moves on.
LEMMA GotoKeeps ==
  ASSUME AdmissionInv, NEW a \in Actors, NEW l \in Labels, Goto(a, l), ActorInv(a)',
         UNCHANGED <<files, locks, hold, running, op, extras>>
  PROVE  AdmissionInv'
<1> USE DEF AdmissionInv
<1>1. UNCHANGED <<thread, turn, gen, client, admitLock, threadLock, hold, running,
                  op, outcome, answered, gone, bare>>
  BY DEF files, locks, extras
<1>2. TypeOK'
  BY <1>1, GotoType DEF TypeOK
<1>3. TurnsKeep /\ NoNewTurn /\ GensKeep
  BY <1>1 DEF TurnsKeep, NoNewTurn, GensKeep
<1> QED BY <1>1, <1>2, <1>3, GotoType, StepKeeps

\* publish_terminal_locked: the turn ends, the actor is about to clear the
\* pointer under the thread lock.
LEMMA PublishKeeps ==
  ASSUME AdmissionInv, NEW a \in Actors, NEW t \in Turns,
         NEW s \in Statuses \ {"inProgress"}, NEW f \in Failures,
         NEW ret \in Returns, InProgress(t),
         \/ /\ pc[a] \in {"pointer", "live"} /\ ret = "live"
            /\ turn[t].thread = op[a].thread
         \/ /\ \/ pc[a] = "index" /\ ret = "dedup"
               \/ /\ pc[a] \in {"idle", "dedup", "list", "await", "gate"}
                  /\ ret = pc[a]
            /\ ThreadLockFree(t),
         PublishTerminalLocked(a, t, s, f, ret)
  PROVE  AdmissionInv'
<1> USE DEF AdmissionInv
<1> DEFINE th == turn[t].thread
<1>1. turn[t] \in Turn /\ th \in Threads
  BY DEF InProgress, Admitted, TypeOK, Turn
<1>2. UNCHANGED <<thread, gen, client, admitLock, hold, running, outcome, answered, gone, bare>>
  BY DEF PublishTerminalLocked, extras
<1>3. turn' \in [Turns -> Turn \cup {None}] /\ TurnsKeep /\ NoNewTurn /\ Terminal(t)'
  <2>1. turn' = [turn EXCEPT ![t] = [turn[t] EXCEPT !.status = s, !.failure = f]]
    BY DEF PublishTerminalLocked
  <2>2. [turn[t] EXCEPT !.status = s, !.failure = f] \in Turn
    BY <1>1 DEF Turn
  <2> QED BY <1>1, <2>1, <2>2, NoneAssumption DEF TypeOK, Turn, TurnsKeep, NoNewTurn, Terminal, Admitted
<1>4. op' = [op EXCEPT ![a] = [op[a] EXCEPT !.pub = t, !.ret = ret]]
  BY DEF PublishTerminalLocked, TypeOK
<1>5. op' \in [Actors -> Op] /\ pc' \in [Actors -> Labels]
  <2>1. [op[a] EXCEPT !.pub = t, !.ret = ret] \in Op
    BY DEF TypeOK, Op
  <2>2. pc' \in [Actors -> Labels]
    BY DEF TypeOK, PublishTerminalLocked, Goto, Labels
  <2> QED BY <1>4, <2>1, <2>2 DEF TypeOK
<1>6. threadLock' \in [Threads -> Actors \cup {None}] /\ threadLock' = [threadLock EXCEPT ![th] = a]
  BY <1>1 DEF TypeOK, PublishTerminalLocked
<1>7. TypeOK'
  BY <1>2, <1>3, <1>5, <1>6 DEF TypeOK
<1>8. GensKeep
  BY <1>2 DEF GensKeep
<1>9. ActorInv(a)'
  <2>1. pc'[a] = "clear"
    BY DEF TypeOK, PublishTerminalLocked, Goto
  <2>2. /\ op'[a].pub = t /\ op'[a].ret = ret /\ op'[a].thread = op[a].thread
        /\ op'[a].key = op[a].key /\ op'[a].turn = op[a].turn
        /\ op'[a].seen = op[a].seen /\ op'[a].req = op[a].req
        /\ op'[a].dec = op[a].dec /\ op'[a].copy = op[a].copy
    BY <1>4 DEF TypeOK, Op
  <2>3. ActorInv(a)
    OBVIOUS
  <2>4. threadLock'[th] = a /\ turn'[t].thread = th /\ th \in Threads
    BY <1>1, <1>3, <1>6 DEF TypeOK, TurnsKeep, InProgress, Admitted
  <2>5. LockInv(a)'
    BY <2>1, <2>2, <2>3, <2>4, <1>2, <1>3
    DEF ActorInv, LockInv, Admitting, OnThread, AdmitLabels, ThreadLabels
  <2>6. Admitted \subseteq Admitted' /\ Issued' = Issued
    BY <1>2, <1>3 DEF TurnsKeep, Admitted, Issued
  <2>7. ASSUME NEW x \in Threads, PointsInto(x, op[a].copy), op[a].copy \in Thread
        PROVE  PointsInto(x, op[a].copy)'
    BY <1>3, <2>2, <2>6, <2>7 DEF PointsInto, TurnsKeep, Admitted, Thread
  <2>8. CallInv(a)'
    BY <2>1, <2>2, <2>3, <2>6, <2>7, <1>2
    DEF ActorInv, CallInv, LockInv, OnThread, Admitting, AdmitLabels,
        ThreadLabels, NewLabels, PointsInto
  <2>9. FreshInv(a)'
    BY <2>1, <2>2, <2>3 DEF ActorInv, FreshInv
  <2>10. ScanInv(a)'
    BY <2>1, <2>2, <2>3, <1>3
    DEF ActorInv, FreshInv, ScanInv, TurnsKeep, NoNewTurn, InProgress, Admitted
  <2> QED BY <2>5, <2>8, <2>9, <2>10 DEF ActorInv
<1>10. ASSUME NEW b \in Actors \ {a}
       PROVE  /\ pc'[b] = pc[b] /\ op'[b] = op[b]
              /\ \A x \in Threads : threadLock[x] = b => threadLock'[x] = b
  <2>1. pc'[b] = pc[b] /\ op'[b] = op[b]
    BY <1>4 DEF TypeOK, PublishTerminalLocked, Goto
  <2>2. threadLock[th] \in {None, a}
    BY DEF ThreadLockFree, ActorInv, LockInv, OnThread, ThreadLabels, AdmitLabels
  <2> QED BY <1>1, <1>6, <2>1, <2>2, NoneAssumption DEF TypeOK
<1> QED BY <1>2, <1>3, <1>7, <1>8, <1>9, <1>10, StepKeeps
-----------------------------------------------------------------------------
(***************************************************************************)
(* One lemma per operation.                                                *)
(***************************************************************************)
LEMMA ClearPointerKeeps ==
  ASSUME AdmissionInv, NEW a \in Actors, ClearPointer(a)
  PROVE  AdmissionInv'
<1> USE DEF AdmissionInv
<1> DEFINE t == op[a].pub
           th == turn[t].thread
           ret == op[a].ret
<1>1. /\ ActorInv(a) /\ pc[a] = "clear" /\ t \in Turns /\ Terminal(t)
      /\ th \in Threads /\ threadLock[th] = a
      /\ op[a] \in Op /\ ret \in Returns /\ ret \in Labels
  BY DEF ActorInv, LockInv, ClearPointer, Terminal, Admitted, TypeOK, Turn, Op,
         Returns, Labels
<1>2. UNCHANGED <<turn, gen, client, admitLock, running, outcome, answered>>
  BY DEF ClearPointer
<1>3. /\ thread' \in [Threads -> Thread \cup {None}]
      /\ \A x \in Threads : /\ thread'[x] = thread[x] \/ PointsInto(x, thread'[x])
                            /\ thread[x] # None => thread'[x] # None
  <2>1. CASE UNCHANGED thread
    BY <2>1 DEF TypeOK
  <2>2. CASE thread[th] # None /\ thread' = [thread EXCEPT ![th].ptr = None]
    <3>1. thread[th] \in Thread
      BY <1>1, <2>2 DEF TypeOK
    <3>2. /\ [thread[th] EXCEPT !.ptr = None] \in Thread
          /\ [thread[th] EXCEPT !.ptr = None].ptr = None
      BY <3>1 DEF Thread
    <3>3. PointsInto(th, [thread[th] EXCEPT !.ptr = None])
      BY <3>2 DEF PointsInto
    <3> QED BY <1>1, <2>2, <3>2, <3>3, NoneAssumption DEF TypeOK
  <2> QED BY <2>1, <2>2 DEF ClearPointer
<1>4. /\ op' \in [Actors -> Op] /\ op'[a] = [op[a] EXCEPT !.pub = None, !.ret = "idle"]
      /\ \A b \in Actors \ {a} : op'[b] = op[b]
  <2>1. [op[a] EXCEPT !.pub = None, !.ret = "idle"] \in Op
    BY <1>1 DEF Op, Returns
  <2>2. op' = [op EXCEPT ![a] = [op[a] EXCEPT !.pub = None, !.ret = "idle"]]
    BY DEF ClearPointer, TypeOK
  <2> QED BY <2>1, <2>2 DEF TypeOK
<1>5. /\ pc' \in [Actors -> Labels] /\ pc'[a] = ret
      /\ \A b \in Actors \ {a} : pc'[b] = pc[b]
  BY <1>1, GotoType DEF ClearPointer
<1>6. /\ threadLock' \in [Threads -> Actors \cup {None}]
      /\ hold' \in [Turns -> Actors \cup {None}]
      /\ gone' \subseteq Turns /\ bare' \subseteq Turns
      /\ ret = "live" => threadLock' = threadLock
      /\ \A b \in Actors \ {a}, x \in Threads : threadLock[x] = b => threadLock'[x] = b
  BY <1>1 DEF ClearPointer, TypeOK
<1>7. TypeOK'
  BY <1>2, <1>3, <1>4, <1>5, <1>6 DEF TypeOK
<1>8. TurnsKeep /\ NoNewTurn /\ GensKeep
  BY <1>2 DEF TurnsKeep, NoNewTurn, GensKeep
<1>9. ActorInv(a)'
  <2>1. /\ op'[a].thread = op[a].thread /\ op'[a].key = op[a].key
        /\ op'[a].turn = op[a].turn /\ op'[a].seen = op[a].seen
        /\ op'[a].req = op[a].req /\ op'[a].dec = op[a].dec
        /\ op'[a].copy = op[a].copy
    BY <1>1, <1>4 DEF Op
  <2> USE <1>1, <1>2, <1>5, <2>1 DEF ActorInv, Returns
  <2>2. LockInv(a)'
    BY <1>3, <1>6 DEF LockInv, Admitting, OnThread, AdmitLabels, ThreadLabels
  <2>3. CallInv(a)'
    BY DEF CallInv, OnThread, ThreadLabels, AdmitLabels, NewLabels, PointsInto, Admitted, Issued
  <2>4. FreshInv(a)'
    BY DEF FreshInv
  <2>5. ScanInv(a)'
    BY DEF ScanInv, InProgress, Admitted
  <2> QED BY <2>2, <2>3, <2>4, <2>5
<1> QED BY <1>2, <1>3, <1>4, <1>5, <1>6, <1>7, <1>8, <1>9, StepKeeps

\* A turn that is passed by a scan.
LEMMA SkipKeeps ==
  ASSUME AdmissionInv, NEW a \in Actors, NEW t \in Admitted, Skip(a, t),
         \/ pc[a] = "dedup" /\ (InProgress(t) => turn[t].key # op[a].key)
         \/ pc[a] = "live" /\ (InProgress(t) => turn[t].thread # op[a].thread)
  PROVE  AdmissionInv'
<1> USE DEF AdmissionInv
<1>1. UNCHANGED <<thread, turn, gen, client, admitLock, threadLock, hold, running,
                  pc, outcome, answered, gone, bare>>
  BY DEF Skip, files, locks, extras
<1>2. op[a] \in Op /\ t \in Turns
  BY DEF TypeOK, Admitted
<1>3. /\ op' \in [Actors -> Op] /\ op'[a] = [op[a] EXCEPT !.seen = @ \cup {t}]
      /\ \A b \in Actors \ {a} : op'[b] = op[b]
  BY <1>2 DEF Skip, TypeOK, Op
<1>4. /\ op'[a].seen = op[a].seen \cup {t} /\ op'[a].ret = op[a].ret
      /\ op'[a].thread = op[a].thread /\ op'[a].key = op[a].key
      /\ op'[a].turn = op[a].turn /\ op'[a].copy = op[a].copy
  BY <1>2, <1>3 DEF Op
<1>5. TypeOK'
  BY <1>1, <1>3 DEF TypeOK
<1>6. TurnsKeep /\ NoNewTurn /\ GensKeep
  BY <1>1 DEF TurnsKeep, NoNewTurn, GensKeep
<1>7. ActorInv(a)'
  <2> USE <1>1, <1>4 DEF ActorInv
  <2>1. ActorInv(a)
    OBVIOUS
  <2>2. LockInv(a)'
    BY <2>1 DEF LockInv, Admitting, OnThread
  <2>3. CallInv(a)' /\ FreshInv(a)'
    BY <2>1 DEF CallInv, FreshInv, OnThread, ThreadLabels, AdmitLabels, NewLabels, PointsInto, Admitted
  <2>4. ScanInv(a)'
    BY <2>1 DEF ScanInv, InProgress, Admitted
  <2> QED BY <2>2, <2>3, <2>4
<1> QED BY <1>1, <1>3, <1>5, <1>6, <1>7, StepKeeps

\* The by-client index may be missing or stale: whatever it says, the scan
\* that follows starts with nothing seen.
LEMMA LookupClientKeeps ==
  ASSUME AdmissionInv, NEW a \in Actors, LookupClient(a)
  PROVE  AdmissionInv'
<1> DEFINE t == client[op[a].key]
<1>1. /\ ActorInv(a) /\ pc[a] = "index" /\ op[a].key \in Keys
      /\ t \in Turns \cup {None} /\ pc \in [Actors -> Labels]
  BY DEF AdmissionInv, ActorInv, LockInv, LookupClient, TypeOK
<1>2. CASE /\ Goto(a, "dedup")
           /\ UNCHANGED <<files, locks, hold, running, op, extras>>
  <2>1. /\ pc'[a] = "dedup" /\ UNCHANGED <<thread, turn, gen, client, admitLock, threadLock, op, outcome>>
    BY <1>1, <1>2 DEF Goto, files, locks, extras
  <2>2. ActorInv(a)'
    BY <1>1, <2>1 DEF ActorInv, LockInv, CallInv, FreshInv, ScanInv, Admitting,
       OnThread, AdmitLabels, ThreadLabels, NewLabels
  <2> QED BY <1>2, <2>2, GotoKeeps DEF Labels
<1>3. CASE Leave(a)
  BY <1>3, LeaveKeeps
<1>4. CASE t # None /\ SeenDead(a, t) /\ ThreadLockFree(t) /\ ObserveDead(a, t, "dedup")
  BY <1>1, <1>4, PublishKeeps DEF SeenDead, ObserveDead, Statuses, Failures, Returns
<1> QED BY <1>2, <1>3, <1>4 DEF LookupClient

\* A turn the key scan passes is not in flight with the key, and no turn can
\* be admitted behind its back.
LEMMA ScanClientKeeps ==
  ASSUME AdmissionInv, NEW a \in Actors, ScanClient(a)
  PROVE  AdmissionInv'
<1>1. ActorInv(a) /\ pc[a] = "dedup" /\ pc \in [Actors -> Labels]
  BY DEF AdmissionInv, ScanClient, TypeOK
<1>2. CASE /\ Scanned(a) /\ Goto(a, "lockThread")
           /\ UNCHANGED <<files, locks, hold, running, op, extras>>
  <2>1. /\ pc'[a] = "lockThread"
        /\ UNCHANGED <<thread, turn, gen, client, admitLock, threadLock, op, outcome>>
    BY <1>1, <1>2 DEF Goto, files, locks, extras
  <2>2. ActorInv(a)'
    BY <1>1, <1>2, <2>1 DEF ActorInv, LockInv, CallInv, FreshInv, ScanInv, Admitting,
       OnThread, AdmitLabels, ThreadLabels, NewLabels, Scanned, InProgress, Admitted
  <2> QED BY <1>2, <2>2, GotoKeeps DEF Labels
<1>3. ASSUME NEW t \in Admitted \ op[a].seen, turn[t].key # op[a].key, Skip(a, t)
      PROVE  AdmissionInv'
  BY <1>1, <1>3, SkipKeeps
<1>4. ASSUME NEW t \in Admitted \ op[a].seen, Terminal(t), Skip(a, t)
      PROVE  AdmissionInv'
  BY <1>1, <1>4, SkipKeeps DEF Terminal, InProgress
<1>5. CASE Leave(a)
  BY <1>5, LeaveKeeps
<1>6. ASSUME NEW t \in Admitted \ op[a].seen, ThreadLockFree(t), SeenDead(a, t), ObserveDead(a, t, "dedup")
      PROVE  AdmissionInv'
  BY <1>1, <1>6, PublishKeeps DEF SeenDead, ObserveDead, Statuses, Failures, Returns, Admitted
<1> QED BY <1>2, <1>3, <1>4, <1>5, <1>6 DEF ScanClient
\* Taking the thread lock gives the admission a copy that points into the
\* thread and starts a fresh scan.
LEMMA LockThreadKeeps ==
  ASSUME AdmissionInv, NEW a \in Actors, LockThread(a)
  PROVE  AdmissionInv'
<1> USE DEF AdmissionInv
<1> DEFINE th == op[a].thread
<1>1. /\ ActorInv(a) /\ pc[a] = "lockThread" /\ threadLock[th] = None /\ op[a] \in Op
      /\ admitLock = a /\ th \in Threads /\ thread[th] \in Thread
  BY DEF ActorInv, LockInv, LockThread, Admitting, AdmitLabels, TypeOK
<1>2. UNCHANGED <<thread, turn, gen, client, admitLock, hold, running, outcome, answered, gone, bare>>
  BY DEF LockThread, files, extras
<1>3. op' = [op EXCEPT ![a] = [op[a] EXCEPT !.copy = thread[th], !.seen = {}]]
  BY DEF LockThread, TypeOK
<1>4. [op[a] EXCEPT !.copy = thread[th], !.seen = {}] \in Op
  BY <1>1 DEF Op
<1>5. /\ op' \in [Actors -> Op] /\ \A b \in Actors \ {a} : op'[b] = op[b]
  BY <1>3, <1>4 DEF TypeOK
<1>6. /\ op'[a].copy = thread[th] /\ op'[a].seen = {} /\ op'[a].thread = th
      /\ op'[a].key = op[a].key
  BY <1>1, <1>3 DEF Op, TypeOK
<1>7. /\ pc' \in [Actors -> Labels] /\ pc'[a] = "pointer"
      /\ \A b \in Actors \ {a} : pc'[b] = pc[b]
  BY GotoType DEF LockThread, Labels
<1>8. /\ threadLock' \in [Threads -> Actors \cup {None}] /\ threadLock'[th] = a
      /\ \A b \in Actors, x \in Threads : threadLock[x] = b => threadLock'[x] = b
  BY <1>1, NoneAssumption DEF LockThread, TypeOK
<1>9. TypeOK'
  BY <1>2, <1>5, <1>7, <1>8 DEF TypeOK
<1>10. TurnsKeep /\ NoNewTurn /\ GensKeep
  BY <1>2 DEF TurnsKeep, NoNewTurn, GensKeep
<1>11. ActorInv(a)'
  <2> USE <1>1, <1>2, <1>6, <1>7, <1>8 DEF ActorInv
  <2>1. LockInv(a)'
    BY DEF LockInv, Admitting, OnThread, AdmitLabels, ThreadLabels
  <2>2. CallInv(a)' /\ FreshInv(a)'
    BY DEF CallInv, FreshInv, NewLabels, FileInv, PointsInto, Admitted
  <2>3. ScanInv(a)'
    BY DEF ScanInv, InProgress, Admitted
  <2> QED BY <2>1, <2>2, <2>3
<1> QED BY <1>2, <1>5, <1>7, <1>8, <1>9, <1>10, <1>11, StepKeeps

\* The turn the pointer names belongs to the thread whose lock is held.
LEMMA CheckPointerKeeps ==
  ASSUME AdmissionInv, NEW a \in Actors, CheckPointer(a)
  PROVE  AdmissionInv'
<1> DEFINE t == op[a].copy.ptr
<1>1. /\ ActorInv(a) /\ pc[a] = "pointer" /\ pc \in [Actors -> Labels]
      /\ OnThread(a) /\ op[a].copy \in Thread
  BY DEF AdmissionInv, ActorInv, LockInv, CheckPointer, TypeOK, OnThread,
         ThreadLabels, AdmitLabels
<1>2. t # None => t \in Turns /\ turn[t].thread = op[a].thread
  BY <1>1, NoneAssumption DEF ActorInv, CallInv, PointsInto, Thread
<1>3. CASE /\ Goto(a, "live")
           /\ UNCHANGED <<files, locks, hold, running, op, extras>>
  <2>1. /\ pc'[a] = "live"
        /\ UNCHANGED <<thread, turn, gen, client, admitLock, threadLock, op, outcome>>
    BY <1>1, <1>3 DEF Goto, files, locks, extras
  <2>2. LockInv(a)' /\ FreshInv(a)' /\ ScanInv(a)'
    BY <1>1, <2>1 DEF ActorInv, LockInv, FreshInv, ScanInv, Admitting, OnThread,
       AdmitLabels, ThreadLabels, InProgress, Admitted
  <2>3. CallInv(a)'
    BY <1>1, <2>1 DEF ActorInv, CallInv, OnThread, AdmitLabels, ThreadLabels,
       NewLabels, PointsInto, Admitted
  <2> QED BY <1>3, <2>2, <2>3, GotoKeeps DEF Labels, ActorInv
<1>4. CASE Leave(a)
  BY <1>4, LeaveKeeps
<1>5. CASE t # None /\ SeenDead(a, t) /\ ObserveDead(a, t, "live")
  BY <1>1, <1>2, <1>5, PublishKeeps DEF SeenDead, ObserveDead, Statuses, Failures, Returns
<1> QED BY <1>3, <1>4, <1>5 DEF CheckPointer

\* When the scan of the thread ends, no turn of it is in progress.
LEMMA ScanThreadKeeps ==
  ASSUME AdmissionInv, NEW a \in Actors, ScanThread(a)
  PROVE  AdmissionInv'
<1>1. ActorInv(a) /\ pc[a] = "live" /\ pc \in [Actors -> Labels]
  BY DEF AdmissionInv, ScanThread, TypeOK
<1>2. CASE /\ Scanned(a) /\ Goto(a, "writeGen")
           /\ UNCHANGED <<files, locks, hold, running, op, extras>>
  <2>1. /\ pc'[a] = "writeGen"
        /\ UNCHANGED <<thread, turn, gen, client, admitLock, threadLock, op, outcome>>
    BY <1>1, <1>2 DEF Goto, files, locks, extras
  <2>2. LockInv(a)' /\ FreshInv(a)' /\ ScanInv(a)'
    BY <1>1, <1>2, <2>1 DEF ActorInv, LockInv, FreshInv, ScanInv, Admitting, OnThread,
       AdmitLabels, ThreadLabels, Scanned, InProgress, Admitted
  <2>3. CallInv(a)'
    BY <1>1, <2>1 DEF ActorInv, CallInv, OnThread, AdmitLabels, ThreadLabels,
       NewLabels, PointsInto, Admitted
  <2> QED BY <1>2, <2>2, <2>3, GotoKeeps DEF Labels, ActorInv
<1>3. ASSUME NEW t \in Admitted \ op[a].seen,
             turn[t].thread # op[a].thread \/ Terminal(t), Skip(a, t)
      PROVE  AdmissionInv'
  BY <1>1, <1>3, SkipKeeps DEF Terminal, InProgress
<1>4. CASE Leave(a)
  BY <1>4, LeaveKeeps
<1>5. ASSUME NEW t \in Admitted \ op[a].seen, turn[t].thread = op[a].thread,
             SeenDead(a, t), ObserveDead(a, t, "live")
      PROVE  AdmissionInv'
  BY <1>1, <1>5, PublishKeeps DEF SeenDead, ObserveDead, Statuses, Failures, Returns, Admitted
<1> QED BY <1>2, <1>3, <1>4, <1>5 DEF ScanThread

\* The generation file is written for an id that no turn uses.
LEMMA WriteGenerationKeeps ==
  ASSUME AdmissionInv, NEW a \in Actors, NEW t \in Turns, WriteGeneration(a, t)
  PROVE  AdmissionInv'
<1> USE DEF AdmissionInv
<1>1. /\ ActorInv(a) /\ pc[a] = "writeGen" /\ op[a] \in Op
      /\ turn[t] = None /\ gen[t] = None
  BY DEF WriteGeneration, TypeOK
<1>2. UNCHANGED <<thread, turn, client, admitLock, threadLock, hold, running,
                  outcome, answered, gone, bare>>
  BY DEF WriteGeneration, locks, extras
<1>3. /\ op' \in [Actors -> Op] /\ op'[a] = [op[a] EXCEPT !.turn = t]
      /\ \A b \in Actors \ {a} : op'[b] = op[b]
  BY <1>1 DEF WriteGeneration, TypeOK, Op
<1>4. /\ op'[a].turn = t /\ op'[a].thread = op[a].thread /\ op'[a].key = op[a].key
      /\ op'[a].copy = op[a].copy
  BY <1>1, <1>3 DEF Op
<1>5. /\ pc' \in [Actors -> Labels] /\ pc'[a] = "writeTurn"
      /\ \A b \in Actors \ {a} : pc'[b] = pc[b]
  BY GotoType DEF WriteGeneration, Labels
<1>6. /\ gen' \in [Turns -> Generation \cup {None}]
      /\ gen'[t] # None /\ gen'[t].owner = a
      /\ \A u \in Turns \ {t} : gen'[u] = gen[u]
  <2>1. [owner |-> a, child |-> None, eof |-> FALSE] \in Generation
    BY DEF Generation
  <2> QED BY <2>1, NoneAssumption DEF WriteGeneration, TypeOK
<1>7. TypeOK'
  BY <1>2, <1>3, <1>5, <1>6 DEF TypeOK
<1>8. TurnsKeep /\ NoNewTurn /\ GensKeep
  BY <1>1, <1>2, <1>6 DEF TurnsKeep, NoNewTurn, GensKeep
<1>9. ActorInv(a)'
  <2> USE <1>1, <1>2, <1>4, <1>5, <1>6 DEF ActorInv
  <2>1. LockInv(a)'
    BY DEF LockInv, Admitting, OnThread, AdmitLabels, ThreadLabels
  <2>2. CallInv(a)' /\ FreshInv(a)'
    BY DEF CallInv, FreshInv, NewLabels, OnThread, ThreadLabels, AdmitLabels, PointsInto, Admitted
  <2>3. ScanInv(a)'
    BY DEF ScanInv, InProgress, Admitted
  <2> QED BY <2>1, <2>2, <2>3
<1> QED BY <1>2, <1>3, <1>5, <1>7, <1>8, <1>9, StepKeeps

\* The only step that adds a turn.  The scans have shown that no turn of the
\* thread and none with the key is in progress, and the admission lock keeps
\* the others from adding one.
LEMMA WriteTurnKeeps ==
  ASSUME AdmissionInv, NEW a \in Actors, WriteTurn(a)
  PROVE  AdmissionInv'
<1> USE DEF AdmissionInv
<1> DEFINE t == op[a].turn
           new == [thread |-> op[a].thread, key |-> op[a].key,
                   status |-> "inProgress", failure |-> "", req |-> None,
                   dec |-> None, items |-> {}]
<1>1. /\ ActorInv(a) /\ pc[a] = "writeTurn" /\ op[a] \in Op
      /\ t \in Turns /\ turn[t] = None /\ gen[t] # None
      /\ admitLock = a /\ op[a].thread \in Threads
  BY DEF WriteTurn, ActorInv, CallInv, LockInv, Admitting, AdmitLabels, TypeOK
<1>2. UNCHANGED <<thread, gen, client, admitLock, threadLock, hold, running, op,
                  outcome, answered, gone, bare>>
  BY DEF WriteTurn, locks, extras
<1>3. /\ new \in Turn /\ new # None /\ new.thread = op[a].thread
      /\ new.key = op[a].key /\ new.status = "inProgress"
  <2>1. op[a].key \in Keys \cup {None}
    BY <1>1 DEF Op
  <2>2. new \in Turn
    BY <1>1, <2>1 DEF Turn, Statuses, Failures
  <2> QED BY <2>2, NoneAssumption
<1>a. turn' = [turn EXCEPT ![t] = new]
  BY DEF WriteTurn
<1> HIDE DEF new
<1>4. /\ turn' \in [Turns -> Turn \cup {None}] /\ turn'[t] = new
      /\ \A u \in Turns \ {t} : turn'[u] = turn[u]
  BY <1>1, <1>3, <1>a DEF TypeOK
<1>5. /\ pc' \in [Actors -> Labels] /\ pc'[a] = "writePointer"
      /\ \A b \in Actors \ {a} : pc'[b] = pc[b]
  BY GotoType DEF WriteTurn, Labels
<1>6. TypeOK'
  BY <1>2, <1>4, <1>5 DEF TypeOK
<1>7. TurnsKeep /\ GensKeep
  BY <1>1, <1>2, <1>4 DEF TurnsKeep, GensKeep
<1>8. Admitted' = Admitted \cup {t} /\ t \notin Admitted
  BY <1>1, <1>3, <1>4 DEF Admitted
<1>9. ActorInv(a)'
  <2> USE <1>1, <1>2, <1>5 DEF ActorInv
  <2>1. LockInv(a)'
    BY DEF LockInv, Admitting, OnThread, AdmitLabels, ThreadLabels
  <2>2. PointsInto(op[a].thread, op[a].copy)'
    <3>1. op[a].copy \in Thread /\ PointsInto(op[a].thread, op[a].copy)
      BY DEF LockInv, CallInv, OnThread, ThreadLabels, AdmitLabels
    <3> QED BY <3>1, <1>7, <1>8 DEF PointsInto, Thread, TurnsKeep, Admitted
  <2>3. CallInv(a)' /\ FreshInv(a)'
    BY <1>3, <1>4, <1>8, <2>2 DEF CallInv, FreshInv, NewLabels
  <2>4. ScanInv(a)'
    BY DEF ScanInv
  <2> QED BY <2>1, <2>3, <2>4
<1>10. ASSUME NEW b \in Actors, b # a PROVE ActorInv(b)'
  <2>1. EnvKeeps(b)
    BY <1>1, <1>2, <1>5, <1>7, <1>10 DEF EnvKeeps
  <2> QED BY <2>1, <1>6, OthersKeep
<1>11. FileInv'
  BY <1>1, <1>2, <1>4, <1>7, <1>8 DEF FileInv, PointsInto, TurnsKeep, Admitted, TypeOK, Thread
<1>12. \A u \in Turns \ {t} : InProgress(u)' =>
         /\ InProgress(u) /\ turn[u].thread # op[a].thread
         /\ op[a].key # None => turn[u].key # op[a].key
  BY <1>1, <1>4 DEF ActorInv, ScanInv, InProgress, Admitted
<1>13. OneInProgressPerThread' /\ OneInFlightPerKey'
  <2>1. OneInProgressPerThread'
    BY <1>1, <1>3, <1>4, <1>12 DEF OneInProgressPerThread
  <2>2. OneInFlightPerKey'
    BY <1>1, <1>3, <1>4, <1>12 DEF OneInFlightPerKey
  <2> QED BY <2>1, <2>2
<1> QED BY <1>6, <1>9, <1>10, <1>11, <1>13

\* The pointer names the turn just written, or keeps naming an older one.
LEMMA WritePointerKeeps ==
  ASSUME AdmissionInv, NEW a \in Actors, WritePointer(a)
  PROVE  AdmissionInv'
<1> USE DEF AdmissionInv
<1> DEFINE th == op[a].thread
           new == [op[a].copy EXCEPT !.ptr = op[a].turn]
           l == IF op[a].key = None THEN "holdLive" ELSE "storeClient"
<1>1. /\ ActorInv(a) /\ pc[a] = "writePointer" /\ op[a] \in Op
      /\ op[a].turn \in Admitted /\ turn[op[a].turn].thread = th
      /\ op[a].copy \in Thread /\ th \in Threads
  BY DEF WritePointer, ActorInv, CallInv, LockInv, Admitting, OnThread, AdmitLabels,
         ThreadLabels, NewLabels, TypeOK
<1>2. UNCHANGED <<turn, gen, client, admitLock, threadLock, hold, running, op,
                  outcome, answered, gone, bare>>
  BY DEF WritePointer, locks, extras
<1>3. new \in Thread /\ new # None /\ PointsInto(th, new)
  BY <1>1, NoneAssumption DEF Thread, PointsInto, Admitted
<1>4. /\ thread' \in [Threads -> Thread \cup {None}]
      /\ \A x \in Threads : /\ thread'[x] = thread[x] \/ PointsInto(x, thread'[x])
                            /\ thread[x] # None => thread'[x] # None
  BY <1>1, <1>3 DEF WritePointer, TypeOK
<1>5. /\ pc' \in [Actors -> Labels] /\ pc'[a] = l
      /\ \A b \in Actors \ {a} : pc'[b] = pc[b]
  BY GotoType DEF WritePointer, Labels
<1>6. TypeOK'
  BY <1>2, <1>4, <1>5 DEF TypeOK
<1>7. TurnsKeep /\ NoNewTurn /\ GensKeep
  BY <1>2 DEF TurnsKeep, NoNewTurn, GensKeep
<1>8. ActorInv(a)'
  <2> USE <1>1, <1>2, <1>5 DEF ActorInv
  <2>1. LockInv(a)'
    BY <1>4 DEF LockInv, Admitting, OnThread, AdmitLabels, ThreadLabels
  <2>2. op[a].key # None => op[a].key \in Keys
    BY DEF Op
  <2>3. CallInv(a)' /\ FreshInv(a)'
    BY <2>2 DEF CallInv, FreshInv, NewLabels, OnThread, ThreadLabels, AdmitLabels, PointsInto, Admitted
  <2>4. ScanInv(a)'
    BY DEF ScanInv
  <2> QED BY <2>1, <2>3, <2>4
<1> QED BY <1>2, <1>4, <1>5, <1>6, <1>7, <1>8, StepKeeps

\* The index entry names a turn that exists.
LEMMA StoreClientKeeps ==
  ASSUME AdmissionInv, NEW a \in Actors, StoreClient(a)
  PROVE  AdmissionInv'
<1> USE DEF AdmissionInv
<1>1. /\ ActorInv(a) /\ pc[a] = "storeClient" /\ op[a].key \in Keys
      /\ op[a].turn \in Admitted
  BY DEF StoreClient, ActorInv, CallInv, NewLabels
<1>2. UNCHANGED <<thread, turn, gen, admitLock, threadLock, hold, running, op,
                  outcome, answered, gone, bare>>
  BY DEF StoreClient, locks, extras
<1>3. /\ client' \in [Keys -> Turns \cup {None}]
      /\ \A k \in Keys : client'[k] = client[k] \/ client'[k] \in Admitted
  BY <1>1 DEF StoreClient, TypeOK, Admitted
<1>4. /\ pc' \in [Actors -> Labels] /\ pc'[a] = "holdLive"
      /\ \A b \in Actors \ {a} : pc'[b] = pc[b]
  BY GotoType DEF StoreClient, Labels
<1>5. TypeOK'
  BY <1>2, <1>3, <1>4 DEF TypeOK
<1>6. TurnsKeep /\ NoNewTurn /\ GensKeep
  BY <1>2 DEF TurnsKeep, NoNewTurn, GensKeep
<1>7. ActorInv(a)'
  <2> USE <1>1, <1>2, <1>4 DEF ActorInv
  <2>1. LockInv(a)'
    BY DEF LockInv, Admitting, OnThread, AdmitLabels, ThreadLabels
  <2>2. CallInv(a)' /\ FreshInv(a)'
    BY DEF CallInv, FreshInv, NewLabels, OnThread, ThreadLabels, AdmitLabels, PointsInto, Admitted
  <2>3. ScanInv(a)'
    BY DEF ScanInv
  <2> QED BY <2>1, <2>2, <2>3
<1>8. ASSUME NEW b \in Actors, b # a PROVE ActorInv(b)'
  <2>1. EnvKeeps(b)
    BY <1>2, <1>4, <1>6, <1>8 DEF EnvKeeps
  <2> QED BY <2>1, <1>5, OthersKeep
<1>9. FileInv' /\ OneInProgressPerThread' /\ OneInFlightPerKey'
  BY <1>2, <1>3 DEF FileInv, PointsInto, Admitted, OneInProgressPerThread,
                    OneInFlightPerKey, InProgress
<1> QED BY <1>5, <1>7, <1>8, <1>9

\* The live hold is taken and the admission returns.
LEMMA HoldLiveKeeps ==
  ASSUME AdmissionInv, NEW a \in Actors, HoldLive(a)
  PROVE  AdmissionInv'
<1> USE DEF AdmissionInv
<1>1. /\ DropLocks(a) /\ Return(a)
      /\ UNCHANGED <<thread, turn, gen, client, running, outcome, answered, gone>>
  BY DEF HoldLive, files
<1>2. hold' \in [Turns -> Actors \cup {None}] /\ bare' \subseteq Turns
  BY DEF HoldLive, TypeOK, ActorInv, CallInv, NewLabels, Admitted
<1>3. TypeOK'
  BY <1>1, <1>2, DropLocksType, ReturnType DEF TypeOK
<1>4. TurnsKeep /\ NoNewTurn /\ GensKeep
  BY <1>1 DEF TurnsKeep, NoNewTurn, GensKeep
<1>5. ActorInv(a)'
  BY <1>1, ReturnType, IdleKeeps
<1> QED BY <1>1, <1>3, <1>4, <1>5, DropLocksType, ReturnType, StepKeeps
\* A gate that wakes up still works on a turn that exists.
LEMMA WaitPendingDecisionKeeps ==
  ASSUME AdmissionInv, NEW a \in Actors, WaitPendingDecision(a)
  PROVE  AdmissionInv'
<1> USE DEF AdmissionInv
<1> DEFINE t == op[a].turn
<1>1. /\ ActorInv(a) /\ pc[a] = "gate" /\ op[a] \in Op /\ ThreadLockFree(t)
      /\ t \in Turns /\ turn[t] \in Turn
  BY DEF WaitPendingDecision, ActorInv, CallInv, Admitted, TypeOK
<1>2. CASE SeenDead(a, t) /\ ObserveDead(a, t, "gate")
  BY <1>1, <1>2, PublishKeeps DEF SeenDead, ObserveDead, Statuses, Failures, Returns
<1>3. CASE /\ UNCHANGED op \/ op' = [op EXCEPT ![a].dec = turn[t].dec]
           /\ Goto(a, "ungate")
           /\ UNCHANGED <<files, locks, hold, running, extras>>
  <2>1. UNCHANGED <<thread, turn, gen, client, admitLock, threadLock, hold, running,
                    outcome, answered, gone, bare>>
    BY <1>3 DEF files, locks, extras
  <2>2. /\ op' \in [Actors -> Op] /\ op'[a].turn = t /\ op'[a].req = op[a].req
        /\ \A b \in Actors \ {a} : op'[b] = op[b]
    <3>1. CASE UNCHANGED op
      BY <1>1, <3>1 DEF TypeOK
    <3>2. CASE op' = [op EXCEPT ![a].dec = turn[t].dec]
      <4>1. turn[t].dec \in Decisions \cup {None}
        BY <1>1 DEF Turn
      <4> QED BY <1>1, <3>2, <4>1 DEF TypeOK, Op
    <3> QED BY <1>3, <3>1, <3>2
  <2>3. /\ pc' \in [Actors -> Labels] /\ pc'[a] = "ungate"
        /\ \A b \in Actors \ {a} : pc'[b] = pc[b]
    BY <1>3, GotoType DEF Labels
  <2>4. TypeOK'
    BY <2>1, <2>2, <2>3 DEF TypeOK
  <2>5. TurnsKeep /\ NoNewTurn /\ GensKeep
    BY <2>1 DEF TurnsKeep, NoNewTurn, GensKeep
  <2>6. ActorInv(a)'
    BY <1>1, <2>1, <2>2, <2>3
    DEF ActorInv, LockInv, CallInv, FreshInv, ScanInv, Admitting, OnThread,
        AdmitLabels, ThreadLabels, NewLabels, Admitted, Issued
  <2> QED BY <2>1, <2>2, <2>3, <2>4, <2>5, <2>6, StepKeeps
<1> QED BY <1>2, <1>3 DEF WaitPendingDecision

\* A write of a turn file that leaves thread, key and status alone.
LEMMA TurnUpdate ==
  ASSUME TypeOK, NEW t \in Turns, turn[t] \in Turn, NEW new \in Turn,
         turn' = [turn EXCEPT ![t] = new],
         new.thread = turn[t].thread, new.key = turn[t].key,
         new.status = turn[t].status
  PROVE  turn' \in [Turns -> Turn \cup {None}] /\ TurnsKeep /\ NoNewTurn
BY NoneAssumption DEF TypeOK, TurnsKeep, NoNewTurn

\* ... and of its request and decision in particular.
LEMMA GateUpdate ==
  ASSUME TypeOK, NEW t \in Turns, turn[t] \in Turn,
         NEW r \in Requests \cup {None}, NEW d \in Decisions \cup {None},
         turn' = [turn EXCEPT ![t].req = r, ![t].dec = d]
  PROVE  turn' \in [Turns -> Turn \cup {None}] /\ TurnsKeep /\ NoNewTurn
<1> DEFINE new == [turn[t] EXCEPT !.req = r, !.dec = d]
<1>1. /\ new \in Turn /\ new.thread = turn[t].thread /\ new.key = turn[t].key
      /\ new.status = turn[t].status
  BY DEF Turn
<1>2. turn' = [turn EXCEPT ![t] = new]
  BY DEF TypeOK
<1> HIDE DEF new
<1> QED BY <1>1, <1>2, TurnUpdate

\* Withdrawing a request changes neither the thread nor the status of a turn.
LEMMA ClearPendingKeeps ==
  ASSUME AdmissionInv, NEW a \in Actors, ClearPending(a)
  PROVE  AdmissionInv'
<1> USE DEF AdmissionInv
<1> DEFINE t == op[a].turn
           r == op[a].req
<1>1. /\ ActorInv(a) /\ op[a] \in Op /\ t \in Turns /\ turn[t] \in Turn
      /\ r \in Requests
  BY DEF ClearPending, ActorInv, CallInv, Admitted, Issued, TypeOK
<1>2. /\ Return(a)
      /\ UNCHANGED <<thread, gen, client, admitLock, threadLock, hold, running, answered, gone, bare>>
  BY DEF ClearPending, locks
<1>3. turn' \in [Turns -> Turn \cup {None}] /\ TurnsKeep /\ NoNewTurn
  <2>1. CASE UNCHANGED turn
    BY <2>1 DEF TypeOK, TurnsKeep, NoNewTurn
  <2>2. CASE turn' = [turn EXCEPT ![t].req = None, ![t].dec = None]
    BY <1>1, <2>2, GateUpdate
  <2> QED BY <2>1, <2>2 DEF ClearPending
<1>4. /\ outcome' \in [Requests -> Outcomes]
      /\ \A q \in Requests : outcome[q] # "unused" => outcome'[q] # "unused"
  <2>1. op[a].dec = None \/ op[a].dec \in Decisions
    BY <1>1 DEF Op
  <2> QED BY <1>1, <2>1, DecisionsAssumption DEF ClearPending, TypeOK, Outcomes
<1>5. TypeOK'
  BY <1>2, <1>3, <1>4, ReturnType DEF TypeOK
<1>6. GensKeep
  BY <1>2 DEF GensKeep
<1>7. ActorInv(a)'
  BY <1>2, ReturnType, IdleKeeps
<1> QED BY <1>2, <1>3, <1>4, <1>5, <1>6, <1>7, ReturnType, StepKeeps

\* Recording a decision changes neither the thread nor the status of a turn.
LEMMA RespondKeeps ==
  ASSUME AdmissionInv, NEW a \in Actors, Respond(a)
  PROVE  AdmissionInv'
<1> USE DEF AdmissionInv
<1> DEFINE t == op[a].turn
           d == op[a].dec
<1>1. /\ ActorInv(a) /\ op[a] \in Op /\ t \in Turns /\ turn[t] \in Turn
      /\ op[a].req \in Requests /\ d \in Decisions
  BY NoneAssumption DEF Respond, ActorInv, CallInv, Admitted, TypeOK, Op
<1>2. /\ Return(a)
      /\ UNCHANGED <<thread, gen, client, admitLock, threadLock, hold, running, outcome, gone, bare>>
  BY DEF Respond, locks
<1>3. /\ turn' \in [Turns -> Turn \cup {None}] /\ TurnsKeep /\ NoNewTurn
      /\ answered' \in [Requests -> Decisions \cup {None}]
  <2>1. CASE UNCHANGED <<turn, answered>>
    BY <2>1 DEF TypeOK, TurnsKeep, NoNewTurn
  <2>2. CASE /\ turn' = [turn EXCEPT ![t].dec = d]
             /\ answered' = [answered EXCEPT ![op[a].req] = d]
    <3> DEFINE new == [turn[t] EXCEPT !.dec = d]
    <3>1. /\ new \in Turn /\ new.thread = turn[t].thread /\ new.key = turn[t].key
          /\ new.status = turn[t].status
      BY <1>1 DEF Turn
    <3>2. turn' = [turn EXCEPT ![t] = new]
      BY <2>2 DEF TypeOK
    <3> HIDE DEF new
    <3>3. answered' \in [Requests -> Decisions \cup {None}]
      BY <1>1, <2>2 DEF TypeOK
    <3> QED BY <1>1, <3>1, <3>2, <3>3, TurnUpdate
  <2> QED BY <2>1, <2>2 DEF Respond
<1>4. TypeOK'
  BY <1>2, <1>3, ReturnType DEF TypeOK
<1>5. GensKeep
  BY <1>2 DEF GensKeep
<1>6. ActorInv(a)'
  BY <1>2, ReturnType, IdleKeeps
<1> QED BY <1>2, <1>3, <1>4, <1>5, <1>6, ReturnType, StepKeeps

\* A list collects turns that exist and publishes the dead ones.
LEMMA ListTurnsStepKeeps ==
  ASSUME AdmissionInv, NEW a \in Actors, ListTurnsStep(a)
  PROVE  AdmissionInv'
<1> USE DEF AdmissionInv
<1>1. /\ ActorInv(a) /\ pc[a] = "list" /\ op[a] \in Op /\ pc \in [Actors -> Labels]
      /\ op[a].turn \in Admitted \cup {None}
  BY DEF ListTurnsStep, ActorInv, CallInv, TypeOK
<1>2. ASSUME NEW t \in Admitted \ op[a].seen, ListTurn(a, t)
      PROVE  AdmissionInv'
  <2>1. UNCHANGED <<thread, turn, gen, client, admitLock, threadLock, hold, running,
                    pc, outcome, answered, gone, bare>>
    BY <1>2 DEF ListTurn, files, locks, extras
  <2> DEFINE found == IF op[a].req # None /\ turn[t].req = op[a].req THEN t ELSE op[a].turn
  <2>2. t \in Turns /\ found \in Admitted \cup {None} /\ found \in Turns \cup {None}
    BY <1>1 DEF Admitted
  <2>3. op' = [op EXCEPT ![a] = [op[a] EXCEPT !.seen = op[a].seen \cup {t}, !.turn = found]]
    BY <1>1, <1>2 DEF ListTurn, TypeOK, Op
  <2>4. /\ found # None => op[a].req # None
        /\ op[a].req # None => op[a].dec # None
    BY <1>1 DEF ActorInv, CallInv
  <2>5. [op[a] EXCEPT !.seen = op[a].seen \cup {t}, !.turn = found] \in Op
    BY <1>1, <2>2 DEF Op
  <2>6. /\ op' \in [Actors -> Op] /\ op'[a].turn = found /\ op'[a].req = op[a].req
        /\ op'[a].dec = op[a].dec
        /\ \A b \in Actors \ {a} : op'[b] = op[b]
    <3> HIDE DEF found
    <3> QED BY <1>1, <2>3, <2>5 DEF TypeOK, Op
  <2>7. TypeOK'
    BY <2>1, <2>6 DEF TypeOK
  <2>8. TurnsKeep /\ NoNewTurn /\ GensKeep
    BY <2>1 DEF TurnsKeep, NoNewTurn, GensKeep
  <2> HIDE DEF found
  <2>9. ActorInv(a)'
    BY <1>1, <2>1, <2>2, <2>4, <2>6
    DEF ActorInv, LockInv, CallInv, FreshInv, ScanInv, Admitting, OnThread,
        AdmitLabels, ThreadLabels, NewLabels, Admitted
  <2> QED BY <2>1, <2>6, <2>7, <2>8, <2>9, StepKeeps
<1>3. CASE Leave(a)
  BY <1>3, LeaveKeeps
<1>4. ASSUME NEW t \in Admitted \ op[a].seen, SeenDead(a, t), ThreadLockFree(t),
             ObserveDead(a, t, "list")
      PROVE  AdmissionInv'
  BY <1>1, <1>4, PublishKeeps DEF SeenDead, ObserveDead, Statuses, Failures, Returns, Admitted
<1>5. CASE /\ op[a].turn # None /\ Goto(a, "respond")
           /\ UNCHANGED <<files, locks, hold, running, op, extras>>
  <2>1. /\ pc'[a] = "respond"
        /\ UNCHANGED <<thread, turn, gen, client, admitLock, threadLock, op, outcome>>
    BY <1>1, <1>5 DEF Goto, files, locks, extras
  <2>2. ActorInv(a)'
    BY <1>1, <1>5, <2>1 DEF ActorInv, LockInv, CallInv, FreshInv, ScanInv, Admitting,
       OnThread, AdmitLabels, ThreadLabels, NewLabels, Admitted
  <2> QED BY <1>5, <2>2, GotoKeeps DEF Labels
<1> QED BY <1>2, <1>3, <1>4, <1>5 DEF ListTurnsStep

\* A wait returns, or publishes a dead turn.
LEMMA WaitStepKeeps ==
  ASSUME AdmissionInv, NEW a \in Actors, WaitStep(a)
  PROVE  AdmissionInv'
<1> DEFINE t == op[a].turn
<1>1. pc[a] = "await" /\ ThreadLockFree(t) /\ t \in Turns
  BY DEF WaitStep, AdmissionInv, ActorInv, CallInv, Admitted
<1>2. CASE Leave(a)
  BY <1>2, LeaveKeeps
<1>3. CASE SeenDead(a, t) /\ ObserveDead(a, t, "await")
  BY <1>1, <1>3, PublishKeeps DEF SeenDead, ObserveDead, Statuses, Failures, Returns
<1> QED BY <1>2, <1>3 DEF WaitStep

\* A step of a call that has begun.
LEMMA StepOfCallKeeps ==
  ASSUME AdmissionInv, NEW a \in Actors, Step(a)
  PROVE  AdmissionInv'
<1>1. CASE WriteFails(a)
  BY <1>1, LeaveKeeps DEF WriteFails
<1> QED BY <1>1, ClearPointerKeeps, LookupClientKeeps, ScanClientKeeps,
           LockThreadKeeps, CheckPointerKeeps, ScanThreadKeeps,
           WriteGenerationKeeps, WriteTurnKeeps, WritePointerKeeps,
           StoreClientKeeps, HoldLiveKeeps, WaitPendingDecisionKeeps,
           ClearPendingKeeps, ListTurnsStepKeeps, RespondKeeps, WaitStepKeeps
    DEF Step
\* A step that moves no actor and takes no lock.
LEMMA QuietKeeps ==
  ASSUME AdmissionInv, TypeOK', TurnsKeep, NoNewTurn, GensKeep,
         UNCHANGED <<client, pc, op, admitLock, threadLock, outcome>>,
         \A th \in Threads : /\ thread'[th] = thread[th] \/ PointsInto(th, thread'[th])
                             /\ thread[th] # None => thread'[th] # None
  PROVE  AdmissionInv'
<1>1. FileInv' /\ OneInProgressPerThread' /\ OneInFlightPerKey'
  BY FilesKeep
<1>2. ASSUME NEW b \in Actors PROVE ActorInv(b)'
  <2>1. EnvKeeps(b)
    BY DEF EnvKeeps
  <2> QED BY <2>1, OthersKeep
<1> QED BY <1>1, <1>2 DEF AdmissionInv

\* A new thread points nowhere and nobody admits to it yet.
LEMMA CreateThreadKeeps ==
  ASSUME AdmissionInv, NEW th \in Threads, CreateThread(th)
  PROVE  AdmissionInv'
<1> USE DEF AdmissionInv
<1> DEFINE new == [ptr |-> None, sid |-> None]
<1>1. UNCHANGED <<turn, gen, client, admitLock, threadLock, hold, running, pc, op,
                  outcome, answered, gone, bare>>
  BY DEF CreateThread, locks, extras
<1>2. new \in Thread /\ new # None /\ PointsInto(th, new)
  <2>1. new \in Thread /\ new.ptr = None
    BY DEF Thread
  <2> QED BY <2>1, NoneAssumption DEF PointsInto
<1>3. thread' = [thread EXCEPT ![th] = new]
  BY DEF CreateThread
<1> HIDE DEF new
<1>4. /\ thread' \in [Threads -> Thread \cup {None}]
      /\ \A x \in Threads : /\ thread'[x] = thread[x] \/ PointsInto(x, thread'[x])
                            /\ thread[x] # None => thread'[x] # None
  BY <1>2, <1>3 DEF TypeOK
<1>5. TypeOK'
  BY <1>1, <1>4 DEF TypeOK
<1>6. TurnsKeep /\ NoNewTurn /\ GensKeep
  BY <1>1 DEF TurnsKeep, NoNewTurn, GensKeep
<1> QED BY <1>1, <1>4, <1>5, <1>6, QuietKeeps

\* A session id is set under the thread lock, when nobody holds a copy.
LEMMA SetAcpSessionIdKeeps ==
  ASSUME AdmissionInv, NEW a \in Actors, NEW th \in Threads, NEW s \in Sessions,
         SetAcpSessionId(a, th, s)
  PROVE  AdmissionInv'
<1> USE DEF AdmissionInv
<1> DEFINE new == [thread[th] EXCEPT !.sid = s]
<1>1. UNCHANGED <<turn, gen, client, admitLock, threadLock, hold, running, pc, op,
                  outcome, answered, gone, bare>>
  BY DEF SetAcpSessionId, locks, extras
<1>2. thread[th] # None /\ thread[th] \in Thread
  BY DEF SetAcpSessionId, TypeOK
<1>3. new \in Thread /\ new # None /\ PointsInto(th, new)
  <2>1. new \in Thread /\ new.ptr = thread[th].ptr
    BY <1>2 DEF Thread
  <2> QED BY <1>2, <2>1, NoneAssumption DEF FileInv, PointsInto
<1>4. thread' = [thread EXCEPT ![th] = new]
  BY DEF SetAcpSessionId, TypeOK
<1> HIDE DEF new
<1>5. /\ thread' \in [Threads -> Thread \cup {None}]
      /\ \A x \in Threads : /\ thread'[x] = thread[x] \/ PointsInto(x, thread'[x])
                            /\ thread[x] # None => thread'[x] # None
  BY <1>3, <1>4 DEF TypeOK
<1>6. TypeOK'
  BY <1>1, <1>5 DEF TypeOK
<1>7. TurnsKeep /\ NoNewTurn /\ GensKeep
  BY <1>1 DEF TurnsKeep, NoNewTurn, GensKeep
<1> QED BY <1>1, <1>5, <1>6, <1>7, QuietKeeps

\* An item changes neither the thread, the key nor the status of a turn.
LEMMA UpsertItemKeeps ==
  ASSUME AdmissionInv, NEW a \in Actors, NEW t \in Turns, NEW i \in Items,
         UpsertItem(a, t, i)
  PROVE  AdmissionInv'
<1> USE DEF AdmissionInv
<1> DEFINE new == [turn[t] EXCEPT !.items = turn[t].items \cup {i}]
<1>1. UNCHANGED <<thread, gen, client, admitLock, threadLock, hold, running, pc, op,
                  outcome, answered, gone, bare>>
  BY DEF UpsertItem, locks, extras
<1>2. turn[t] \in Turn
  BY DEF UpsertItem, InProgress, Admitted, TypeOK
<1>3. /\ new \in Turn /\ new.thread = turn[t].thread /\ new.key = turn[t].key
      /\ new.status = turn[t].status
  BY <1>2 DEF Turn
<1>4. turn' = [turn EXCEPT ![t] = new]
  BY DEF UpsertItem, TypeOK
<1> HIDE DEF new
<1>5. turn' \in [Turns -> Turn \cup {None}] /\ TurnsKeep /\ NoNewTurn
  BY <1>2, <1>3, <1>4, TurnUpdate
<1>6. TypeOK' /\ GensKeep
  BY <1>1, <1>5 DEF TypeOK, GensKeep
<1> QED BY <1>1, <1>5, <1>6, QuietKeeps

\* A write of a generation file that leaves its owner alone.
LEMMA GenerationKeeps ==
  ASSUME AdmissionInv, NEW t \in Turns, gen[t] \in Generation, NEW new \in Generation,
         gen' = [gen EXCEPT ![t] = new], new.owner = gen[t].owner,
         gone' \subseteq Turns,
         UNCHANGED <<thread, turn, client, admitLock, threadLock, hold, running, pc,
                     op, outcome, answered, bare>>
  PROVE  AdmissionInv'
<1> USE DEF AdmissionInv
<1>1. gen' \in [Turns -> Generation \cup {None}] /\ GensKeep
  BY NoneAssumption DEF TypeOK, GensKeep
<1>2. TypeOK'
  BY <1>1 DEF TypeOK
<1>3. TurnsKeep /\ NoNewTurn
  BY DEF TurnsKeep, NoNewTurn
<1> QED BY <1>1, <1>2, <1>3, QuietKeeps

\* Recording a child keeps the owner of the generation.
LEMMA SetChildPidKeeps ==
  ASSUME AdmissionInv, NEW a \in Actors, NEW t \in Turns, NEW c \in Children,
         SetChildPid(a, t, c)
  PROVE  AdmissionInv'
<1> DEFINE new == [gen[t] EXCEPT !.child = c, !.eof = FALSE]
<1>1. gen[t] \in Generation
  BY DEF AdmissionInv, SetChildPid, FileInv, TypeOK
<1>2. new \in Generation /\ new.owner = gen[t].owner
  BY <1>1 DEF Generation
<1>3. gen' = [gen EXCEPT ![t] = new] /\ gone' \subseteq Turns
  BY DEF SetChildPid, AdmissionInv, TypeOK
<1>4. UNCHANGED <<thread, turn, client, admitLock, threadLock, hold, running, pc,
                  op, outcome, answered, bare>>
  BY DEF SetChildPid, locks
<1> HIDE DEF new
<1> QED BY <1>1, <1>2, <1>3, <1>4, GenerationKeeps

\* Marking the end of a child keeps the owner of the generation.
LEMMA MarkChildEofKeeps ==
  ASSUME AdmissionInv, NEW a \in Actors, NEW t \in Turns, MarkChildEof(a, t)
  PROVE  AdmissionInv'
<1> DEFINE new == [gen[t] EXCEPT !.eof = TRUE]
<1>1. gen[t] \in Generation
  BY DEF AdmissionInv, MarkChildEof, FileInv, TypeOK
<1>2. new \in Generation /\ new.owner = gen[t].owner
  BY <1>1 DEF Generation
<1>3. gen' = [gen EXCEPT ![t] = new] /\ gone' \subseteq Turns
  BY DEF MarkChildEof, AdmissionInv, TypeOK
<1>4. UNCHANGED <<thread, turn, client, admitLock, threadLock, hold, running, pc,
                  op, outcome, answered, bare>>
  BY DEF MarkChildEof, locks
<1> HIDE DEF new
<1> QED BY <1>1, <1>2, <1>3, <1>4, GenerationKeeps

\* The end of a child changes no file.
LEMMA ChildExitKeeps ==
  ASSUME AdmissionInv, NEW c \in Children, ChildExit(c)
  PROVE  AdmissionInv'
<1> USE DEF AdmissionInv
<1>1. UNCHANGED <<thread, turn, gen, client, admitLock, threadLock, hold, pc, op,
                  outcome, answered, bare>>
  BY DEF ChildExit, files, locks
<1>2. running' \subseteq Children /\ gone' \subseteq Turns
  BY DEF ChildExit, TypeOK
<1>3. TypeOK'
  BY <1>1, <1>2 DEF TypeOK
<1>4. TurnsKeep /\ NoNewTurn /\ GensKeep
  BY <1>1 DEF TurnsKeep, NoNewTurn, GensKeep
<1> QED BY <1>1, <1>3, <1>4, QuietKeeps

\* A caller that dies loses its locks and its holds and changes no file.
LEMMA ExitKeeps ==
  ASSUME AdmissionInv, NEW a \in Actors, Exit(a)
  PROVE  AdmissionInv'
<1> USE DEF AdmissionInv
<1>1. /\ DropLocks(a) /\ Return(a)
      /\ UNCHANGED <<thread, turn, gen, client, running, outcome, answered>>
  BY DEF Exit, files
<1>2. /\ hold' \in [Turns -> Actors \cup {None}]
      /\ gone' \subseteq Turns /\ bare' \subseteq Turns
  BY DEF Exit, TypeOK
<1>3. TypeOK'
  BY <1>1, <1>2, DropLocksType, ReturnType DEF TypeOK
<1>4. TurnsKeep /\ NoNewTurn /\ GensKeep
  BY <1>1 DEF TurnsKeep, NoNewTurn, GensKeep
<1>5. ActorInv(a)'
  BY <1>1, ReturnType, IdleKeeps
<1> QED BY <1>1, <1>3, <1>4, <1>5, DropLocksType, ReturnType, StepKeeps

\* An admission begins with the admission lock and fresh locals.
LEMMA AdmitTurnKeeps ==
  ASSUME AdmissionInv, NEW a \in Actors, NEW th \in Threads, NEW k \in Keys \cup {None},
         AdmitTurn(a, th, k)
  PROVE  AdmissionInv'
<1> USE DEF AdmissionInv
<1> DEFINE l == IF k = None THEN "lockThread" ELSE "index"
           new == [op[a] EXCEPT !.thread = th, !.key = k]
<1>1. /\ ActorInv(a) /\ pc[a] = "idle" /\ admitLock = None /\ thread[th] # None
      /\ op[a] \in Op /\ op[a].seen = {}
  BY DEF AdmitTurn, ActorInv, FreshInv, TypeOK
<1>2. UNCHANGED <<thread, turn, gen, client, threadLock, hold, running, outcome, answered, gone, bare>>
  BY DEF AdmitTurn, files, extras
<1>3. new \in Op /\ new.thread = th /\ new.key = k /\ new.seen = {}
  BY <1>1 DEF Op
<1>4. op' = [op EXCEPT ![a] = new]
  BY DEF AdmitTurn, TypeOK
<1> HIDE DEF new
<1>5. op' \in [Actors -> Op] /\ op'[a] = new /\ \A b \in Actors \ {a} : op'[b] = op[b]
  BY <1>3, <1>4 DEF TypeOK
<1>6. /\ pc' \in [Actors -> Labels] /\ pc'[a] = l
      /\ \A b \in Actors \ {a} : pc'[b] = pc[b]
  BY GotoType DEF AdmitTurn, Labels
<1>7. admitLock' = a /\ admitLock' \in Actors \cup {None}
  BY DEF AdmitTurn
<1>8. TypeOK'
  BY <1>2, <1>5, <1>6, <1>7 DEF TypeOK
<1>9. TurnsKeep /\ NoNewTurn /\ GensKeep
  BY <1>2 DEF TurnsKeep, NoNewTurn, GensKeep
<1>10. ActorInv(a)'
  BY <1>1, <1>2, <1>3, <1>5, <1>6, <1>7
  DEF ActorInv, LockInv, CallInv, FreshInv, ScanInv, Admitting, OnThread,
      AdmitLabels, ThreadLabels, NewLabels
<1> QED BY <1>1, <1>2, <1>5, <1>6, <1>8, <1>9, <1>10, NoneAssumption, StepKeeps

\* A call that begins outside admit_turn and touches no file.
LEMMA BeginKeeps ==
  ASSUME AdmissionInv, NEW a \in Actors, NEW l \in {"list", "await"}, Goto(a, l),
         NEW new \in Op, op' = [op EXCEPT ![a] = new],
         UNCHANGED <<files, locks, hold, running, extras>>,
         l = "list" => new.turn = None /\ (new.req # None => new.dec # None),
         l = "await" => new.turn \in Admitted
  PROVE  AdmissionInv'
<1> USE DEF AdmissionInv
<1>1. UNCHANGED <<thread, turn, gen, client, admitLock, threadLock, hold, running,
                  outcome, answered, gone, bare>>
  BY DEF files, locks, extras
<1>2. op' \in [Actors -> Op] /\ op'[a] = new /\ \A b \in Actors \ {a} : op'[b] = op[b]
  BY DEF TypeOK
<1>3. /\ pc' \in [Actors -> Labels] /\ pc'[a] = l
      /\ \A b \in Actors \ {a} : pc'[b] = pc[b]
  BY GotoType DEF Labels
<1>4. TypeOK'
  BY <1>1, <1>2, <1>3 DEF TypeOK
<1>5. TurnsKeep /\ NoNewTurn /\ GensKeep
  BY <1>1 DEF TurnsKeep, NoNewTurn, GensKeep
<1>6. ActorInv(a)'
  BY <1>1, <1>2, <1>3
  DEF ActorInv, LockInv, CallInv, FreshInv, ScanInv, Admitting, OnThread,
      AdmitLabels, ThreadLabels, NewLabels, Admitted
<1> QED BY <1>1, <1>2, <1>3, <1>4, <1>5, <1>6, StepKeeps

\* A list begins with nothing seen.
LEMMA ListTurnsKeeps ==
  ASSUME AdmissionInv, NEW a \in Actors, NEW r \in Requests \cup {None},
         NEW d \in Decisions \cup {None}, r # None => d # None, ListTurns(a, r, d)
  PROVE  AdmissionInv'
<1> DEFINE new == [op[a] EXCEPT !.req = r, !.dec = d]
<1>1. op[a] \in Op /\ op[a].turn = None
  BY DEF AdmissionInv, TypeOK, ListTurns, ActorInv, FreshInv
<1>2. new \in Op /\ new.turn = None /\ new.req = r /\ new.dec = d
  BY <1>1 DEF Op
<1>3. op' = [op EXCEPT ![a] = new]
  BY DEF ListTurns, AdmissionInv, TypeOK
<1> HIDE DEF new
<1> QED BY <1>2, <1>3, BeginKeeps DEF ListTurns

\* A wait begins on a turn that exists.
LEMMA WaitKeeps ==
  ASSUME AdmissionInv, NEW a \in Actors, NEW t \in Turns, Wait(a, t)
  PROVE  AdmissionInv'
<1> DEFINE new == [op[a] EXCEPT !.turn = t]
<1>1. op[a] \in Op
  BY DEF AdmissionInv, TypeOK
<1>2. new \in Op /\ new.turn = t
  BY <1>1 DEF Op
<1>3. op' = [op EXCEPT ![a] = new]
  BY DEF Wait, AdmissionInv, TypeOK
<1> HIDE DEF new
<1> QED BY <1>2, <1>3, BeginKeeps DEF Wait

\* A gate begins on a turn that exists with a request that is now issued.
LEMMA ParkApprovalKeeps ==
  ASSUME AdmissionInv, NEW a \in Actors, NEW t \in Turns, NEW r \in Requests,
         ParkApproval(a, t, r)
  PROVE  AdmissionInv'
<1> USE DEF AdmissionInv
<1> DEFINE new == [op[a] EXCEPT !.turn = t, !.req = r]
<1>1. op[a] \in Op /\ turn[t] \in Turn
  BY DEF ParkApproval, InProgress, Admitted, TypeOK
<1>2. UNCHANGED <<thread, gen, client, admitLock, threadLock, hold, running, answered, gone, bare>>
  BY DEF ParkApproval, locks
<1>3. turn' \in [Turns -> Turn \cup {None}] /\ TurnsKeep /\ NoNewTurn
  BY <1>1, GateUpdate DEF ParkApproval
<1>4. new \in Op /\ new.turn = t /\ new.req = r
  BY <1>1 DEF Op
<1>5. op' = [op EXCEPT ![a] = new]
  BY DEF ParkApproval, TypeOK
<1> HIDE DEF new
<1>6. op' \in [Actors -> Op] /\ op'[a] = new /\ \A b \in Actors \ {a} : op'[b] = op[b]
  BY <1>4, <1>5 DEF TypeOK
<1>7. /\ pc' \in [Actors -> Labels] /\ pc'[a] = "gate"
      /\ \A b \in Actors \ {a} : pc'[b] = pc[b]
  BY GotoType DEF ParkApproval, Labels
<1>8. /\ outcome' \in [Requests -> Outcomes] /\ outcome'[r] # "unused"
      /\ \A q \in Requests : outcome[q] # "unused" => outcome'[q] # "unused"
  BY DEF ParkApproval, TypeOK, Outcomes
<1>9. TypeOK' /\ GensKeep
  BY <1>2, <1>3, <1>6, <1>7, <1>8 DEF TypeOK, GensKeep
<1>10. ActorInv(a)'
  <2>1. t \in Admitted'
    BY <1>3 DEF ParkApproval, InProgress, TurnsKeep, Admitted
  <2> QED BY <1>4, <1>6, <1>7, <1>8, <2>1
      DEF ActorInv, LockInv, CallInv, FreshInv, ScanInv, Admitting, OnThread,
          AdmitLabels, ThreadLabels, NewLabels, Issued
<1> QED BY <1>2, <1>3, <1>6, <1>7, <1>8, <1>9, <1>10, StepKeeps

\* observe, cancel and publish_terminal.
LEMMA PublishersKeep ==
  ASSUME AdmissionInv, NEW a \in Actors, NEW t \in Turns,
         \/ Observe(a, t) \/ Cancel(a, t)
         \/ \E s \in {"completed", "interrupted", "failed"} : PublishTerminal(a, t, s)
  PROVE  AdmissionInv'
<1>1. ASSUME NEW s \in Statuses \ {"inProgress"}, NEW f \in Failures,
             pc[a] = "idle", InProgress(t), ThreadLockFree(t),
             PublishTerminalLocked(a, t, s, f, "idle")
      PROVE  AdmissionInv'
  BY <1>1, PublishKeeps DEF Returns
<1>2. CASE Observe(a, t)
  BY <1>1, <1>2 DEF Observe, ObserveDead, SeenDead, Statuses, Failures
<1>3. CASE Cancel(a, t)
  BY <1>1, <1>3 DEF Cancel, ObserveDead, Statuses, Failures
<1>4. ASSUME NEW s \in {"completed", "interrupted", "failed"}, PublishTerminal(a, t, s)
      PROVE  AdmissionInv'
  <2>1. /\ s \in Statuses \ {"inProgress"}
        /\ (IF s = "failed" THEN "reported" ELSE "") \in Failures
    BY DEF Statuses, Failures
  <2> QED BY <1>1, <1>4, <2>1 DEF PublishTerminal
<1> QED BY <1>2, <1>3, <1>4

\* Every call of an idle actor keeps the invariant.
LEMMA CallKeeps ==
  ASSUME AdmissionInv, NEW a \in Actors, Call(a)
  PROVE  AdmissionInv'
<1>1. ASSUME NEW r \in Issued, NEW d \in Decisions, ListTurns(a, r, d)
      PROVE  AdmissionInv'
  BY <1>1, ListTurnsKeeps, NoneAssumption DEF Issued
<1>2. CASE ListTurns(a, None, None)
  BY <1>2, ListTurnsKeeps
<1> QED BY <1>1, <1>2, AdmitTurnKeeps, SetAcpSessionIdKeeps, WaitKeeps,
           MarkChildEofKeeps, UpsertItemKeeps, SetChildPidKeeps, ParkApprovalKeeps,
           PublishersKeep
    DEF Call

\* The invariant is inductive.
LEMMA NextKeeps ==
  AdmissionInv /\ [Next]_vars => AdmissionInv'
<1> SUFFICES ASSUME AdmissionInv, [Next]_vars PROVE AdmissionInv'
  OBVIOUS
<1>1. CASE UNCHANGED vars
  <2>1. UNCHANGED <<thread, turn, gen, client, admitLock, threadLock, hold, running,
                    pc, op, outcome, answered, gone, bare>>
    BY <1>1 DEF vars
  <2>2. TypeOK'
    BY <2>1 DEF AdmissionInv, TypeOK
  <2>3. TurnsKeep /\ NoNewTurn /\ GensKeep
    BY <2>1 DEF TurnsKeep, NoNewTurn, GensKeep
  <2> QED BY <2>1, <2>2, <2>3, QuietKeeps
<1>2. ASSUME NEW a \in Actors, WaitTimeout(a) PROVE AdmissionInv'
  BY <1>2, LeaveKeeps DEF WaitTimeout
<1> QED BY <1>1, <1>2, StepOfCallKeeps, CallKeeps, ExitKeeps, CreateThreadKeeps,
           ChildExitKeeps
    DEF Next

\* The empty home satisfies the invariant.
LEMMA InitAdmission ==
  Init => AdmissionInv
<1> SUFFICES ASSUME Init PROVE AdmissionInv
  OBVIOUS
<1>1. NoOp \in Op
  BY DEF NoOp, Op, Returns
<1>2. TypeOK
  BY <1>1 DEF Init, TypeOK, Labels, Outcomes
<1>3. FileInv /\ OneInProgressPerThread /\ OneInFlightPerKey
  BY DEF Init, FileInv, PointsInto, Admitted, OneInProgressPerThread,
         OneInFlightPerKey, InProgress
<1>4. ASSUME NEW a \in Actors PROVE ActorInv(a)
  BY DEF Init, ActorInv, LockInv, CallInv, FreshInv, ScanInv, Admitting, OnThread,
         AdmitLabels, ThreadLabels, NewLabels, NoOp
<1> QED BY <1>2, <1>3, <1>4 DEF AdmissionInv

-----------------------------------------------------------------------------
\* The inductive invariant of admission: in every reachable state of the
\* ledger the locks are where the code believes them to be, files refer to
\* files that exist, and what a scan has passed stays passed.
THEOREM AdmissionInvariant == Spec => []AdmissionInv
BY InitAdmission, NextKeeps, PTL DEF Spec

\* Type correctness: no interleaving of operations and crashes leaves a file,
\* a lock or a local variable with a value of the wrong kind.
THEOREM TypeCorrect == Spec => []TypeOK
<1>1. AdmissionInv => TypeOK
  BY DEF AdmissionInv
<1> QED BY <1>1, AdmissionInvariant, PTL

\* "Exclusive one inProgress turn per thread", for any number of processes,
\* threads and turns, with every write of admit_turn free to fail and every
\* caller free to die at every step.
THEOREM ThreadExclusion == Spec => []OneInProgressPerThread
<1>1. AdmissionInv => OneInProgressPerThread
  BY DEF AdmissionInv
<1> QED BY <1>1, AdmissionInvariant, PTL

\* At most one turn in flight per client_request_id, whatever the by-client
\* index says.
THEOREM KeyExclusion == Spec => []OneInFlightPerKey
<1>1. AdmissionInv => OneInFlightPerKey
  BY DEF AdmissionInv
<1> QED BY <1>1, AdmissionInvariant, PTL

-----------------------------------------------------------------------------
(***************************************************************************)
(* On top of the invariant of admission: what the steps do to turns, who   *)
(* has really gone, which answers reach the agent, and that the ledger     *)
(* implements TurnStore.                                                   *)
(***************************************************************************)
\* publish_terminal_locked as its callers reach it: the turn has been read
\* again under its thread lock and is in progress, and worker_gone is only
\* said of a generation that looks dead.
Publishes(a, t, s, f, ret) ==
  /\ PublishTerminalLocked(a, t, s, f, ret)
  /\ InProgress(t)
  /\ s \in Statuses \ {"inProgress"} /\ f \in Failures
  /\ f = "worker_gone" => GenerationIsDead(a, t)
  /\ \/ /\ pc[a] \in {"pointer", "live"} /\ ret = "live"
        /\ turn[t].thread = op[a].thread
     \/ /\ \/ pc[a] = "index" /\ ret = "dedup"
           \/ /\ pc[a] \in {"idle", "dedup", "list", "await", "gate"}
              /\ ret = pc[a]
        /\ ThreadLockFree(t)

\* The steps that write a turn file or concern a request, apart from the rest.
TurnWrite(a) ==
  \/ \E t \in Turns, s \in Statuses, f \in Failures, ret \in Returns :
       Publishes(a, t, s, f, ret)
  \/ WriteTurn(a) \/ ClearPending(a) \/ Respond(a)
  \/ \E t \in Turns :
       \/ \E i \in Items : UpsertItem(a, t, i)
       \/ \E r \in Requests : ParkApproval(a, t, r)

\* Every step of the ledger leaves turns and requests alone or is one of the
\* six writes.
LEMMA StepKinds ==
  ASSUME AdmissionInv, [Next]_vars
  PROVE  \/ UNCHANGED <<turn, outcome, answered>>
         \/ \E a \in Actors : TurnWrite(a)
<1> DEFINE quiet == UNCHANGED <<turn, outcome, answered>>
<1>1. ASSUME NEW a \in Actors, Leave(a) PROVE quiet
  BY <1>1 DEF Leave, files, extras
<1>2. ASSUME NEW a \in Actors, Step(a) PROVE quiet \/ TurnWrite(a)
  <2>0. ActorInv(a) /\ TypeOK
    BY DEF AdmissionInv
  <2>1. CASE ClearPointer(a)
    BY <2>1 DEF ClearPointer, extras
  <2>2. CASE LookupClient(a)
    <3>1. /\ op[a].key \in Keys /\ pc[a] = "index"
          /\ client[op[a].key] \in Turns \cup {None}
      BY <2>0, <2>2 DEF LookupClient, ActorInv, LockInv, TypeOK
    <3>2. CASE /\ SeenDead(a, client[op[a].key]) /\ ThreadLockFree(client[op[a].key])
               /\ client[op[a].key] # None
               /\ ObserveDead(a, client[op[a].key], "dedup")
      <4>1. Publishes(a, client[op[a].key], "failed", "worker_gone", "dedup")
        BY <3>1, <3>2 DEF Publishes, SeenDead, ObserveDead, Statuses, Failures
      <4> QED BY <3>1, <3>2, <4>1 DEF TurnWrite, Statuses, Failures, Returns
    <3> QED BY <2>2, <3>2, <1>1 DEF LookupClient, files, extras
  <2>3. CASE ScanClient(a)
    <3>1. ASSUME NEW t \in Admitted, ThreadLockFree(t), SeenDead(a, t),
                 ObserveDead(a, t, "dedup")
          PROVE  TurnWrite(a)
      <4>1. Publishes(a, t, "failed", "worker_gone", "dedup")
        BY <2>3, <3>1 DEF ScanClient, Publishes, SeenDead, ObserveDead, Statuses, Failures
      <4> QED BY <4>1 DEF TurnWrite, Statuses, Failures, Returns, Admitted
    <3> QED BY <2>3, <3>1, <1>1 DEF ScanClient, Skip, files, extras
  <2>4. CASE LockThread(a)
    BY <2>4 DEF LockThread, files, extras
  <2>5. CASE CheckPointer(a)
    <3> DEFINE t == op[a].copy.ptr
    <3>1. /\ pc[a] = "pointer" /\ OnThread(a) /\ op[a].copy \in Thread
          /\ t # None => t \in Turns /\ turn[t].thread = op[a].thread
      <4>1. pc[a] = "pointer" /\ OnThread(a) /\ op[a].copy \in Thread
        BY <2>0, <2>5 DEF CheckPointer, OnThread, ThreadLabels, AdmitLabels,
           ActorInv, LockInv
      <4> QED BY <2>0, <4>1, NoneAssumption DEF ActorInv, CallInv, PointsInto, Admitted
    <3>2. CASE t # None /\ SeenDead(a, t) /\ ObserveDead(a, t, "live")
      <4>1. Publishes(a, t, "failed", "worker_gone", "live")
        BY <3>1, <3>2 DEF Publishes, SeenDead, ObserveDead, Statuses, Failures
      <4> QED BY <3>1, <3>2, <4>1 DEF TurnWrite, Statuses, Failures, Returns
    <3> QED BY <2>5, <3>2, <1>1 DEF CheckPointer, files, extras
  <2>6. CASE ScanThread(a)
    <3>1. ASSUME NEW t \in Admitted, turn[t].thread = op[a].thread, SeenDead(a, t),
                 ObserveDead(a, t, "live")
          PROVE  TurnWrite(a)
      <4>1. Publishes(a, t, "failed", "worker_gone", "live")
        BY <2>6, <3>1 DEF ScanThread, Publishes, SeenDead, ObserveDead, Statuses, Failures
      <4> QED BY <4>1 DEF TurnWrite, Statuses, Failures, Returns, Admitted
    <3> QED BY <2>6, <3>1, <1>1 DEF ScanThread, Skip, files, extras
  <2>7. ASSUME NEW t \in Turns, WriteGeneration(a, t) PROVE quiet
    BY <2>7 DEF WriteGeneration, extras
  <2>8. CASE WriteFails(a)
    BY <2>8, <1>1 DEF WriteFails
  <2>9. CASE WritePointer(a) \/ StoreClient(a) \/ HoldLive(a)
    BY <2>9 DEF WritePointer, StoreClient, HoldLive, files, extras
  <2>10. CASE WaitPendingDecision(a)
    <3> DEFINE t == op[a].turn
    <3>1. pc[a] = "gate" /\ ThreadLockFree(t) /\ t \in Turns
      BY <2>0, <2>10 DEF WaitPendingDecision, ActorInv, CallInv, Admitted
    <3>2. CASE SeenDead(a, t) /\ ObserveDead(a, t, "gate")
      <4>1. Publishes(a, t, "failed", "worker_gone", "gate")
        BY <3>1, <3>2 DEF Publishes, SeenDead, ObserveDead, Statuses, Failures
      <4> QED BY <3>1, <4>1 DEF TurnWrite, Statuses, Failures, Returns
    <3> QED BY <2>10, <3>2 DEF WaitPendingDecision, files, extras
  <2>11. CASE ListTurnsStep(a)
    <3>1. ASSUME NEW t \in Admitted, ThreadLockFree(t), SeenDead(a, t),
                 ObserveDead(a, t, "list")
          PROVE  TurnWrite(a)
      <4>1. Publishes(a, t, "failed", "worker_gone", "list")
        BY <2>11, <3>1 DEF ListTurnsStep, Publishes, SeenDead, ObserveDead, Statuses, Failures
      <4> QED BY <4>1 DEF TurnWrite, Statuses, Failures, Returns, Admitted
    <3> QED BY <2>11, <3>1, <1>1 DEF ListTurnsStep, ListTurn, files, extras
  <2>12. CASE WaitStep(a)
    <3> DEFINE t == op[a].turn
    <3>1. pc[a] = "await" /\ ThreadLockFree(t) /\ t \in Turns
      BY <2>0, <2>12 DEF WaitStep, ActorInv, CallInv, Admitted
    <3>2. CASE SeenDead(a, t) /\ ObserveDead(a, t, "await")
      <4>1. Publishes(a, t, "failed", "worker_gone", "await")
        BY <3>1, <3>2 DEF Publishes, SeenDead, ObserveDead, Statuses, Failures
      <4> QED BY <3>1, <4>1 DEF TurnWrite, Statuses, Failures, Returns
    <3> QED BY <2>12, <3>2, <1>1 DEF WaitStep
  <2>13. CASE WriteTurn(a) \/ ClearPending(a) \/ Respond(a)
    BY <2>13 DEF TurnWrite
  <2> QED BY <1>2, <2>1, <2>2, <2>3, <2>4, <2>5, <2>6, <2>7, <2>8, <2>9, <2>10,
             <2>11, <2>12, <2>13 DEF Step
<1>3. ASSUME NEW a \in Actors, Call(a) PROVE quiet \/ TurnWrite(a)
  <2>1. ASSUME NEW t \in Turns, NEW s \in Statuses \ {"inProgress"}, NEW f \in Failures,
               PublishTerminalLocked(a, t, s, f, "idle"), pc[a] = "idle", InProgress(t),
               ThreadLockFree(t), f = "worker_gone" => GenerationIsDead(a, t)
        PROVE  TurnWrite(a)
    <3>1. Publishes(a, t, s, f, "idle")
      BY <2>1 DEF Publishes
    <3> QED BY <3>1 DEF TurnWrite, Returns
  <2>2. ASSUME NEW t \in Turns, Observe(a, t) PROVE TurnWrite(a)
    BY <2>1, <2>2 DEF Observe, ObserveDead, SeenDead, Statuses, Failures
  <2>3. ASSUME NEW t \in Turns, Cancel(a, t) PROVE TurnWrite(a)
    BY <2>1, <2>3 DEF Cancel, ObserveDead, SeenDead, Statuses, Failures
  <2>4. ASSUME NEW t \in Turns, NEW s \in {"completed", "interrupted", "failed"},
               PublishTerminal(a, t, s)
        PROVE  TurnWrite(a)
    <3> DEFINE f == IF s = "failed" THEN "reported" ELSE ""
    <3>1. s \in Statuses \ {"inProgress"} /\ f \in Failures /\ f # "worker_gone"
      BY DEF Statuses, Failures
    <3> QED BY <2>1, <2>4, <3>1 DEF PublishTerminal
  <2>5. ASSUME NEW t \in Turns,
               \/ \E i \in Items : UpsertItem(a, t, i)
               \/ \E r \in Requests : ParkApproval(a, t, r)
        PROVE  TurnWrite(a)
    BY <2>5 DEF TurnWrite
  <2>6. ASSUME NEW th \in Threads, NEW k \in Keys \cup {None}, AdmitTurn(a, th, k)
        PROVE  quiet
    BY <2>6 DEF AdmitTurn, files, extras
  <2>7. ASSUME NEW th \in Threads, NEW s \in Sessions, SetAcpSessionId(a, th, s)
        PROVE  quiet
    BY <2>7 DEF SetAcpSessionId, extras
  <2>8. ASSUME NEW r, NEW d, ListTurns(a, r, d) PROVE quiet
    BY <2>8 DEF ListTurns, files, extras
  <2>9. ASSUME NEW t \in Turns, Wait(a, t) PROVE quiet
    BY <2>9 DEF Wait, files, extras
  <2>10. ASSUME NEW t \in Turns,
                MarkChildEof(a, t) \/ \E c \in Children : SetChildPid(a, t, c)
         PROVE  quiet
    BY <2>10 DEF MarkChildEof, SetChildPid
  <2> HIDE DEF quiet
  <2> QED BY <1>3, <2>2, <2>3, <2>4, <2>5, <2>6, <2>7, <2>8, <2>9, <2>10 DEF Call
<1>4. ASSUME NEW a \in Actors, WaitTimeout(a) PROVE quiet
  BY <1>1, <1>4 DEF WaitTimeout
<1>5. ASSUME NEW a \in Actors, Exit(a) PROVE quiet
  BY <1>5 DEF Exit, files
<1>6. ASSUME NEW th \in Threads, CreateThread(th) PROVE quiet
  BY <1>6 DEF CreateThread, extras
<1>7. ASSUME NEW c \in Children, ChildExit(c) PROVE quiet
  BY <1>7 DEF ChildExit, files
<1>8. CASE UNCHANGED vars
  BY <1>8 DEF vars
<1>9. CASE Next
  <2> HIDE DEF quiet
  <2>1. quiet \/ \E a \in Actors : TurnWrite(a)
    BY <1>2, <1>3, <1>4, <1>5, <1>6, <1>7, <1>9 DEF Next
  <2> QED BY <2>1 DEF quiet
<1> QED BY <1>8, <1>9

-----------------------------------------------------------------------------
(***************************************************************************)
(* What each of the writes does to the turn file it is about.              *)
(***************************************************************************)
\* The other turn files stay as they are.
OnlyTurn(t) == \A u \in Turns \ {t} : turn'[u] = turn[u]

\* A write of a field that concerns neither the thread nor the key.
SameTurn(t) ==
  /\ turn[t] \in Turn /\ turn'[t] \in Turn /\ turn[t] # None /\ turn'[t] # None
  /\ turn'[t].thread = turn[t].thread /\ turn'[t].key = turn[t].key

\* Only the request and the decision of t are written.
GateWritten(t, r, d) ==
  /\ OnlyTurn(t) /\ SameTurn(t)
  /\ turn'[t].req = r /\ turn'[t].dec = d
  /\ turn'[t].status = turn[t].status /\ turn'[t].failure = turn[t].failure
  /\ turn'[t].items = turn[t].items

\* A turn ends: status and failure are set, the rest is kept.
LEMMA PublishEffect ==
  ASSUME AdmissionInv, NEW a \in Actors, NEW t \in Turns, NEW s, NEW f, NEW ret,
         Publishes(a, t, s, f, ret)
  PROVE  /\ OnlyTurn(t) /\ SameTurn(t)
         /\ turn'[t].status = s /\ turn'[t].failure = f
         /\ turn'[t].req = turn[t].req /\ turn'[t].dec = turn[t].dec
         /\ UNCHANGED <<gen, hold, running, outcome, answered, gone, bare>>
<1> DEFINE new == [turn[t] EXCEPT !.status = s, !.failure = f]
<1>1. turn[t] \in Turn /\ turn \in [Turns -> Turn \cup {None}]
  BY DEF AdmissionInv, TypeOK, Publishes, InProgress, Admitted
<1>2. turn' = [turn EXCEPT ![t] = new]
  BY DEF Publishes, PublishTerminalLocked
<1>3. /\ new \in Turn /\ new.status = s /\ new.failure = f /\ new.req = turn[t].req
      /\ new.dec = turn[t].dec /\ new.thread = turn[t].thread /\ new.key = turn[t].key
  BY <1>1 DEF Publishes, Turn
<1>4. UNCHANGED <<gen, hold, running, outcome, answered, gone, bare>>
  BY DEF Publishes, PublishTerminalLocked, extras
<1> HIDE DEF new
<1> QED BY <1>1, <1>2, <1>3, <1>4, NoneAssumption DEF OnlyTurn, SameTurn

\* A new turn file for thread th and key k.
TurnWritten(t, th, k) ==
  /\ OnlyTurn(t) /\ turn[t] = None
  /\ turn'[t] \in Turn /\ turn'[t] # None
  /\ turn'[t].thread = th /\ turn'[t].key = k
  /\ turn'[t].status = "inProgress" /\ turn'[t].failure = ""
  /\ turn'[t].req = None /\ turn'[t].dec = None

\* A turn is admitted.
LEMMA WriteTurnEffect ==
  ASSUME AdmissionInv, NEW a \in Actors, WriteTurn(a)
  PROVE  /\ op[a].turn \in Turns
         /\ op[a].thread \in Threads /\ op[a].key \in Keys \cup {None}
         /\ TurnWritten(op[a].turn, op[a].thread, op[a].key)
         /\ UNCHANGED <<gen, hold, running, outcome, answered, gone, bare>>
<1> DEFINE new == [thread |-> op[a].thread, key |-> op[a].key,
                   status |-> "inProgress", failure |-> "", req |-> None,
                   dec |-> None, items |-> {}]
<1>1. /\ op[a].turn \in Turns /\ turn[op[a].turn] = None
      /\ op[a].thread \in Threads
      /\ turn \in [Turns -> Turn \cup {None}] /\ op[a] \in Op
  BY DEF AdmissionInv, ActorInv, LockInv, CallInv, WriteTurn, TypeOK, Admitting, AdmitLabels
<1>2. op[a].key \in Keys \cup {None}
  BY <1>1 DEF Op
<1>3. /\ new \in Turn /\ new.thread = op[a].thread /\ new.key = op[a].key
      /\ new.status = "inProgress" /\ new.failure = "" /\ new.req = None /\ new.dec = None
  BY <1>1, <1>2 DEF Turn, Statuses, Failures
<1>4. /\ turn' = [turn EXCEPT ![op[a].turn] = new]
      /\ UNCHANGED <<gen, hold, running, outcome, answered, gone, bare>>
  BY DEF WriteTurn, extras
<1> HIDE DEF new
<1> QED BY <1>1, <1>2, <1>3, <1>4, NoneAssumption DEF TurnWritten, OnlyTurn

\* A request or a decision is written, removed or replaced.
LEMMA GateEffect ==
  ASSUME TypeOK, NEW t \in Turns, turn[t] \in Turn,
         NEW r \in Requests \cup {None}, NEW d \in Decisions \cup {None},
         turn' = [turn EXCEPT ![t].req = r, ![t].dec = d]
  PROVE  GateWritten(t, r, d)
<1> DEFINE new == [turn[t] EXCEPT !.req = r, !.dec = d]
<1>1. /\ new \in Turn /\ new.thread = turn[t].thread /\ new.key = turn[t].key
      /\ new.status = turn[t].status /\ new.failure = turn[t].failure
      /\ new.items = turn[t].items /\ new.req = r /\ new.dec = d
  BY DEF Turn
<1>2. turn' = [turn EXCEPT ![t] = new] /\ turn \in [Turns -> Turn \cup {None}]
  BY DEF TypeOK
<1> HIDE DEF new
<1>3. turn'[t] = new /\ OnlyTurn(t)
  BY <1>2 DEF OnlyTurn
<1> QED BY <1>1, <1>3, NoneAssumption DEF SameTurn, GateWritten

\* A permission request is parked on a turn in progress.
LEMMA ParkEffect ==
  ASSUME AdmissionInv, NEW a \in Actors, NEW t \in Turns, NEW r \in Requests,
         ParkApproval(a, t, r)
  PROVE  /\ GateWritten(t, r, None)
         /\ outcome' = [outcome EXCEPT ![r] = "parked"]
         /\ UNCHANGED <<gen, hold, running, answered, gone, bare>>
<1>1. TypeOK /\ turn[t] \in Turn
  BY DEF AdmissionInv, ParkApproval, InProgress, Admitted, TypeOK
<1>2. turn' = [turn EXCEPT ![t].req = r, ![t].dec = None]
  BY DEF ParkApproval
<1>3. /\ outcome' = [outcome EXCEPT ![r] = "parked"]
      /\ UNCHANGED <<gen, hold, running, answered, gone, bare>>
  BY DEF ParkApproval
<1> QED BY <1>1, <1>2, <1>3, GateEffect

\* A request is withdrawn by its own gate, or another one is there and stays.
LEMMA ClearEffect ==
  ASSUME AdmissionInv, NEW a \in Actors, ClearPending(a)
  PROVE  /\ op[a].turn \in Turns /\ op[a].req \in Requests
         /\ turn[op[a].turn] \in Turn /\ turn[op[a].turn] # None
         /\ op[a].dec \in Decisions \cup {None}
         /\ \/ turn[op[a].turn].req # op[a].req /\ UNCHANGED turn
            \/ /\ turn[op[a].turn].req = op[a].req
               /\ GateWritten(op[a].turn, None, None)
         /\ outcome' = [outcome EXCEPT ![op[a].req] =
                          IF op[a].dec = None THEN "cancelled" ELSE op[a].dec]
         /\ UNCHANGED <<gen, hold, running, answered, gone, bare>>
<1> DEFINE t == op[a].turn
<1>1. /\ TypeOK /\ t \in Turns /\ turn[t] \in Turn /\ turn[t] # None
      /\ op[a].req \in Requests /\ op[a] \in Op
  BY DEF AdmissionInv, ClearPending, ActorInv, CallInv, Admitted, Issued, TypeOK
<1>2. op[a].dec \in Decisions \cup {None}
  BY <1>1 DEF Op
<1>3. CASE turn[t].req # op[a].req
  BY <1>1, <1>2, <1>3 DEF ClearPending
<1>4. CASE turn[t].req = op[a].req
  <2>1. turn' = [turn EXCEPT ![t].req = None, ![t].dec = None]
    BY <1>4 DEF ClearPending
  <2>2. /\ outcome' = [outcome EXCEPT ![op[a].req] =
                          IF op[a].dec = None THEN "cancelled" ELSE op[a].dec]
        /\ UNCHANGED <<gen, hold, running, answered, gone, bare>>
    BY DEF ClearPending
  <2>3. GateWritten(t, None, None)
    BY <1>1, <2>1, GateEffect
  <2> QED BY <1>1, <1>2, <1>4, <2>2, <2>3
<1> QED BY <1>3, <1>4

\* The decision of an open request is recorded, or nothing is.
LEMMA RespondEffect ==
  ASSUME AdmissionInv, NEW a \in Actors, Respond(a)
  PROVE  /\ op[a].turn \in Turns /\ op[a].req \in Requests /\ op[a].dec \in Decisions
         /\ turn[op[a].turn] \in Turn /\ turn[op[a].turn] # None
         /\ \/ UNCHANGED <<turn, answered>>
            \/ /\ PendingApproval(op[a].turn) /\ turn[op[a].turn].req = op[a].req
               /\ GateWritten(op[a].turn, op[a].req, op[a].dec)
               /\ answered' = [answered EXCEPT ![op[a].req] = op[a].dec]
         /\ UNCHANGED <<gen, hold, running, outcome, gone, bare>>
<1> DEFINE t == op[a].turn
           new == [turn[t] EXCEPT !.dec = op[a].dec]
<1>1. /\ TypeOK /\ t \in Turns /\ turn[t] \in Turn /\ turn[t] # None
      /\ op[a].req \in Requests /\ op[a].dec \in Decisions
  BY NoneAssumption DEF AdmissionInv, Respond, ActorInv, CallInv, Admitted, TypeOK, Op
<1>2. CASE UNCHANGED <<turn, answered>>
  BY <1>1, <1>2 DEF Respond
<1>3. CASE /\ PendingApproval(t) /\ turn[t].req = op[a].req
           /\ turn' = [turn EXCEPT ![t].dec = op[a].dec]
           /\ answered' = [answered EXCEPT ![op[a].req] = op[a].dec]
  <2>1. /\ new \in Turn /\ new.thread = turn[t].thread /\ new.key = turn[t].key
        /\ new.status = turn[t].status /\ new.failure = turn[t].failure
        /\ new.items = turn[t].items /\ new.req = op[a].req /\ new.dec = op[a].dec
    BY <1>1, <1>3 DEF Turn
  <2>2. turn' = [turn EXCEPT ![t] = new]
    BY <1>3
  <2> HIDE DEF new
  <2>3. GateWritten(t, op[a].req, op[a].dec)
    BY <1>1, <2>1, <2>2, NoneAssumption DEF TypeOK, OnlyTurn, SameTurn, GateWritten
  <2> QED BY <1>1, <1>3, <2>3 DEF Respond
<1> QED BY <1>2, <1>3 DEF Respond

\* An item is added to a turn in progress.
LEMMA UpsertEffect ==
  ASSUME AdmissionInv, NEW a \in Actors, NEW t \in Turns, NEW i \in Items,
         UpsertItem(a, t, i)
  PROVE  /\ OnlyTurn(t) /\ SameTurn(t)
         /\ turn'[t].req = turn[t].req /\ turn'[t].dec = turn[t].dec
         /\ turn'[t].status = turn[t].status /\ turn'[t].failure = turn[t].failure
         /\ UNCHANGED <<gen, hold, running, outcome, answered, gone, bare>>
<1> DEFINE new == [turn[t] EXCEPT !.items = turn[t].items \cup {i}]
<1>1. turn[t] \in Turn /\ TypeOK
  BY DEF AdmissionInv, TypeOK, UpsertItem, InProgress, Admitted
<1>2. turn' = [turn EXCEPT ![t] = new]
  BY <1>1 DEF UpsertItem, TypeOK
<1>3. /\ new \in Turn /\ new.status = turn[t].status /\ new.failure = turn[t].failure
      /\ new.req = turn[t].req /\ new.dec = turn[t].dec
      /\ new.thread = turn[t].thread /\ new.key = turn[t].key
  BY <1>1 DEF Turn
<1>4. UNCHANGED <<gen, hold, running, outcome, answered, gone, bare>>
  BY DEF UpsertItem, extras
<1> HIDE DEF new
<1> QED BY <1>1, <1>2, <1>3, <1>4, NoneAssumption DEF TypeOK, OnlyTurn, SameTurn

-----------------------------------------------------------------------------
\* What may never happen to a turn that is over.
Kept(t) ==
  Terminal(t) =>
    /\ turn'[t] # None
    /\ turn'[t].status = turn[t].status
    /\ turn'[t].failure = turn[t].failure
    /\ turn'[t].items = turn[t].items

\* No step rewrites the end of a turn.
LEMMA TerminalKept ==
  ASSUME AdmissionInv, [Next]_vars, NEW u \in Turns
  PROVE  Kept(u)
<1> SUFFICES ASSUME Terminal(u) PROVE Kept(u)
  BY DEF Kept
<1>1. ASSUME NEW t \in Turns, OnlyTurn(t), ~Terminal(t) PROVE Kept(u)
  <2>1. u # t
    BY <1>1
  <2> QED BY <1>1, <2>1 DEF Kept, OnlyTurn, Terminal, Admitted
<1>2. CASE UNCHANGED <<turn, outcome, answered>>
  BY <1>2 DEF Kept, Terminal, Admitted
<1>3. ASSUME NEW a \in Actors, TurnWrite(a) PROVE Kept(u)
  <2>1. ASSUME NEW t \in Turns, NEW s, NEW f, NEW ret, Publishes(a, t, s, f, ret)
        PROVE  Kept(u)
    <3>1. OnlyTurn(t) /\ ~Terminal(t)
      BY <2>1, PublishEffect DEF Publishes, InProgress, Terminal
    <3> QED BY <1>1, <3>1
  <2>2. CASE WriteTurn(a)
    <3>1. op[a].turn \in Turns /\ OnlyTurn(op[a].turn) /\ ~Terminal(op[a].turn)
      BY <2>2, WriteTurnEffect DEF TurnWritten, Terminal, Admitted
    <3> QED BY <1>1, <3>1
  <2>3. CASE ClearPending(a)
    BY <2>3, ClearEffect DEF Kept, GateWritten, OnlyTurn, SameTurn, Terminal, Admitted
  <2>4. CASE Respond(a)
    BY <2>4, RespondEffect DEF Kept, GateWritten, OnlyTurn, SameTurn, Terminal, Admitted
  <2>5. ASSUME NEW t \in Turns, NEW i \in Items, UpsertItem(a, t, i) PROVE Kept(u)
    <3>1. OnlyTurn(t) /\ ~Terminal(t)
      BY <2>5, UpsertEffect DEF UpsertItem, InProgress, Terminal
    <3> QED BY <1>1, <3>1
  <2>6. ASSUME NEW t \in Turns, NEW r \in Requests, ParkApproval(a, t, r) PROVE Kept(u)
    <3>1. OnlyTurn(t) /\ ~Terminal(t)
      BY <2>6, ParkEffect DEF GateWritten, ParkApproval, InProgress, Terminal
    <3> QED BY <1>1, <3>1
  <2> QED BY <1>3, <2>1, <2>2, <2>3, <2>4, <2>5, <2>6 DEF TurnWrite
<1> QED BY <1>2, <1>3, StepKinds

\* "If a terminal record is already published, do not overwrite it": no step
\* of any operation, in any interleaving and with any crash, changes status,
\* failure or items of a turn that is over.
THEOREM TerminalIsFinal == Spec => FirstTerminalWins
<1>1. AdmissionInv /\ [Next]_vars => [\A t \in Turns : Kept(t)]_vars
  BY TerminalKept
<1> QED BY <1>1, AdmissionInvariant, PTL DEF Spec, FirstTerminalWins, Kept

-----------------------------------------------------------------------------
(***************************************************************************)
(* What a step does to the actors.                                         *)
(***************************************************************************)
\* A step of one actor leaves the place and the locals of the others alone.
LEMMA OthersStay ==
  ASSUME TypeOK, NEW a \in Actors, Step(a) \/ Call(a) \/ WaitTimeout(a) \/ Exit(a),
         NEW b \in Actors, b # a
  PROVE  pc'[b] = pc[b] /\ op'[b] = op[b]
<1> DEFINE stay == pc'[b] = pc[b] /\ op'[b] = op[b]
<1> USE DEF Goto, Return, TypeOK
<1>1. ASSUME Leave(a) PROVE stay
  BY <1>1 DEF Leave
<1>2. ASSUME NEW t, NEW s, NEW f, NEW ret, PublishTerminalLocked(a, t, s, f, ret) PROVE stay
  BY <1>2 DEF PublishTerminalLocked
<1>3. ASSUME Step(a) PROVE stay
  <2>1. CASE ClearPointer(a)
    BY <2>1 DEF ClearPointer
  <2>2. CASE LookupClient(a)
    BY <2>2, <1>1, <1>2 DEF LookupClient, ObserveDead
  <2>3. CASE ScanClient(a)
    BY <2>3, <1>1, <1>2 DEF ScanClient, ObserveDead, Skip
  <2>4. CASE LockThread(a)
    BY <2>4 DEF LockThread
  <2>5. CASE CheckPointer(a)
    BY <2>5, <1>1, <1>2 DEF CheckPointer, ObserveDead
  <2>6. CASE ScanThread(a)
    BY <2>6, <1>1, <1>2 DEF ScanThread, ObserveDead, Skip
  <2>7. ASSUME NEW t \in Turns, WriteGeneration(a, t) PROVE stay
    BY <2>7 DEF WriteGeneration
  <2>8. CASE WriteFails(a)
    BY <2>8, <1>1 DEF WriteFails
  <2>9. CASE WriteTurn(a) \/ WritePointer(a) \/ StoreClient(a) \/ HoldLive(a)
    BY <2>9 DEF WriteTurn, WritePointer, StoreClient, HoldLive
  <2>10. CASE WaitPendingDecision(a)
    BY <2>10, <1>2 DEF WaitPendingDecision, ObserveDead
  <2>11. CASE ListTurnsStep(a)
    BY <2>11, <1>1, <1>2 DEF ListTurnsStep, ListTurn, ObserveDead
  <2>12. CASE WaitStep(a)
    BY <2>12, <1>1, <1>2 DEF WaitStep, ObserveDead
  <2>13. CASE ClearPending(a) \/ Respond(a)
    BY <2>13 DEF ClearPending, Respond
  <2> HIDE DEF stay
  <2> QED BY <1>3, <2>1, <2>2, <2>3, <2>4, <2>5, <2>6, <2>7, <2>8, <2>9, <2>10,
             <2>11, <2>12, <2>13 DEF Step
<1>4. ASSUME Call(a) PROVE stay
  <2>1. ASSUME NEW th, NEW k, AdmitTurn(a, th, k) PROVE stay
    BY <2>1 DEF AdmitTurn
  <2>2. ASSUME NEW th, NEW s, SetAcpSessionId(a, th, s) PROVE stay
    BY <2>2 DEF SetAcpSessionId
  <2>3. ASSUME NEW r, NEW d, ListTurns(a, r, d) PROVE stay
    BY <2>3 DEF ListTurns
  <2>4. ASSUME NEW t, Observe(a, t) \/ Cancel(a, t) PROVE stay
    BY <2>4, <1>2 DEF Observe, Cancel, ObserveDead
  <2>5. ASSUME NEW t, NEW s, PublishTerminal(a, t, s) PROVE stay
    BY <2>5, <1>2 DEF PublishTerminal
  <2>6. ASSUME NEW t, Wait(a, t) \/ MarkChildEof(a, t) PROVE stay
    BY <2>6 DEF Wait, MarkChildEof
  <2>7. ASSUME NEW t, NEW i, UpsertItem(a, t, i) \/ SetChildPid(a, t, i)
                             \/ ParkApproval(a, t, i)
        PROVE  stay
    BY <2>7 DEF UpsertItem, SetChildPid, ParkApproval
  <2> HIDE DEF stay
  <2> QED BY <1>4, <2>1, <2>2, <2>3, <2>4, <2>5, <2>6, <2>7 DEF Call
<1>5. ASSUME WaitTimeout(a) PROVE stay
  BY <1>1, <1>5 DEF WaitTimeout
<1>6. ASSUME Exit(a) PROVE stay
  BY <1>6 DEF Exit
<1> QED BY <1>3, <1>4, <1>5, <1>6

\* Steps of the system that are no actor's.
LEMMA WorldStays ==
  ASSUME \/ \E th \in Threads : CreateThread(th)
         \/ \E c \in Children : ChildExit(c)
         \/ UNCHANGED vars
  PROVE  pc' = pc /\ op' = op
BY DEF CreateThread, ChildExit, vars

-----------------------------------------------------------------------------
(***************************************************************************)
(* Permission requests                                                     *)
(***************************************************************************)
\* How an actor comes to wait for a decision and to stop waiting.
GateMoves(b) ==
  /\ Waiting(b)' => op'[b].dec = None
  /\ pc'[b] = "ungate" =>
       \/ pc[b] = "ungate" /\ op'[b] = op[b]
       \/ /\ pc[b] = "gate"
          /\ op'[b].turn = op[b].turn /\ op'[b].req = op[b].req
          /\ UNCHANGED <<turn, answered>>
          /\ \/ Terminal(op[b].turn) /\ op'[b].dec = None
             \/ /\ turn[op[b].turn].req = op[b].req
                /\ turn[op[b].turn].dec # None
                /\ op'[b].dec = turn[op[b].turn].dec

\* Only park_approval starts a wait and only wait_pending_decision ends one.
LEMMA GateSteps ==
  ASSUME AdmissionInv, [Next]_vars, NEW b \in Actors, GateInv(b)
  PROVE  GateMoves(b)
<1>0. TypeOK /\ ActorInv(b) /\ op[b] \in Op
  BY DEF AdmissionInv, TypeOK
<1>1. CASE pc'[b] = pc[b] /\ op'[b] = op[b]
  BY <1>1 DEF GateMoves, GateInv, Waiting
<1>2. CASE pc'[b] \notin {"gate", "ungate", "clear"}
  BY <1>2 DEF GateMoves, Waiting
<1>3. ASSUME Leave(b) PROVE GateMoves(b)
  BY <1>0, <1>2, <1>3, ReturnType DEF Leave
<1>4. ASSUME NEW t, NEW s, NEW f, NEW ret, PublishTerminalLocked(b, t, s, f, ret),
             ret = "gate" => pc[b] = "gate"
      PROVE  GateMoves(b)
  <2>1. pc'[b] = "clear" /\ op'[b].ret = ret /\ op'[b].dec = op[b].dec
    BY <1>0, <1>4 DEF PublishTerminalLocked, Goto, TypeOK, Op
  <2> QED BY <1>4, <2>1 DEF GateMoves, GateInv, Waiting
<1>5. ASSUME NEW l, Goto(b, l), l \notin {"gate", "ungate", "clear"}
      PROVE  GateMoves(b)
  BY <1>0, <1>2, <1>5 DEF Goto, TypeOK
<1>6. ASSUME Step(b) PROVE GateMoves(b)
  <2>1. CASE ClearPointer(b)
    <3>1. /\ pc[b] = "clear" /\ pc'[b] = op[b].ret /\ op'[b].ret = "idle"
          /\ op'[b].dec = op[b].dec /\ op[b].ret \in Returns
      BY <1>0, <2>1 DEF ClearPointer, Goto, TypeOK, Op
    <3> QED BY <3>1 DEF GateMoves, GateInv, Waiting, Returns
  <2>2. CASE LookupClient(b)
    BY <2>2, <1>3, <1>4, <1>5 DEF LookupClient, ObserveDead
  <2>3. CASE ScanClient(b)
    <3>1. ASSUME NEW t \in Turns, Skip(b, t) PROVE GateMoves(b)
      BY <1>2, <2>3, <3>1 DEF Skip, ScanClient
    <3> QED BY <2>3, <3>1, <1>3, <1>4, <1>5 DEF ScanClient, ObserveDead, Admitted
  <2>4. CASE LockThread(b)
    BY <2>4, <1>5 DEF LockThread
  <2>5. CASE CheckPointer(b)
    BY <2>5, <1>3, <1>4, <1>5 DEF CheckPointer, ObserveDead
  <2>6. CASE ScanThread(b)
    <3>1. ASSUME NEW t \in Turns, Skip(b, t) PROVE GateMoves(b)
      BY <1>2, <2>6, <3>1 DEF Skip, ScanThread
    <3> QED BY <2>6, <3>1, <1>3, <1>4, <1>5 DEF ScanThread, ObserveDead, Admitted
  <2>7. ASSUME NEW t \in Turns, WriteGeneration(b, t) PROVE GateMoves(b)
    BY <2>7, <1>5 DEF WriteGeneration
  <2>8. CASE WriteFails(b)
    BY <2>8, <1>3 DEF WriteFails
  <2>9. CASE WriteTurn(b) \/ WritePointer(b) \/ StoreClient(b)
    BY <2>9, <1>5 DEF WriteTurn, WritePointer, StoreClient
  <2>10. CASE HoldLive(b) \/ ClearPending(b) \/ Respond(b)
    BY <2>10, <1>0, <1>2, ReturnType DEF HoldLive, ClearPending, Respond
  <2>11. CASE WaitPendingDecision(b)
    <3> DEFINE t == op[b].turn
    <3>1. pc[b] = "gate" /\ op[b].dec = None
      BY <2>11 DEF WaitPendingDecision, GateInv, Waiting
    <3>2. CASE ObserveDead(b, t, "gate")
      BY <3>1, <3>2, <1>4 DEF ObserveDead
    <3>3. CASE /\ Terminal(t) /\ UNCHANGED op /\ Goto(b, "ungate")
               /\ UNCHANGED <<files, extras>>
      BY <1>0, <3>1, <3>3 DEF GateMoves, Waiting, Goto, TypeOK, files, extras
    <3>4. CASE /\ turn[t].req = op[b].req /\ turn[t].dec # None
               /\ op' = [op EXCEPT ![b].dec = turn[t].dec] /\ Goto(b, "ungate")
               /\ UNCHANGED <<files, extras>>
      <4>1. /\ pc'[b] = "ungate" /\ op'[b].turn = t /\ op'[b].req = op[b].req
            /\ op'[b].dec = turn[t].dec
        BY <1>0, <3>4 DEF Goto, TypeOK, Op
      <4> QED BY <3>1, <3>4, <4>1 DEF GateMoves, Waiting, files, extras
    <3> QED BY <2>11, <3>2, <3>3, <3>4 DEF WaitPendingDecision
  <2>12. CASE ListTurnsStep(b)
    <3>1. ASSUME NEW t \in Turns, ListTurn(b, t) PROVE GateMoves(b)
      BY <1>2, <2>12, <3>1 DEF ListTurn, ListTurnsStep
    <3> QED BY <2>12, <3>1, <1>3, <1>4, <1>5 DEF ListTurnsStep, ObserveDead, Admitted
  <2>13. CASE WaitStep(b)
    BY <2>13, <1>3, <1>4 DEF WaitStep, ObserveDead
  <2> QED BY <1>6, <2>1, <2>2, <2>3, <2>4, <2>5, <2>6, <2>7, <2>8, <2>9, <2>10,
             <2>11, <2>12, <2>13 DEF Step
<1>7. ASSUME Call(b) PROVE GateMoves(b)
  <2>1. ASSUME NEW th, NEW k, AdmitTurn(b, th, k) PROVE GateMoves(b)
    BY <2>1, <1>5 DEF AdmitTurn
  <2>2. ASSUME NEW th, NEW s, SetAcpSessionId(b, th, s) PROVE GateMoves(b)
    BY <2>2, <1>1 DEF SetAcpSessionId
  <2>3. ASSUME NEW r, NEW d, ListTurns(b, r, d) PROVE GateMoves(b)
    BY <2>3, <1>5 DEF ListTurns
  <2>4. ASSUME NEW t, Observe(b, t) \/ Cancel(b, t) PROVE GateMoves(b)
    BY <2>4, <1>4 DEF Observe, Cancel, ObserveDead
  <2>5. ASSUME NEW t, NEW s, PublishTerminal(b, t, s) PROVE GateMoves(b)
    BY <2>5, <1>4 DEF PublishTerminal
  <2>6. ASSUME NEW t, Wait(b, t) PROVE GateMoves(b)
    BY <2>6, <1>5 DEF Wait
  <2>7. ASSUME NEW t, NEW i, MarkChildEof(b, t) \/ UpsertItem(b, t, i) \/ SetChildPid(b, t, i)
        PROVE  GateMoves(b)
    BY <2>7, <1>1 DEF UpsertItem, SetChildPid, MarkChildEof
  <2>8. ASSUME NEW t \in Turns, NEW r \in Requests, ParkApproval(b, t, r) PROVE GateMoves(b)
    <3>1. op[b].dec = None
      BY <1>0, <2>8 DEF ParkApproval, ActorInv, FreshInv
    <3>2. pc'[b] = "gate" /\ op'[b].dec = op[b].dec
      BY <1>0, <2>8 DEF ParkApproval, Goto, TypeOK, Op
    <3> QED BY <3>1, <3>2 DEF GateMoves, Waiting
  <2> QED BY <1>7, <2>1, <2>2, <2>3, <2>4, <2>5, <2>6, <2>7, <2>8 DEF Call
<1>8. ASSUME WaitTimeout(b) PROVE GateMoves(b)
  BY <1>3, <1>8 DEF WaitTimeout
<1>9. ASSUME Exit(b) PROVE GateMoves(b)
  BY <1>0, <1>2, <1>9, ReturnType DEF Exit
<1>10. ASSUME NEW a \in Actors, a # b, Step(a) \/ Call(a) \/ WaitTimeout(a) \/ Exit(a)
       PROVE  GateMoves(b)
  BY <1>0, <1>1, <1>10, OthersStay
<1>11. CASE UNCHANGED vars
  BY <1>1, <1>11, WorldStays
<1>12. CASE Next
  BY <1>1, <1>6, <1>7, <1>8, <1>9, <1>10, <1>12, WorldStays DEF Next
<1> QED BY <1>11, <1>12

\* Everything but the gates: a request is on one turn, a decision in a turn
\* file or with the agent is the recorded one, and recorded answers are final.
LEMMA AnswerFiles ==
  ASSUME AdmissionInv, AnswerInv, [Next]_vars
  PROVE  /\ \A r \in Requests : answered[r] # None => answered'[r] = answered[r]
         /\ AnswerInv!1' /\ AnswerInv!2' /\ GateObeysItsAnswer'
<1> DEFINE Fine == /\ \A r \in Requests : answered[r] # None => answered'[r] = answered[r]
                   /\ AnswerInv!1' /\ AnswerInv!2' /\ GateObeysItsAnswer'
<1>0. /\ turn \in [Turns -> Turn \cup {None}]
      /\ outcome \in [Requests -> Outcomes]
      /\ answered \in [Requests -> Decisions \cup {None}]
      /\ None \notin Requests /\ None \notin Decisions
      /\ \A t \in Admitted : turn[t].req \in Requests \cup {None}
  <2>1. TypeOK /\ \A t \in Admitted : turn[t] \in Turn
    BY DEF AdmissionInv, TypeOK, Admitted
  <2> QED BY <2>1, NoneAssumption DEF TypeOK, Turn
<1>1. CASE UNCHANGED <<turn, outcome, answered>>
  BY <1>1 DEF AnswerInv, GateObeysItsAnswer, Admitted, Issued
<1>2. ASSUME NEW t \in Turns, OnlyTurn(t), SameTurn(t), turn'[t].req = turn[t].req,
             turn'[t].dec = turn[t].dec, UNCHANGED <<outcome, answered>>
      PROVE  Fine
  BY <1>2 DEF AnswerInv, GateObeysItsAnswer, Admitted, Issued, OnlyTurn, SameTurn
<1>3. ASSUME NEW a \in Actors, TurnWrite(a) PROVE Fine
  <2>1. ASSUME NEW t \in Turns, NEW s, NEW f, NEW ret, Publishes(a, t, s, f, ret)
        PROVE  Fine
    BY <1>2, <2>1, PublishEffect
  <2>2. ASSUME NEW t \in Turns, NEW i \in Items, UpsertItem(a, t, i) PROVE Fine
    BY <1>2, <2>2, UpsertEffect
  <2>3. CASE WriteTurn(a)
    <3> DEFINE t == op[a].turn
    <3>1. /\ t \in Turns /\ OnlyTurn(t) /\ turn[t] = None /\ turn'[t] # None
          /\ turn'[t].req = None /\ turn'[t].dec = None
          /\ UNCHANGED <<outcome, answered>>
      BY <2>3, WriteTurnEffect DEF TurnWritten
    <3> QED BY <3>1 DEF AnswerInv, GateObeysItsAnswer, Admitted, Issued, OnlyTurn
  <2>4. ASSUME NEW t \in Turns, NEW r \in Requests, ParkApproval(a, t, r) PROVE Fine
    <3>1. /\ GateWritten(t, r, None) /\ UNCHANGED answered
          /\ outcome' = [outcome EXCEPT ![r] = "parked"]
          /\ outcome[r] = "unused" /\ answered[r] = None
      BY <2>4, ParkEffect DEF ParkApproval, AnswerInv
    <3>2. \A u \in Admitted : turn[u].req # r
      BY <1>0, <3>1 DEF AnswerInv, Issued
    <3>3. Issued' = Issued \cup {r} /\ Admitted' = Admitted
      BY <1>0, <3>1 DEF Issued, Admitted, GateWritten, OnlyTurn, SameTurn
    <3>4. AnswerInv!1'
      BY <1>0, <3>1, <3>2, <3>3 DEF AnswerInv, GateWritten, OnlyTurn, Admitted
    <3>5. AnswerInv!2' /\ GateObeysItsAnswer'
      BY <1>0, <3>1, DecisionsAssumption DEF AnswerInv, GateObeysItsAnswer
    <3> QED BY <3>1, <3>4, <3>5
  <2>5. CASE ClearPending(a)
    <3> DEFINE t == op[a].turn
               r == op[a].req
    <3>1. /\ t \in Turns /\ r \in Requests /\ UNCHANGED answered
          /\ UNCHANGED turn \/ GateWritten(t, None, None)
          /\ outcome' = [outcome EXCEPT ![r] = IF op[a].dec = None THEN "cancelled" ELSE op[a].dec]
          /\ op[a].dec \in Decisions \cup {None}
      BY <2>5, ClearEffect
    <3>2. Issued \subseteq Issued' /\ Admitted' = Admitted
      BY <1>0, <3>1, DecisionsAssumption DEF Issued, Admitted, GateWritten, OnlyTurn, SameTurn
    <3>3. AnswerInv!1'
      BY <1>0, <3>1, <3>2 DEF AnswerInv, GateWritten, OnlyTurn, Admitted
    <3>4. AnswerInv!2'
      BY <1>0, <3>1, DecisionsAssumption DEF AnswerInv
    <3>5. GateObeysItsAnswer'
      <4>1. op[a].dec # None => answered[r] = op[a].dec
        BY <2>5 DEF ClearPending, AnswerInv, GateInv
      <4> QED BY <1>0, <3>1, <4>1, DecisionsAssumption DEF AnswerInv, GateObeysItsAnswer
    <3> QED BY <3>1, <3>3, <3>4, <3>5
  <2>6. CASE Respond(a)
    <3> DEFINE t == op[a].turn
               r == op[a].req
               d == op[a].dec
    <3>1. CASE UNCHANGED <<turn, answered>>
      BY <1>1, <2>6, <3>1, RespondEffect
    <3>2. CASE /\ PendingApproval(t) /\ turn[t].req = r /\ GateWritten(t, r, d)
               /\ answered' = [answered EXCEPT ![r] = d]
      <4>1. t \in Turns /\ r \in Requests /\ d \in Decisions /\ UNCHANGED outcome
        BY <2>6, RespondEffect
      <4>2. /\ t \in Admitted /\ turn[t].dec = None /\ answered[r] = None /\ r \in Issued
            /\ Admitted' = Admitted /\ Issued' = Issued
        BY <1>0, <3>2, <4>1
        DEF PendingApproval, InProgress, AnswerInv, Admitted, Issued, GateWritten,
            OnlyTurn, SameTurn
      <4>3. \A u \in Admitted \ {t} : turn[u].req # r
        BY <1>0, <3>2, <4>1, <4>2 DEF AnswerInv
      <4>4. AnswerInv!1'
        BY <1>0, <3>2, <4>1, <4>2, <4>3 DEF AnswerInv, GateWritten, OnlyTurn, Admitted
      <4>5. AnswerInv!2' /\ GateObeysItsAnswer'
        BY <1>0, <3>2, <4>1, <4>2 DEF AnswerInv, GateObeysItsAnswer, Issued
      <4>6. \A q \in Requests : answered[q] # None => answered'[q] = answered[q]
        BY <1>0, <3>2, <4>2
      <4> QED BY <4>4, <4>5, <4>6
    <3> QED BY <2>6, <3>1, <3>2, RespondEffect
  <2> HIDE DEF Fine
  <2> QED BY <1>3, <2>1, <2>2, <2>3, <2>4, <2>5, <2>6 DEF TurnWrite
<1> QED BY <1>1, <1>3, StepKinds

\* The invariant about answers is inductive.
LEMMA AnswerKeeps ==
  ASSUME AdmissionInv, AnswerInv, [Next]_vars
  PROVE  AnswerInv'
<1>1. ASSUME NEW b \in Actors PROVE GateInv(b)'
  <2>1. GateInv(b) /\ GateMoves(b) /\ ActorInv(b)
    BY GateSteps DEF AnswerInv, AdmissionInv
  <2>2. pc[b] \in {"gate", "ungate"} =>
          op[b].turn \in Admitted /\ op[b].req \in Requests
    BY <2>1 DEF ActorInv, CallInv, Issued
  <2>3. CASE pc'[b] = "ungate" /\ pc[b] = "ungate" /\ op'[b] = op[b]
    <3>1. op[b].dec = None => Terminal(op[b].turn)'
      BY <2>1, <2>2, <2>3, TerminalKept DEF GateInv, Kept, Terminal, Admitted
    <3>2. op[b].dec # None => answered'[op[b].req] = op[b].dec
      BY <2>1, <2>2, <2>3, AnswerFiles DEF GateInv
    <3> QED BY <2>1, <2>3, <3>1, <3>2 DEF GateInv, Waiting
  <2>4. CASE /\ pc'[b] = "ungate" /\ pc[b] = "gate"
             /\ op'[b].turn = op[b].turn /\ op'[b].req = op[b].req
             /\ UNCHANGED <<turn, answered>>
             /\ \/ Terminal(op[b].turn) /\ op'[b].dec = None
                \/ /\ turn[op[b].turn].req = op[b].req
                   /\ turn[op[b].turn].dec # None
                   /\ op'[b].dec = turn[op[b].turn].dec
    <3>1. CASE Terminal(op[b].turn) /\ op'[b].dec = None
      BY <2>4, <3>1 DEF GateInv, Waiting, Terminal, Admitted
    <3>2. CASE /\ turn[op[b].turn].req = op[b].req
               /\ turn[op[b].turn].dec # None
               /\ op'[b].dec = turn[op[b].turn].dec
      <4>1. answered[op[b].req] = turn[op[b].turn].dec
        BY <2>2, <2>4, <3>2, NoneAssumption DEF AnswerInv
      <4> QED BY <2>4, <3>2, <4>1 DEF GateInv, Waiting
    <3> QED BY <2>4, <3>1, <3>2
  <2>5. CASE pc'[b] # "ungate"
    BY <2>1, <2>5 DEF GateInv, GateMoves
  <2> QED BY <2>1, <2>3, <2>4, <2>5 DEF GateMoves
<1> QED BY <1>1, AnswerFiles DEF AnswerInv

\* The empty home has no requests.
LEMMA InitAnswer ==
  Init => AnswerInv
BY DecisionsAssumption, NoneAssumption
DEF Init, AnswerInv, Admitted, GateInv, Waiting, NoOp, GateObeysItsAnswer

\* The agent is only ever told the decision recorded for the very request it
\* asked about.
THEOREM AnswersAreObeyed == Spec => []GateObeysItsAnswer
<1>1. AdmissionInv /\ AnswerInv /\ [Next]_vars => AnswerInv'
  BY AnswerKeeps
<1>2. AnswerInv => GateObeysItsAnswer
  BY DEF AnswerInv
<1> QED BY <1>1, <1>2, InitAnswer, AdmissionInvariant, PTL DEF Spec

-----------------------------------------------------------------------------
(***************************************************************************)
(* The ledger implements TurnStore                                         *)
(***************************************************************************)
\* What a caller sees of a record.
Seen(rec) == [thread |-> rec.thread, key |-> rec.key, status |-> rec.status,
              req |-> rec.req, dec |-> rec.dec]

\* ... has the type of a slot and the fields of the record.
LEMMA SeenFacts ==
  ASSUME NEW rec \in Turn
  PROVE  /\ Seen(rec) \in Store!Slot /\ Seen(rec) # None
         /\ Seen(rec).thread = rec.thread /\ Seen(rec).key = rec.key
         /\ Seen(rec).status = rec.status
         /\ Seen(rec).req = rec.req /\ Seen(rec).dec = rec.dec
<1>1. Seen(rec) \in Store!Slot
  BY DEF Seen, Turn, Store!Slot, Store!Terminals, Statuses
<1> QED BY <1>1, SlotAssumption DEF Seen

\* Slots that differ in a field or two.
LEMMA SlotEdit ==
  ASSUME NEW x \in Store!Slot, NEW y \in Store!Slot, y.thread = x.thread, y.key = x.key
  PROVE  /\ y.req = x.req /\ y.dec = x.dec => y = [x EXCEPT !.status = y.status]
         /\ y.status = x.status /\ y.req = x.req => y = [x EXCEPT !.dec = y.dec]
         /\ y.status = x.status => y = [x EXCEPT !.req = y.req, !.dec = y.dec]
BY DEF Store!Slot

\* A record that exists is seen as one.
LEMMA SlotFacts ==
  ASSUME TypeOK, NEW t \in Turns
  PROVE  /\ turn[t] = None => AbstractSlot[t] = None
         /\ turn[t] # None => /\ AbstractSlot[t] = Seen(turn[t])
                              /\ AbstractSlot[t] \in Store!Slot
                              /\ AbstractSlot[t] # None
<1>1. CASE turn[t] = None
  BY <1>1 DEF AbstractSlot
<1>2. CASE turn[t] # None
  <2>1. turn[t] \in Turn
    BY <1>2 DEF TypeOK
  <2>2. AbstractSlot[t] = Seen(turn[t])
    BY <1>2 DEF AbstractSlot, Seen
  <2> QED BY <1>2, <2>1, <2>2, SeenFacts
<1> QED BY <1>1, <1>2

\* A write of one turn file is a write of one slot.
LEMMA SlotWrite ==
  ASSUME TypeOK, TypeOK', NEW t \in Turns, OnlyTurn(t), turn'[t] # None
  PROVE  /\ AbstractSlot' = [AbstractSlot EXCEPT ![t] = Seen(turn'[t])]
         /\ AbstractSlot'[t] = Seen(turn'[t])
BY DEF AbstractSlot, OnlyTurn, Seen

\* A write of a field of a turn is a write of that field of its slot.
LEMMA SlotStep ==
  ASSUME TypeOK, NEW t \in Turns, SameTurn(t)
  PROVE  /\ turn'[t].req = turn[t].req /\ turn'[t].dec = turn[t].dec =>
              Seen(turn'[t]) = [AbstractSlot[t] EXCEPT !.status = turn'[t].status]
         /\ turn'[t].status = turn[t].status /\ turn'[t].req = turn[t].req =>
              Seen(turn'[t]) = [AbstractSlot[t] EXCEPT !.dec = turn'[t].dec]
         /\ turn'[t].status = turn[t].status =>
              Seen(turn'[t]) = [AbstractSlot[t] EXCEPT !.req = turn'[t].req,
                                                       !.dec = turn'[t].dec]
<1> DEFINE x == AbstractSlot[t]
           y == Seen(turn'[t])
<1>1. /\ x \in Store!Slot /\ x.thread = turn[t].thread /\ x.key = turn[t].key
      /\ x.status = turn[t].status /\ x.req = turn[t].req /\ x.dec = turn[t].dec
  BY SlotFacts, SeenFacts DEF SameTurn
<1>2. /\ y \in Store!Slot /\ y.thread = turn'[t].thread /\ y.key = turn'[t].key
      /\ y.status = turn'[t].status /\ y.req = turn'[t].req /\ y.dec = turn'[t].dec
  BY SeenFacts DEF SameTurn
<1>3. x.thread = y.thread /\ x.key = y.key
  BY <1>1, <1>2 DEF SameTurn
<1> HIDE DEF x, y
<1>4. /\ y.req = x.req /\ y.dec = x.dec => y = [x EXCEPT !.status = y.status]
      /\ y.status = x.status /\ y.req = x.req => y = [x EXCEPT !.dec = y.dec]
      /\ y.status = x.status => y = [x EXCEPT !.req = y.req, !.dec = y.dec]
  BY <1>1, <1>2, <1>3, SlotEdit
<1>5. /\ turn'[t].req = turn[t].req /\ turn'[t].dec = turn[t].dec =>
           y = [x EXCEPT !.status = turn'[t].status]
      /\ turn'[t].status = turn[t].status /\ turn'[t].req = turn[t].req =>
           y = [x EXCEPT !.dec = turn'[t].dec]
      /\ turn'[t].status = turn[t].status =>
           y = [x EXCEPT !.req = turn'[t].req, !.dec = turn'[t].dec]
  BY <1>1, <1>2, <1>4
<1> QED BY <1>5 DEF x, y

\* A step that no caller sees.
LEMMA SlotSame ==
  ASSUME TypeOK, TypeOK', NEW t \in Turns, OnlyTurn(t), SameTurn(t),
         turn'[t].status = turn[t].status,
         turn'[t].req = turn[t].req, turn'[t].dec = turn[t].dec
  PROVE  AbstractSlot' = AbstractSlot
BY DEF AbstractSlot, OnlyTurn, SameTurn

\* Live turns of the abstract store are the turns in progress.
LEMMA LiveFacts ==
  ASSUME TypeOK, NEW t \in Turns
  PROVE  /\ Store!Live(t) <=> InProgress(t)
         /\ turn[t] # None =>
              /\ AbstractSlot[t].thread = turn[t].thread
              /\ AbstractSlot[t].key = turn[t].key
              /\ AbstractSlot[t].status = turn[t].status
              /\ AbstractSlot[t].req = turn[t].req
              /\ AbstractSlot[t].dec = turn[t].dec
<1>1. CASE turn[t] = None
  BY <1>1, SlotFacts DEF Store!Live, InProgress, Admitted
<1>2. CASE turn[t] # None
  <2>1. turn[t] \in Turn /\ AbstractSlot[t] = Seen(turn[t]) /\ AbstractSlot[t] # None
    BY <1>2, SlotFacts DEF TypeOK
  <2> QED BY <1>2, <2>1, SeenFacts DEF Store!Live, InProgress, Admitted
<1> QED BY <1>1, <1>2

\* Every step of the ledger is a step of the store or is not seen.
LEMMA StepRefines ==
  ASSUME AdmissionInv, AdmissionInv', AnswerInv, [Next]_vars
  PROVE  [Store!Next]_<<AbstractSlot, Issued>>
<1> DEFINE Refined == [Store!Next]_<<AbstractSlot, Issued>>
<1>0. TypeOK /\ TypeOK' /\ None \notin Requests /\ None \notin Decisions
      /\ \A t \in Turns : turn[t] # None => turn[t] \in Turn
  BY NoneAssumption DEF AdmissionInv, TypeOK
<1>1. CASE UNCHANGED <<turn, outcome, answered>>
  BY <1>1 DEF AbstractSlot, Issued
<1>2. ASSUME NEW a \in Actors, TurnWrite(a) PROVE Refined
  <2>1. ASSUME NEW t \in Turns, NEW s, NEW f, NEW ret, Publishes(a, t, s, f, ret)
        PROVE  Refined
    <3>1. /\ OnlyTurn(t) /\ SameTurn(t) /\ turn'[t].status = s
          /\ turn'[t].req = turn[t].req /\ turn'[t].dec = turn[t].dec
          /\ UNCHANGED outcome /\ InProgress(t) /\ s \in Statuses \ {"inProgress"}
      BY <2>1, PublishEffect DEF Publishes
    <3>2. /\ AbstractSlot' = [AbstractSlot EXCEPT ![t] = Seen(turn'[t])]
          /\ AbstractSlot'[t] = Seen(turn'[t])
      BY <1>0, <3>1, SlotWrite DEF SameTurn
    <3>3. Seen(turn'[t]) = [AbstractSlot[t] EXCEPT !.status = s]
      BY <1>0, <3>1, SlotStep DEF SameTurn
    <3>4. Store!Finish(t, s)
      BY <1>0, <3>1, <3>2, <3>3, LiveFacts DEF Store!Finish, Issued
    <3>5. AbstractSlot'[t] # AbstractSlot[t]
      BY <1>0, <3>1, <3>2, LiveFacts, SeenFacts DEF SameTurn, InProgress
    <3>6. s \in Store!Terminals
      BY <3>1 DEF Store!Terminals, Statuses
    <3> QED BY <3>4, <3>5, <3>6 DEF Store!Next
  <2>2. ASSUME NEW t \in Turns, NEW i \in Items, UpsertItem(a, t, i) PROVE Refined
    BY <1>0, <2>2, UpsertEffect, SlotSame DEF Issued
  <2>3. CASE WriteTurn(a)
    <3> DEFINE t == op[a].turn
    <3>1. /\ t \in Turns /\ TurnWritten(t, op[a].thread, op[a].key)
          /\ op[a].thread \in Threads /\ op[a].key \in Keys \cup {None}
          /\ UNCHANGED outcome
      BY <2>3, WriteTurnEffect
    <3>2. /\ AbstractSlot' = [AbstractSlot EXCEPT ![t] = Seen(turn'[t])]
          /\ AbstractSlot'[t] = Seen(turn'[t])
      BY <1>0, <3>1, SlotWrite DEF TurnWritten
    <3>3. Seen(turn'[t]) = [thread |-> op[a].thread, key |-> op[a].key,
             status |-> "inProgress", req |-> None, dec |-> None]
      BY <3>1 DEF Seen, TurnWritten
    <3>4. \A u \in Turns : Store!Live(u) =>
            /\ AbstractSlot[u].thread # op[a].thread
            /\ op[a].key # None => AbstractSlot[u].key # op[a].key
      <4>1. \A u \in Turns : InProgress(u) =>
              /\ turn[u].thread # op[a].thread
              /\ op[a].key # None => turn[u].key # op[a].key
        BY <2>3 DEF AdmissionInv, ActorInv, ScanInv, WriteTurn
      <4> QED BY <1>0, <4>1, LiveFacts DEF InProgress, Admitted
    <3>5. AbstractSlot[t] = None /\ AbstractSlot'[t] # None
      <4>1. AbstractSlot[t] = None
        BY <1>0, <3>1, SlotFacts DEF TurnWritten
      <4>2. Seen(turn'[t]) \in Store!Slot
        BY <3>1, <3>3 DEF Store!Slot, Store!Terminals
      <4>3. AbstractSlot'[t] = Seen(turn'[t])
        BY <3>1, <3>2 DEF AbstractSlot
      <4> QED BY <4>1, <4>2, <4>3, SlotAssumption
    <3>6. Store!Admit(t, op[a].thread, op[a].key)
      BY <3>1, <3>2, <3>3, <3>4, <3>5 DEF Store!Admit, Issued
    <3> QED BY <3>1, <3>5, <3>6 DEF Store!Next
  <2>4. ASSUME NEW t \in Turns, NEW r \in Requests, ParkApproval(a, t, r) PROVE Refined
    <3>1. /\ GateWritten(t, r, None) /\ outcome' = [outcome EXCEPT ![r] = "parked"]
          /\ outcome[r] = "unused" /\ InProgress(t) /\ ~PendingApproval(t)
      BY <2>4, ParkEffect DEF ParkApproval
    <3>2. /\ AbstractSlot' = [AbstractSlot EXCEPT ![t] = Seen(turn'[t])]
          /\ AbstractSlot'[t] = Seen(turn'[t])
      BY <1>0, <3>1, SlotWrite DEF GateWritten, SameTurn
    <3>3. Seen(turn'[t]) = [AbstractSlot[t] EXCEPT !.req = r, !.dec = None]
      BY <1>0, <3>1, SlotStep DEF GateWritten, SameTurn
    <3>4. Issued' = Issued \cup {r} /\ r \notin Issued
      BY <1>0, <3>1 DEF Issued, TypeOK
    <3>5. Store!Live(t) /\ (AbstractSlot[t].req = None \/ AbstractSlot[t].dec # None)
      BY <1>0, <3>1, LiveFacts DEF PendingApproval, InProgress, Admitted
    <3>6. Store!Ask(t, r)
      BY <3>2, <3>3, <3>4, <3>5 DEF Store!Ask
    <3>7. AbstractSlot'[t] # AbstractSlot[t]
      <4>1. turn[t].req # r
        BY <1>0, <3>1, <3>4 DEF AnswerInv, InProgress
      <4>2. AbstractSlot'[t].req = r /\ AbstractSlot[t].req # r
        BY <1>0, <3>1, <3>2, <4>1, LiveFacts, SeenFacts DEF GateWritten, SameTurn
      <4> QED BY <4>2
    <3> QED BY <3>6, <3>7 DEF Store!Next
  <2>5. CASE ClearPending(a)
    <3> DEFINE t == op[a].turn
               r == op[a].req
    <3>1. /\ t \in Turns /\ r \in Requests /\ turn[t] # None
          /\ \/ UNCHANGED turn
             \/ turn[t].req = r /\ GateWritten(t, None, None)
          /\ outcome' = [outcome EXCEPT ![r] = IF op[a].dec = None THEN "cancelled" ELSE op[a].dec]
          /\ op[a].dec \in Decisions \cup {None}
      BY <2>5, ClearEffect
    <3>2. Issued' = Issued
      <4>1. r \in Issued
        BY <2>5 DEF ClearPending, AdmissionInv, ActorInv, CallInv
      <4> QED BY <1>0, <3>1, <4>1, DecisionsAssumption DEF Issued, TypeOK
    <3>3. CASE UNCHANGED turn
      BY <3>2, <3>3 DEF AbstractSlot
    <3>4. CASE turn[t].req = r /\ GateWritten(t, None, None)
      <4>1. /\ AbstractSlot' = [AbstractSlot EXCEPT ![t] = Seen(turn'[t])]
            /\ AbstractSlot'[t] = Seen(turn'[t])
        BY <1>0, <3>1, <3>4, SlotWrite DEF GateWritten, SameTurn
      <4>2. Seen(turn'[t]) = [AbstractSlot[t] EXCEPT !.req = None, !.dec = None]
        BY <1>0, <3>1, <3>4, SlotStep DEF GateWritten, SameTurn
      <4>3. turn[t].dec # None \/ ~InProgress(t)
        BY <1>0, <2>5, <3>1, <3>4
        DEF ClearPending, AnswerInv, GateInv, Admitted, InProgress, Terminal
      <4>4. Store!Withdraw(t)
        BY <1>0, <3>1, <3>2, <3>4, <4>1, <4>2, <4>3, LiveFacts, SlotFacts DEF Store!Withdraw
      <4>5. AbstractSlot'[t] # AbstractSlot[t]
        <5>1. AbstractSlot'[t].req = None /\ AbstractSlot[t].req = r
          BY <1>0, <3>1, <3>4, <4>1, LiveFacts, SeenFacts DEF GateWritten, SameTurn
        <5> QED BY <1>0, <3>1, <5>1
      <4> QED BY <3>1, <4>4, <4>5 DEF Store!Next
    <3> QED BY <3>1, <3>3, <3>4
  <2>6. CASE Respond(a)
    <3> DEFINE t == op[a].turn
               d == op[a].dec
    <3>1. t \in Turns /\ op[a].req \in Requests /\ d \in Decisions /\ UNCHANGED outcome
      BY <2>6, RespondEffect
    <3>2. CASE UNCHANGED turn
      BY <3>1, <3>2 DEF AbstractSlot, Issued
    <3>3. CASE /\ PendingApproval(t) /\ turn[t].req = op[a].req
               /\ GateWritten(t, op[a].req, d)
      <4>1. /\ AbstractSlot' = [AbstractSlot EXCEPT ![t] = Seen(turn'[t])]
            /\ AbstractSlot'[t] = Seen(turn'[t])
        BY <1>0, <3>1, <3>3, SlotWrite DEF GateWritten, SameTurn
      <4>2. Seen(turn'[t]) = [AbstractSlot[t] EXCEPT !.dec = d]
        BY <1>0, <3>1, <3>3, SlotStep DEF GateWritten, SameTurn
      <4>3. /\ Store!Live(t) /\ AbstractSlot[t].req # None /\ AbstractSlot[t].dec = None
        BY <1>0, <3>1, <3>3, LiveFacts DEF PendingApproval, InProgress, Admitted
      <4>4. Store!Answer(t, d)
        BY <3>1, <4>1, <4>2, <4>3 DEF Store!Answer, Issued
      <4>5. AbstractSlot'[t] # AbstractSlot[t]
        <5>1. AbstractSlot'[t].dec = d
          BY <1>0, <3>1, <3>3, <4>1, SeenFacts DEF GateWritten, SameTurn
        <5> QED BY <1>0, <3>1, <4>3, <5>1
      <4> QED BY <3>1, <4>4, <4>5 DEF Store!Next
    <3> QED BY <2>6, <3>2, <3>3, RespondEffect
  <2> HIDE DEF Refined
  <2> QED BY <1>2, <2>1, <2>2, <2>3, <2>4, <2>5, <2>6 DEF TurnWrite
<1> QED BY <1>1, <1>2, StepKinds

\* The empty home is the empty store.
LEMMA InitRefines ==
  Init => Store!Init
BY DEF Init, Store!Init, AbstractSlot, Issued

\* The ledger implements TurnStore: with every file write, lock, scan, failure
\* and crash of the code in between, callers of all processes see turns that
\* are admitted, asked about, answered and finished in single steps.
THEOREM LedgerImplementsStore == Spec => ImplementsStore
<1>1. AdmissionInv /\ AdmissionInv' /\ AnswerInv /\ [Next]_vars
        => [Store!Next]_<<AbstractSlot, Issued>>
  BY StepRefines
<1>2. AdmissionInv /\ AnswerInv /\ [Next]_vars => AnswerInv'
  BY AnswerKeeps
<1> QED BY <1>1, <1>2, InitAnswer, InitRefines, AdmissionInvariant, PTL
    DEF Spec, ImplementsStore, Store!Spec

-----------------------------------------------------------------------------
(***************************************************************************)
(* Who has really gone                                                     *)
(***************************************************************************)
\* A turn is in progress because it was, or because it has just been admitted.
LEMMA NothingReopens ==
  ASSUME AdmissionInv, [Next]_vars, NEW u \in Turns, InProgress(u)'
  PROVE  \/ InProgress(u) /\ turn'[u].failure = turn[u].failure
         \/ \E a \in Actors : WriteTurn(a) /\ op[a].turn = u
<1> DEFINE Old == InProgress(u) /\ turn'[u].failure = turn[u].failure
<1>1. CASE UNCHANGED <<turn, outcome, answered>>
  BY <1>1 DEF InProgress, Admitted
<1>2. ASSUME NEW a \in Actors, TurnWrite(a), ~WriteTurn(a) \/ op[a].turn # u PROVE Old
  <2>1. ASSUME NEW t \in Turns, OnlyTurn(t),
               t = u => SameTurn(t) /\ turn'[t].status = turn[t].status
                        /\ turn'[t].failure = turn[t].failure
        PROVE  Old
    BY <2>1 DEF OnlyTurn, SameTurn, InProgress, Admitted
  <2>2. ASSUME NEW t \in Turns, NEW s, NEW f, NEW ret, Publishes(a, t, s, f, ret) PROVE Old
    <3>1. t # u
      BY <2>2, PublishEffect DEF Publishes, InProgress
    <3> QED BY <2>1, <2>2, <3>1, PublishEffect
  <2>3. CASE WriteTurn(a)
    BY <1>2, <2>1, <2>3, WriteTurnEffect DEF TurnWritten
  <2>4. CASE ClearPending(a)
    <3>1. CASE UNCHANGED turn
      BY <3>1 DEF InProgress, Admitted
    <3> QED BY <2>1, <2>4, <3>1, ClearEffect DEF GateWritten
  <2>5. CASE Respond(a)
    <3>1. CASE UNCHANGED turn
      BY <3>1 DEF InProgress, Admitted
    <3> QED BY <2>1, <2>5, <3>1, RespondEffect DEF GateWritten
  <2>6. ASSUME NEW t \in Turns, NEW i \in Items, UpsertItem(a, t, i) PROVE Old
    BY <2>1, <2>6, UpsertEffect
  <2>7. ASSUME NEW t \in Turns, NEW r \in Requests, ParkApproval(a, t, r) PROVE Old
    BY <2>1, <2>7, ParkEffect DEF GateWritten
  <2> HIDE DEF Old
  <2> QED BY <1>2, <2>2, <2>3, <2>4, <2>5, <2>6, <2>7 DEF TurnWrite
<1> QED BY <1>1, <1>2, StepKinds

\* The steps that change who holds a turn, its generation or the children.
HoldWrite(a) ==
  \/ ClearPointer(a) \/ HoldLive(a) \/ Exit(a)
  \/ \E t \in Turns :
       \/ WriteGeneration(a, t) \/ MarkChildEof(a, t)
       \/ \E c \in Children : SetChildPid(a, t, c)

\* The rest leaves them alone.
LEMMA HoldKinds ==
  ASSUME [Next]_vars
  PROVE  \/ UNCHANGED <<gen, hold, running, gone, bare>>
         \/ \E a \in Actors : HoldWrite(a)
         \/ \E c \in Children : ChildExit(c)
<1> DEFINE quiet == UNCHANGED <<gen, hold, running, gone, bare>>
<1>1. ASSUME NEW a \in Actors, Leave(a) PROVE quiet
  BY <1>1 DEF Leave, files, extras
<1>2. ASSUME NEW a \in Actors, NEW t, NEW s, NEW f, NEW ret,
             PublishTerminalLocked(a, t, s, f, ret)
      PROVE  quiet
  BY <1>2 DEF PublishTerminalLocked, extras
<1>3. ASSUME NEW a \in Actors, Step(a) PROVE quiet \/ HoldWrite(a)
  <2>1. CASE LookupClient(a)
    BY <2>1, <1>1, <1>2 DEF LookupClient, ObserveDead, files, extras
  <2>2. CASE ScanClient(a)
    BY <2>2, <1>1, <1>2 DEF ScanClient, ObserveDead, Skip, files, extras
  <2>3. CASE LockThread(a) \/ WriteTurn(a) \/ WritePointer(a) \/ StoreClient(a)
    BY <2>3 DEF LockThread, WriteTurn, WritePointer, StoreClient, files, extras
  <2>4. CASE CheckPointer(a)
    BY <2>4, <1>1, <1>2 DEF CheckPointer, ObserveDead, files, extras
  <2>5. CASE ScanThread(a)
    BY <2>5, <1>1, <1>2 DEF ScanThread, ObserveDead, Skip, files, extras
  <2>6. CASE WriteFails(a)
    BY <2>6, <1>1 DEF WriteFails
  <2>7. CASE WaitPendingDecision(a)
    BY <2>7, <1>2 DEF WaitPendingDecision, ObserveDead, files, extras
  <2>8. CASE ListTurnsStep(a)
    BY <2>8, <1>1, <1>2 DEF ListTurnsStep, ListTurn, ObserveDead, files, extras
  <2>9. CASE WaitStep(a)
    BY <2>9, <1>1, <1>2 DEF WaitStep, ObserveDead
  <2>10. CASE ClearPending(a) \/ Respond(a)
    BY <2>10 DEF ClearPending, Respond
  <2> HIDE DEF quiet
  <2> QED BY <1>3, <2>1, <2>2, <2>3, <2>4, <2>5, <2>6, <2>7, <2>8, <2>9, <2>10
      DEF Step, HoldWrite
<1>4. ASSUME NEW a \in Actors, Call(a) PROVE quiet \/ HoldWrite(a)
  <2>1. ASSUME NEW x, NEW y, \/ AdmitTurn(a, x, y) \/ SetAcpSessionId(a, x, y)
                             \/ ListTurns(a, x, y) \/ UpsertItem(a, x, y)
                             \/ ParkApproval(a, x, y)
        PROVE  quiet
    BY <2>1 DEF AdmitTurn, SetAcpSessionId, ListTurns, UpsertItem, ParkApproval,
                files, extras
  <2>2. ASSUME NEW t, Observe(a, t) \/ Cancel(a, t) PROVE quiet
    BY <2>2, <1>2 DEF Observe, Cancel, ObserveDead
  <2>3. ASSUME NEW t, NEW s, PublishTerminal(a, t, s) PROVE quiet
    BY <2>3, <1>2 DEF PublishTerminal
  <2>4. ASSUME NEW t, Wait(a, t) PROVE quiet
    BY <2>4 DEF Wait, files, extras
  <2> HIDE DEF quiet
  <2> QED BY <1>4, <2>1, <2>2, <2>3, <2>4 DEF Call, HoldWrite
<1>5. ASSUME NEW a \in Actors, WaitTimeout(a) PROVE quiet
  BY <1>1, <1>5 DEF WaitTimeout
<1>6. ASSUME NEW th \in Threads, CreateThread(th) PROVE quiet
  BY <1>6 DEF CreateThread, extras
<1>7. CASE UNCHANGED vars
  BY <1>7 DEF vars
<1>8. CASE Next
  <2> HIDE DEF quiet
  <2>1. \/ quiet
        \/ \E a \in Actors : HoldWrite(a)
        \/ \E c \in Children : ChildExit(c)
    BY <1>3, <1>4, <1>5, <1>6, <1>8 DEF Next, HoldWrite
  <2> QED BY <2>1 DEF quiet
<1> QED BY <1>7, <1>8

\* An admission that has written its turn goes on, takes the live hold or dies.
LEMMA NewSteps ==
  ASSUME AdmissionInv, [Next]_vars, NEW b \in Actors, pc[b] \in NewLabels
  PROVE  \/ pc'[b] \in NewLabels /\ op'[b].turn = op[b].turn
         \/ HoldLive(b) \/ Exit(b)
<1> DEFINE on == pc'[b] \in NewLabels /\ op'[b].turn = op[b].turn
<1>0. TypeOK
  BY DEF AdmissionInv
<1>1. CASE pc'[b] = pc[b] /\ op'[b] = op[b]
  BY <1>1
<1>2. ASSUME Step(b) PROVE on \/ HoldLive(b)
  <2>1. CASE WritePointer(b) \/ StoreClient(b)
    BY <1>0, <2>1 DEF WritePointer, StoreClient, Goto, TypeOK, NewLabels
  <2>2. ~(\/ ClearPointer(b) \/ LookupClient(b) \/ ScanClient(b) \/ LockThread(b)
          \/ CheckPointer(b) \/ ScanThread(b) \/ WriteTurn(b) \/ WriteFails(b))
    BY DEF NewLabels, ClearPointer, LookupClient, ScanClient, LockThread, CheckPointer,
           ScanThread, WriteTurn, WriteFails
  <2>3. ~(\/ WaitPendingDecision(b) \/ ClearPending(b) \/ ListTurnsStep(b)
          \/ Respond(b) \/ WaitStep(b) \/ \E t \in Turns : WriteGeneration(b, t))
    BY DEF NewLabels, WaitPendingDecision, ClearPending, ListTurnsStep, Respond,
           WaitStep, WriteGeneration
  <2> QED BY <1>2, <2>1, <2>2, <2>3 DEF Step
<1>3. ~Call(b) /\ ~WaitTimeout(b)
  BY DEF NewLabels, Call, WaitTimeout, AdmitTurn, SetAcpSessionId, ListTurns, Observe,
         Cancel, Wait, MarkChildEof, PublishTerminal, UpsertItem, SetChildPid, ParkApproval
<1>4. ASSUME NEW a \in Actors, a # b, Step(a) \/ Call(a) \/ WaitTimeout(a) \/ Exit(a)
      PROVE  on
  BY <1>0, <1>1, <1>4, OthersStay
<1>5. CASE UNCHANGED vars
  BY <1>1, <1>5, WorldStays
<1>6. CASE Next
  BY <1>1, <1>2, <1>3, <1>4, <1>6, WorldStays DEF Next
<1> QED BY <1>5, <1>6

\* The live hold is only dropped by the instance that has it, when the turn is
\* over or when the instance goes, and what has gone stays gone.
LEMMA HoldSteps ==
  ASSUME AdmissionInv, LiveInv, [Next]_vars
  PROVE  /\ gone \subseteq gone'
         /\ \A t \in Turns : InProgress(t) /\ hold[t] # None =>
              hold'[t] # None \/ t \in gone'
         /\ \A t \in Turns : hold'[t] # None =>
              gen'[t] # None /\ gen'[t].owner = hold'[t]
         /\ \A t \in Turns : gen[t] # None =>
              /\ gen'[t] # None /\ gen'[t].owner = gen[t].owner
              /\ t \in bare => t \in bare' \cup gone'
<1> DEFINE Fine == /\ gone \subseteq gone'
                   /\ \A t \in Turns : InProgress(t) /\ hold[t] # None =>
                        hold'[t] # None \/ t \in gone'
                   /\ \A t \in Turns : hold'[t] # None =>
                        gen'[t] # None /\ gen'[t].owner = hold'[t]
                   /\ \A t \in Turns : gen[t] # None =>
                        /\ gen'[t] # None /\ gen'[t].owner = gen[t].owner
                        /\ t \in bare => t \in bare' \cup gone'
<1>0. /\ TypeOK /\ None \notin Actors
      /\ \A t \in Turns : hold[t] # None => gen[t] # None /\ gen[t].owner = hold[t]
  BY NoneAssumption DEF AdmissionInv, LiveInv
<1>1. CASE UNCHANGED <<gen, hold, running, gone, bare>>
  BY <1>0, <1>1
<1>2. ASSUME NEW c \in Children, ChildExit(c) PROVE Fine
  BY <1>0, <1>2 DEF ChildExit, files
<1>3. ASSUME NEW a \in Actors, HoldWrite(a) PROVE Fine
  <2>0. ActorInv(a)
    BY DEF AdmissionInv
  <2>1. CASE ClearPointer(a)
    <3>1. /\ Terminal(op[a].pub) /\ UNCHANGED gen
          /\ gone \subseteq gone' /\ bare \subseteq bare' \cup gone'
      BY <2>0, <2>1 DEF ClearPointer, ActorInv, LockInv
    <3>2. ASSUME NEW t \in Turns PROVE hold'[t] = hold[t] \/ (t = op[a].pub /\ hold'[t] = None)
      BY <1>0, <2>1 DEF ClearPointer, TypeOK
    <3> QED BY <1>0, <3>1, <3>2 DEF Terminal, InProgress
  <2>2. CASE HoldLive(a)
    <3>1. /\ op[a].turn \in Turns /\ gen[op[a].turn] # None
          /\ gen[op[a].turn].owner = a /\ UNCHANGED <<gen, gone>>
          /\ hold' = [hold EXCEPT ![op[a].turn] = a] /\ bare \subseteq bare'
      BY <2>0, <2>2 DEF HoldLive, ActorInv, CallInv, NewLabels, Admitted, files
    <3> QED BY <1>0, <3>1, NoneAssumption DEF TypeOK
  <2>3. CASE Exit(a)
    BY <1>0, <2>3 DEF Exit, files
  <2>4. ASSUME NEW t \in Turns, WriteGeneration(a, t) PROVE Fine
    <3>1. /\ gen[t] = None /\ UNCHANGED <<hold, gone, bare>>
          /\ \A u \in Turns \ {t} : gen'[u] = gen[u]
      BY <1>0, <2>4 DEF WriteGeneration, TypeOK, extras
    <3> QED BY <1>0, <3>1
  <2>5. ASSUME NEW t \in Turns, NEW c \in Children, SetChildPid(a, t, c) PROVE Fine
    <3>1. gen[t] \in Generation /\ gen[t] # None
      BY <2>5 DEF SetChildPid, AdmissionInv, FileInv, TypeOK
    <3> DEFINE new == [gen[t] EXCEPT !.child = c, !.eof = FALSE]
    <3>2. new \in Generation /\ new.owner = gen[t].owner
      BY <3>1 DEF Generation
    <3>3. gen' = [gen EXCEPT ![t] = new] /\ UNCHANGED <<hold, bare>> /\ gone \subseteq gone'
      BY <1>0, <2>5 DEF SetChildPid, TypeOK
    <3> HIDE DEF new
    <3>4. /\ \A u \in Turns \ {t} : gen'[u] = gen[u]
          /\ gen'[t] # None /\ gen'[t].owner = gen[t].owner
      BY <1>0, <3>2, <3>3, NoneAssumption DEF TypeOK
    <3> QED BY <1>0, <3>3, <3>4
  <2>6. ASSUME NEW t \in Turns, MarkChildEof(a, t) PROVE Fine
    <3>1. gen[t] \in Generation /\ gen[t] # None
      BY <2>6 DEF MarkChildEof, AdmissionInv, FileInv, TypeOK
    <3>2. /\ UNCHANGED <<hold, bare>> /\ gone \subseteq gone'
          /\ \A u \in Turns \ {t} : gen'[u] = gen[u]
          /\ gen'[t] # None /\ gen'[t].owner = gen[t].owner
      BY <1>0, <2>6, <3>1, NoneAssumption DEF MarkChildEof, TypeOK, Generation
    <3> QED BY <1>0, <3>2
  <2> HIDE DEF Fine
  <2> QED BY <1>3, <2>1, <2>2, <2>3, <2>4, <2>5, <2>6 DEF HoldWrite
<1> QED BY <1>1, <1>2, <1>3, HoldKinds

\* A child that is marked or has ended is gone in the history too.
LEMMA ChildSteps ==
  ASSUME AdmissionInv, LiveInv, [Next]_vars, NEW u \in Turns, gen'[u] # None,
         gen'[u].eof \/ (gen'[u].child # None /\ gen'[u].child \notin running')
  PROVE  u \in gone'
<1>0. /\ TypeOK
      /\ gen[u] # None /\ (gen[u].eof \/ (gen[u].child # None /\ gen[u].child \notin running))
           => u \in gone
      /\ gone \subseteq gone'
  BY HoldSteps DEF AdmissionInv, LiveInv
<1>1. CASE UNCHANGED <<gen, hold, running, gone, bare>>
  BY <1>0, <1>1
<1>2. ASSUME NEW c \in Children, ChildExit(c) PROVE u \in gone'
  BY <1>0, <1>2 DEF ChildExit, files
<1>3. ASSUME NEW a \in Actors, HoldWrite(a) PROVE u \in gone'
  <2>1. CASE ClearPointer(a) \/ HoldLive(a) \/ Exit(a)
    BY <1>0, <2>1 DEF ClearPointer, HoldLive, Exit, files
  <2>2. ASSUME NEW t \in Turns, WriteGeneration(a, t) PROVE u \in gone'
    <3>1. CASE u = t
      <4>1. ~gen'[u].eof /\ gen'[u].child = None
        BY <1>0, <2>2, <3>1 DEF WriteGeneration, TypeOK
      <4> QED BY <4>1
    <3>2. CASE u # t
      BY <1>0, <2>2, <3>2 DEF WriteGeneration, TypeOK
    <3> QED BY <3>1, <3>2
  <2>3. ASSUME NEW t \in Turns, NEW c \in Children, SetChildPid(a, t, c) PROVE u \in gone'
    <3>1. gen[t] \in Generation /\ gen[t] # None
      BY <2>3 DEF SetChildPid, AdmissionInv, FileInv, TypeOK
    <3>2. CASE u = t
      <4>1. ~gen'[u].eof /\ gen'[u].child = c /\ UNCHANGED running
        BY <1>0, <2>3, <3>1, <3>2 DEF SetChildPid, TypeOK, Generation
      <4> QED BY <2>3, <3>2, <4>1 DEF SetChildPid
    <3>3. CASE u # t
      BY <1>0, <2>3, <3>3 DEF SetChildPid, TypeOK
    <3> QED BY <3>2, <3>3
  <2>4. ASSUME NEW t \in Turns, MarkChildEof(a, t) PROVE u \in gone'
    <3>1. CASE u = t
      BY <2>4, <3>1 DEF MarkChildEof
    <3>2. CASE u # t
      BY <1>0, <2>4, <3>2 DEF MarkChildEof, TypeOK
    <3> QED BY <3>1, <3>2
  <2> QED BY <1>3, <2>1, <2>2, <2>3, <2>4 DEF HoldWrite
<1> QED BY <1>1, <1>2, <1>3, HoldKinds

\* The invariant about live holds is inductive.
LEMMA LiveKeeps ==
  ASSUME AdmissionInv, LiveInv, [Next]_vars
  PROVE  LiveInv'
<1>1. ASSUME NEW t \in Turns, InProgress(t)', hold'[t] = None, t \notin gone'
      PROVE  \E a \in Actors : pc'[a] \in NewLabels /\ op'[a].turn = t
  <2>1. ASSUME NEW a \in Actors, WriteTurn(a), op[a].turn = t
        PROVE  pc'[a] \in NewLabels /\ op'[a].turn = t
    BY <2>1 DEF WriteTurn, Goto, AdmissionInv, TypeOK, NewLabels
  <2>2. CASE InProgress(t)
    <3>1. hold[t] = None /\ t \notin gone
      BY <1>1, <2>2, HoldSteps
    <3>2. PICK a \in Actors : pc[a] \in NewLabels /\ op[a].turn = t
      BY <2>2, <3>1 DEF LiveInv
    <3>3. ~HoldLive(a)
      BY <1>1, <3>2, NoneAssumption DEF HoldLive, AdmissionInv, TypeOK
    <3>4. ~Exit(a)
      BY <1>1, <3>2 DEF Exit, AdmissionInv, ActorInv, CallInv
    <3> QED BY <3>2, <3>3, <3>4, NewSteps
  <2> QED BY <1>1, <2>1, <2>2, NothingReopens
<1>2. /\ \A t \in Turns : hold'[t] # None =>
           gen'[t] # None /\ gen'[t].owner = hold'[t]
      /\ \A t \in Turns : gen'[t] # None /\ gen'[t].eof => t \in gone'
      /\ \A t \in Turns : gen'[t] # None /\ gen'[t].child # None
                              /\ gen'[t].child \notin running' => t \in gone'
  BY HoldSteps, ChildSteps
<1> QED BY <1>1, <1>2 DEF LiveInv

\* The worker of a turn has gone, or some other process cannot see its hold.
Excused(t) ==
  \/ t \in gone
  \/ t \in bare /\ \E a \in Actors : ProcessOf[a] # ProcessOf[gen[t].owner]

\* A generation that looks dead to somebody who has the thread lock is dead, or
\* its hold has no lock and the observer is of another process.
LEMMA DeadIsGone ==
  ASSUME AdmissionInv, LiveInv, NEW a \in Actors, NEW t \in Turns, InProgress(t),
         GenerationIsDead(a, t),
         \/ ThreadLockFree(t)
         \/ pc[a] \in {"pointer", "live"} /\ turn[t].thread = op[a].thread
  PROVE  Excused(t)
<1>1. gen[t] # None
  BY DEF AdmissionInv, FileInv, InProgress
<1>2. CASE hold[t] = None /\ t \notin gone
  <2>1. PICK b \in Actors : pc[b] \in NewLabels /\ op[b].turn = t
    BY <1>2 DEF LiveInv
  <2>2. turn[t].thread = op[b].thread /\ threadLock[op[b].thread] = b
    BY <2>1 DEF AdmissionInv, ActorInv, CallInv, LockInv, OnThread, NewLabels,
       ThreadLabels, AdmitLabels
  <2>3. ~ThreadLockFree(t)
    BY <2>2, NoneAssumption DEF ThreadLockFree
  <2>4. pc[a] \in {"pointer", "live"} => threadLock[op[a].thread] = a
    BY DEF AdmissionInv, ActorInv, LockInv, OnThread, ThreadLabels, AdmitLabels
  <2> QED BY <2>1, <2>2, <2>3, <2>4 DEF NewLabels
<1>3. CASE hold[t] # None /\ ~OwnerInstanceAlive(a, t)
  BY <1>3 DEF LiveInv, OwnerInstanceAlive, Excused
<1> QED BY <1>1, <1>2, <1>3 DEF LiveInv, GenerationIsDead, ChildIsDead, OwnerInstanceAlive,
       ProcessAlive, Excused

\* worker_gone is only said of turns whose worker has gone or cannot be seen.
LEMMA HonestKeeps ==
  ASSUME AdmissionInv, LiveInv, WorkerGoneIsHonest, [Next]_vars
  PROVE  WorkerGoneIsHonest'
<1> SUFFICES ASSUME NEW u \in Turns, u \in Admitted', turn'[u].failure = "worker_gone"
             PROVE  Excused(u)'
  BY DEF WorkerGoneIsHonest, Excused
<1>0. ASSUME u \in Admitted, Excused(u) PROVE Excused(u)'
  <2>1. gen[u] # None
    BY <1>0 DEF AdmissionInv, FileInv
  <2> QED BY <1>0, <2>1, HoldSteps DEF Excused
<1>1. ASSUME u \in Admitted, turn[u].failure = "worker_gone" PROVE Excused(u)'
  BY <1>0, <1>1 DEF WorkerGoneIsHonest, Excused
<1>2. CASE UNCHANGED <<turn, outcome, answered>>
  BY <1>1, <1>2 DEF Admitted
<1>3. ASSUME NEW a \in Actors, TurnWrite(a) PROVE Excused(u)'
  <2>1. ASSUME NEW t \in Turns, OnlyTurn(t),
               t = u => SameTurn(t) /\ turn'[t].failure = turn[t].failure
        PROVE  Excused(u)'
    BY <1>1, <2>1 DEF OnlyTurn, SameTurn, Admitted
  <2>2. ASSUME NEW t \in Turns, NEW s, NEW f, NEW ret, Publishes(a, t, s, f, ret)
        PROVE  Excused(u)'
    <3>1. OnlyTurn(t) /\ turn'[t].failure = f
      BY <2>2, PublishEffect
    <3>2. CASE t # u
      BY <2>1, <3>1, <3>2
    <3>3. CASE t = u
      <4>1. f = "worker_gone" /\ GenerationIsDead(a, t) /\ InProgress(t)
        BY <2>2, <3>1, <3>3 DEF Publishes
      <4>2. Excused(t) /\ t \in Admitted
        BY <2>2, <4>1, DeadIsGone DEF Publishes, InProgress
      <4> QED BY <1>0, <3>3, <4>2
    <3> QED BY <3>2, <3>3
  <2>3. CASE WriteTurn(a)
    <3>1. u # op[a].turn
      BY <2>3, WriteTurnEffect DEF TurnWritten
    <3> QED BY <2>1, <2>3, <3>1, WriteTurnEffect DEF TurnWritten
  <2>4. CASE ClearPending(a)
    <3>1. CASE UNCHANGED turn
      BY <1>1, <3>1 DEF Admitted
    <3> QED BY <2>1, <2>4, <3>1, ClearEffect DEF GateWritten
  <2>5. CASE Respond(a)
    <3>1. CASE UNCHANGED turn
      BY <1>1, <3>1 DEF Admitted
    <3> QED BY <2>1, <2>5, <3>1, RespondEffect DEF GateWritten
  <2>6. ASSUME NEW t \in Turns, NEW i \in Items, UpsertItem(a, t, i) PROVE Excused(u)'
    BY <2>1, <2>6, UpsertEffect
  <2>7. ASSUME NEW t \in Turns, NEW r \in Requests, ParkApproval(a, t, r) PROVE Excused(u)'
    BY <2>1, <2>7, ParkEffect DEF GateWritten
  <2> QED BY <1>3, <2>2, <2>3, <2>4, <2>5, <2>6, <2>7 DEF TurnWrite
<1> QED BY <1>2, <1>3, StepKinds

\* observe never gives up on a worker that is still there: whoever publishes
\* worker_gone does so for a turn whose owner instance has gone or whose child
\* has ended, also when the turn was admitted a moment ago.  The exception is a
\* live hold that hold_live could not lock, which no other process can see.
THEOREM WorkerGoneIsTrue == Spec => []WorkerGoneIsHonest
<1>1. Init => LiveInv /\ WorkerGoneIsHonest
  BY DEF Init, LiveInv, WorkerGoneIsHonest, InProgress, Admitted
<1>2. AdmissionInv /\ LiveInv /\ WorkerGoneIsHonest /\ [Next]_vars
        => LiveInv' /\ WorkerGoneIsHonest'
  BY LiveKeeps, HonestKeeps
<1> QED BY <1>1, <1>2, AdmissionInvariant, PTL DEF Spec

-----------------------------------------------------------------------------
(***************************************************************************)
(* The session id of a thread                                              *)
(***************************************************************************)
\* How a thread record changes: nothing but the pointer, a session id set
\* under the thread lock, or a new thread.
ThreadMoves(th) ==
  \/ thread'[th] = thread[th]
  \/ thread[th] = None
  \/ thread'[th].sid = thread[th].sid
  \/ /\ threadLock[th] = None /\ thread'[th].sid \in Sessions
     /\ thread'[th].ptr = thread[th].ptr

\* Every write of a thread record is one of those; admit_turn's copy has the
\* session id of the file.
LEMMA ThreadSteps ==
  ASSUME AdmissionInv, CopyInv, [Next]_vars, NEW x \in Threads
  PROVE  ThreadMoves(x)
<1>0. TypeOK
  BY DEF AdmissionInv
<1>1. CASE UNCHANGED thread
  BY <1>1 DEF ThreadMoves
<1>2. ASSUME NEW a \in Actors, Leave(a) PROVE UNCHANGED thread
  BY <1>2 DEF Leave, files
<1>3. ASSUME NEW a \in Actors, NEW t, NEW s, NEW f, NEW ret,
             PublishTerminalLocked(a, t, s, f, ret)
      PROVE  UNCHANGED thread
  BY <1>3 DEF PublishTerminalLocked
<1>4. ASSUME NEW a \in Actors, Step(a) PROVE ThreadMoves(x)
  <2>0. ActorInv(a)
    BY DEF AdmissionInv
  <2>1. CASE ClearPointer(a)
    <3> DEFINE th == turn[op[a].pub].thread
    <3>1. CASE thread[th] # None /\ thread' = [thread EXCEPT ![th].ptr = None]
      <4>1. th \in Threads /\ thread[th] \in Thread
        <5>1. turn[op[a].pub] \in Turn
          BY <1>0, <2>0, <2>1 DEF ClearPointer, ActorInv, LockInv, Terminal, Admitted, TypeOK
        <5>2. th \in Threads
          BY <5>1 DEF Turn
        <5> QED BY <1>0, <3>1, <5>2 DEF TypeOK
      <4>2. [thread[th] EXCEPT !.ptr = None].sid = thread[th].sid
        BY <4>1 DEF Thread
      <4>3. thread' = [thread EXCEPT ![th] = [thread[th] EXCEPT !.ptr = None]]
        BY <3>1
      <4>4. CASE x = th
        BY <1>0, <4>1, <4>2, <4>3, <4>4 DEF ThreadMoves, TypeOK
      <4>5. CASE x # th
        BY <1>0, <4>3, <4>5 DEF ThreadMoves, TypeOK
      <4> QED BY <4>4, <4>5
    <3> QED BY <1>1, <2>1, <3>1 DEF ClearPointer
  <2>2. CASE WritePointer(a)
    <3> DEFINE th == op[a].thread
               new == [op[a].copy EXCEPT !.ptr = op[a].turn]
    <3>1. th \in Threads /\ op[a].copy \in Thread /\ op[a].copy.sid = thread[th].sid
      BY <2>0, <2>2 DEF WritePointer, ActorInv, LockInv, Admitting, OnThread, AdmitLabels,
         ThreadLabels, CopyInv
    <3>2. new.sid = thread[th].sid
      BY <3>1 DEF Thread
    <3>3. CASE thread' = [thread EXCEPT ![th] = new]
      <4> HIDE DEF new
      <4>1. CASE x = th
        BY <1>0, <3>1, <3>2, <3>3, <4>1 DEF ThreadMoves, TypeOK
      <4>2. CASE x # th
        BY <1>0, <3>3, <4>2 DEF ThreadMoves, TypeOK
      <4> QED BY <4>1, <4>2
    <3> QED BY <1>1, <2>2, <3>3 DEF WritePointer
  <2>3. CASE LookupClient(a) \/ CheckPointer(a)
    BY <2>3, <1>1, <1>2, <1>3 DEF LookupClient, CheckPointer, ObserveDead, files
  <2>4. CASE ScanClient(a)
    BY <2>4, <1>1, <1>2, <1>3 DEF ScanClient, ObserveDead, Skip, files
  <2>5. CASE ScanThread(a)
    BY <2>5, <1>1, <1>2, <1>3 DEF ScanThread, ObserveDead, Skip, files
  <2>6. CASE LockThread(a) \/ WriteTurn(a) \/ StoreClient(a) \/ HoldLive(a)
    BY <2>6, <1>1 DEF LockThread, WriteTurn, StoreClient, HoldLive, files
  <2>7. ASSUME NEW t \in Turns, WriteGeneration(a, t) PROVE ThreadMoves(x)
    BY <2>7, <1>1 DEF WriteGeneration
  <2>8. CASE WriteFails(a)
    BY <2>8, <1>1, <1>2 DEF WriteFails
  <2>9. CASE WaitPendingDecision(a) \/ WaitStep(a)
    BY <2>9, <1>1, <1>2, <1>3 DEF WaitPendingDecision, WaitStep, ObserveDead, files
  <2>10. CASE ListTurnsStep(a)
    BY <2>10, <1>1, <1>2, <1>3 DEF ListTurnsStep, ListTurn, ObserveDead, files
  <2>11. CASE ClearPending(a) \/ Respond(a)
    BY <2>11, <1>1 DEF ClearPending, Respond
  <2> QED BY <1>4, <2>1, <2>2, <2>3, <2>4, <2>5, <2>6, <2>7, <2>8, <2>9, <2>10, <2>11
      DEF Step
<1>5. ASSUME NEW a \in Actors, Call(a) PROVE ThreadMoves(x)
  <2>1. ASSUME NEW th \in Threads, NEW s \in Sessions, SetAcpSessionId(a, th, s)
        PROVE  ThreadMoves(x)
    <3> DEFINE new == [thread[th] EXCEPT !.sid = s]
    <3>1. threadLock[th] = None /\ thread[th] \in Thread /\ thread' = [thread EXCEPT ![th] = new]
      BY <1>0, <2>1 DEF SetAcpSessionId, TypeOK
    <3>2. new.sid = s /\ new.ptr = thread[th].ptr
      BY <3>1 DEF Thread
    <3> HIDE DEF new
    <3>3. CASE x = th
      BY <1>0, <3>1, <3>2, <3>3 DEF ThreadMoves, TypeOK
    <3>4. CASE x # th
      BY <1>0, <3>1, <3>4 DEF ThreadMoves, TypeOK
    <3> QED BY <3>3, <3>4
  <2>2. ASSUME NEW y, NEW z, \/ AdmitTurn(a, y, z) \/ ListTurns(a, y, z)
                             \/ UpsertItem(a, y, z) \/ ParkApproval(a, y, z)
                             \/ SetChildPid(a, y, z)
        PROVE  ThreadMoves(x)
    BY <1>1, <2>2 DEF AdmitTurn, ListTurns, UpsertItem, ParkApproval, SetChildPid, files
  <2>3. ASSUME NEW t, Observe(a, t) \/ Cancel(a, t) PROVE ThreadMoves(x)
    BY <1>1, <2>3, <1>3 DEF Observe, Cancel, ObserveDead
  <2>4. ASSUME NEW t, NEW s, PublishTerminal(a, t, s) PROVE ThreadMoves(x)
    BY <1>1, <2>4, <1>3 DEF PublishTerminal
  <2>5. ASSUME NEW t, Wait(a, t) \/ MarkChildEof(a, t) PROVE ThreadMoves(x)
    BY <1>1, <2>5 DEF Wait, MarkChildEof, files
  <2> QED BY <1>5, <2>1, <2>2, <2>3, <2>4, <2>5 DEF Call
<1>6. ASSUME NEW a \in Actors, WaitTimeout(a) PROVE ThreadMoves(x)
  BY <1>1, <1>2, <1>6 DEF WaitTimeout
<1>7. ASSUME NEW a \in Actors, Exit(a) PROVE ThreadMoves(x)
  BY <1>1, <1>7 DEF Exit, files
<1>8. ASSUME NEW th \in Threads, CreateThread(th) PROVE ThreadMoves(x)
  BY <1>0, <1>8 DEF CreateThread, ThreadMoves, TypeOK
<1>9. ASSUME NEW c \in Children, ChildExit(c) PROVE ThreadMoves(x)
  BY <1>1, <1>9 DEF ChildExit, files
<1>10. CASE UNCHANGED vars
  BY <1>1, <1>10 DEF vars
<1>11. CASE Next
  BY <1>4, <1>5, <1>6, <1>7, <1>8, <1>9, <1>11 DEF Next
<1> QED BY <1>10, <1>11

\* An actor comes to work on a thread only by taking its lock, with a copy of
\* the record it finds then.
LEMMA CopySteps ==
  ASSUME AdmissionInv, [Next]_vars, NEW b \in Actors, OnThread(b)'
  PROVE  \/ /\ OnThread(b)
            /\ op'[b].thread = op[b].thread /\ op'[b].copy = op[b].copy
         \/ /\ UNCHANGED thread
            /\ op'[b].copy = thread[op[b].thread] /\ op'[b].thread = op[b].thread
<1> DEFINE on == /\ OnThread(b)
                 /\ op'[b].thread = op[b].thread /\ op'[b].copy = op[b].copy
<1>0. TypeOK /\ ActorInv(b) /\ op[b] \in Op
  BY DEF AdmissionInv, TypeOK
<1>1. ASSUME pc'[b] = pc[b], op'[b] = op[b] PROVE on
  BY <1>1 DEF OnThread
<1>2. pc'[b] \in ThreadLabels \cup {"clear"}
  BY DEF OnThread
<1>3. ~Leave(b) /\ ~Return(b)
  BY <1>0, <1>2, ReturnType DEF Leave, ThreadLabels, AdmitLabels
<1>4. ASSUME NEW t, NEW s, NEW f, NEW ret, PublishTerminalLocked(b, t, s, f, ret),
             ret = "live" => pc[b] \in {"pointer", "live"}
      PROVE  on
  <2>1. /\ pc'[b] = "clear" /\ op'[b].ret = ret /\ op'[b].thread = op[b].thread
        /\ op'[b].copy = op[b].copy
    BY <1>0, <1>4 DEF PublishTerminalLocked, Goto, TypeOK, Op
  <2> QED BY <1>4, <2>1 DEF OnThread, ThreadLabels, AdmitLabels
<1>5. ASSUME NEW l, Goto(b, l), UNCHANGED op, pc[b] \in ThreadLabels PROVE on
  BY <1>5 DEF OnThread
<1>6. ASSUME NEW l, Goto(b, l), l \notin ThreadLabels, l # "clear" PROVE FALSE
  BY <1>0, <1>2, <1>6 DEF Goto, TypeOK
<1>7. ASSUME Step(b), ~LockThread(b) PROVE on
  <2>1. CASE ClearPointer(b)
    <3>1. /\ pc[b] = "clear" /\ pc'[b] = op[b].ret /\ op'[b].ret = "idle"
          /\ op'[b].thread = op[b].thread /\ op'[b].copy = op[b].copy
          /\ op[b].ret \in Returns
      BY <1>0, <2>1 DEF ClearPointer, Goto, TypeOK, Op
    <3> QED BY <3>1 DEF OnThread, Returns, ThreadLabels, AdmitLabels
  <2>2. CASE LookupClient(b)
    BY <2>2, <1>3, <1>4, <1>6 DEF LookupClient, ObserveDead, ThreadLabels, AdmitLabels
  <2>3. CASE ScanClient(b)
    <3>1. ASSUME NEW t, Skip(b, t) PROVE FALSE
      BY <1>2, <2>3, <3>1 DEF Skip, ScanClient, ThreadLabels, AdmitLabels
    <3> QED BY <2>3, <3>1, <1>3, <1>4, <1>6
        DEF ScanClient, ObserveDead, ThreadLabels, AdmitLabels
  <2>4. CASE CheckPointer(b)
    BY <2>4, <1>3, <1>4, <1>5 DEF CheckPointer, ObserveDead, ThreadLabels, AdmitLabels
  <2>5. CASE ScanThread(b)
    <3>1. ASSUME NEW t, Skip(b, t) PROVE on
      <4>1. /\ UNCHANGED pc /\ op'[b].thread = op[b].thread /\ op'[b].copy = op[b].copy
        BY <1>0, <3>1 DEF Skip, TypeOK, Op
      <4> QED BY <2>5, <4>1 DEF ScanThread, OnThread, ThreadLabels, AdmitLabels
    <3> QED BY <2>5, <3>1, <1>3, <1>4, <1>5
        DEF ScanThread, ObserveDead, ThreadLabels, AdmitLabels
  <2>6. ASSUME NEW t \in Turns, WriteGeneration(b, t) PROVE on
    <3>1. op'[b].thread = op[b].thread /\ op'[b].copy = op[b].copy
      BY <1>0, <2>6 DEF WriteGeneration, TypeOK, Op
    <3> QED BY <2>6, <3>1 DEF WriteGeneration, OnThread, ThreadLabels, AdmitLabels
  <2>7. CASE WriteTurn(b) \/ WritePointer(b) \/ StoreClient(b)
    BY <2>7, <1>5 DEF WriteTurn, WritePointer, StoreClient, ThreadLabels, AdmitLabels
  <2>8. ~(WriteFails(b) \/ HoldLive(b) \/ ClearPending(b) \/ Respond(b))
    BY <1>3 DEF WriteFails, HoldLive, ClearPending, Respond
  <2>9. CASE WaitPendingDecision(b)
    BY <2>9, <1>4, <1>6 DEF WaitPendingDecision, ObserveDead, ThreadLabels, AdmitLabels
  <2>10. CASE ListTurnsStep(b)
    <3>1. ASSUME NEW t, ListTurn(b, t) PROVE FALSE
      BY <1>2, <2>10, <3>1 DEF ListTurn, ListTurnsStep, ThreadLabels, AdmitLabels
    <3> QED BY <2>10, <3>1, <1>3, <1>4, <1>6
        DEF ListTurnsStep, ObserveDead, ThreadLabels, AdmitLabels
  <2>11. CASE WaitStep(b)
    BY <2>11, <1>3, <1>4 DEF WaitStep, ObserveDead
  <2> QED BY <1>7, <2>1, <2>2, <2>3, <2>4, <2>5, <2>6, <2>7, <2>8, <2>9, <2>10, <2>11
      DEF Step
<1>8. CASE LockThread(b)
  BY <1>0, <1>8 DEF LockThread, TypeOK, Op, files
<1>9. ASSUME Call(b) PROVE on
  <2>1. ASSUME NEW y, NEW z, \/ AdmitTurn(b, y, z) \/ ListTurns(b, y, z)
                             \/ ParkApproval(b, y, z) \/ Wait(b, y)
        PROVE  FALSE
    BY <1>6, <2>1 DEF AdmitTurn, ListTurns, ParkApproval, Wait, ThreadLabels, AdmitLabels
  <2>2. ASSUME NEW y, NEW z, \/ SetAcpSessionId(b, y, z) \/ UpsertItem(b, y, z)
                             \/ SetChildPid(b, y, z) \/ MarkChildEof(b, y)
        PROVE  on
    BY <1>1, <2>2 DEF SetAcpSessionId, UpsertItem, SetChildPid, MarkChildEof
  <2>3. ASSUME NEW t, Observe(b, t) \/ Cancel(b, t) PROVE on
    BY <1>4, <2>3 DEF Observe, Cancel, ObserveDead
  <2>4. ASSUME NEW t, NEW s, PublishTerminal(b, t, s) PROVE on
    BY <1>4, <2>4 DEF PublishTerminal
  <2> QED BY <1>9, <2>1, <2>2, <2>3, <2>4 DEF Call
<1>10. ~WaitTimeout(b) /\ ~Exit(b)
  BY <1>3 DEF WaitTimeout, Exit
<1>11. ASSUME NEW a \in Actors, a # b, Step(a) \/ Call(a) \/ WaitTimeout(a) \/ Exit(a)
       PROVE  on
  BY <1>0, <1>1, <1>11, OthersStay
<1>12. CASE UNCHANGED vars
  BY <1>1, <1>12, WorldStays
<1>13. CASE Next
  BY <1>1, <1>7, <1>8, <1>9, <1>10, <1>11, <1>13, WorldStays DEF Next
<1> QED BY <1>12, <1>13

\* Nobody changes the session id of a thread while an admission has a copy.
LEMMA CopyKeeps ==
  ASSUME AdmissionInv, AdmissionInv', CopyInv, [Next]_vars
  PROVE  CopyInv'
<1> SUFFICES ASSUME NEW b \in Actors, OnThread(b)'
             PROVE  op'[b].copy.sid = thread'[op'[b].thread].sid
  BY DEF CopyInv
<1>1. CASE /\ OnThread(b)
           /\ op'[b].thread = op[b].thread /\ op'[b].copy = op[b].copy
  <2> DEFINE th == op[b].thread
  <2>1. /\ th \in Threads /\ thread[th] # None /\ threadLock[th] = b
        /\ op[b].copy.sid = thread[th].sid
    BY <1>1 DEF AdmissionInv, ActorInv, LockInv, CopyInv, OnThread, Admitting,
       ThreadLabels, AdmitLabels
  <2>2. thread'[th].sid = thread[th].sid
    BY <2>1, ThreadSteps, NoneAssumption DEF ThreadMoves
  <2> QED BY <1>1, <2>1, <2>2
<1>2. CASE /\ UNCHANGED thread
           /\ op'[b].copy = thread[op[b].thread] /\ op'[b].thread = op[b].thread
  BY <1>2
<1> QED BY <1>1, <1>2, CopySteps

\* A session id, once stored, is never lost to the thread record admit_turn
\* writes back, and storing one never takes the pointer away.
THEOREM SessionIsNeverLost == Spec => AcpSessionNeverLost
<1> DEFINE SidKept(th) ==
             thread[th] # None /\ thread[th].sid # None =>
               /\ thread'[th].sid # None
               /\ thread'[th].sid # thread[th].sid =>
                    thread'[th].ptr = thread[th].ptr
<1>1. Init => CopyInv
  BY DEF Init, CopyInv, OnThread, ThreadLabels, AdmitLabels
<1>2. AdmissionInv /\ AdmissionInv' /\ CopyInv /\ [Next]_vars => CopyInv'
  BY CopyKeeps
<1>3. AdmissionInv /\ CopyInv /\ [Next]_vars => [\A th \in Threads : SidKept(th)]_vars
  BY ThreadSteps, NoneAssumption DEF ThreadMoves
<1> QED BY <1>1, <1>2, <1>3, AdmissionInvariant, PTL DEF Spec, AcpSessionNeverLost, SidKept

\* The whole invariant of LedgerInv holds in every reachable state.
THEOREM LedgerInvariant == Spec => []IInv
<1>1. Init => LiveInv /\ WorkerGoneIsHonest /\ CopyInv
  BY DEF Init, LiveInv, WorkerGoneIsHonest, InProgress, Admitted, CopyInv, OnThread,
         ThreadLabels, AdmitLabels
<1>2. /\ AdmissionInv /\ AdmissionInv' /\ AnswerInv /\ LiveInv /\ WorkerGoneIsHonest
      /\ CopyInv /\ [Next]_vars
      => AnswerInv' /\ LiveInv' /\ WorkerGoneIsHonest' /\ CopyInv'
  BY AnswerKeeps, LiveKeeps, HonestKeeps, CopyKeeps
<1>3. AdmissionInv /\ AnswerInv /\ LiveInv /\ WorkerGoneIsHonest /\ CopyInv => IInv
  BY DEF IInv
<1> QED BY <1>1, <1>2, <1>3, InitAnswer, AdmissionInvariant, PTL DEF Spec
-----------------------------------------------------------------------------
(***************************************************************************)
(* Who waits for whom                                                      *)
(***************************************************************************)
\* A turn stays on the thread it was admitted to.
LEMMA ThreadOfTurn ==
  ASSUME AdmissionInv, [Next]_vars, NEW u \in Admitted
  PROVE  turn'[u].thread = turn[u].thread
<1> DEFINE same == turn'[u].thread = turn[u].thread
<1>1. u \in Turns /\ turn[u] # None
  BY DEF Admitted
<1>2. CASE UNCHANGED <<turn, outcome, answered>>
  BY <1>2
<1>3. ASSUME NEW t \in Turns, OnlyTurn(t), t = u => SameTurn(t) PROVE same
  BY <1>1, <1>3 DEF OnlyTurn, SameTurn
<1>4. ASSUME NEW a \in Actors, TurnWrite(a) PROVE same
  <2>1. ASSUME NEW t \in Turns, NEW s, NEW f, NEW ret, Publishes(a, t, s, f, ret) PROVE same
    BY <1>3, <2>1, PublishEffect
  <2>2. CASE WriteTurn(a)
    <3>1. op[a].turn \in Turns /\ OnlyTurn(op[a].turn) /\ turn[op[a].turn] = None
      BY <2>2, WriteTurnEffect DEF TurnWritten
    <3> QED BY <1>1, <1>3, <3>1
  <2>3. CASE ClearPending(a)
    BY <1>1, <1>3, <2>3, ClearEffect DEF GateWritten
  <2>4. CASE Respond(a)
    BY <1>1, <1>3, <2>4, RespondEffect DEF GateWritten
  <2>5. ASSUME NEW t \in Turns, NEW i \in Items, UpsertItem(a, t, i) PROVE same
    BY <1>3, <2>5, UpsertEffect
  <2>6. ASSUME NEW t \in Turns, NEW r \in Requests, ParkApproval(a, t, r) PROVE same
    BY <1>3, <2>6, ParkEffect DEF GateWritten
  <2> HIDE DEF same
  <2> QED BY <1>4, <2>1, <2>2, <2>3, <2>4, <2>5, <2>6 DEF TurnWrite
<1> QED BY <1>2, <1>4, StepKinds

\* A step of actor a gives locks to nobody else, and what a has after it is
\* what it works under.
HolderMoves(a) ==
  /\ \A b \in Actors \ {a} :
       /\ admitLock' = b => admitLock = b
       /\ \A th \in Threads : threadLock'[th] = b => threadLock[th] = b
  /\ \A th \in Threads : threadLock'[th] = a => WorksOn(a, th)'
  /\ admitLock' = a => Admitting(a)'

\* Each step of a call takes and drops locks as its place in the call says.
LEMMA HolderSteps ==
  ASSUME AdmissionInv, HolderInv, NEW a \in Actors,
         Step(a) \/ Call(a) \/ WaitTimeout(a) \/ Exit(a)
  PROVE  HolderMoves(a)
<1>0. /\ TypeOK /\ ActorInv(a) /\ op[a] \in Op /\ None \notin Actors
      /\ \A th \in Threads : threadLock[th] = a => WorksOn(a, th)
      /\ admitLock = a => Admitting(a)
  BY NoneAssumption DEF AdmissionInv, TypeOK, HolderInv
<1>1. ASSUME DropLocks(a) PROVE HolderMoves(a)
  <2>1. /\ admitLock' = IF admitLock = a THEN None ELSE admitLock
        /\ \A th \in Threads :
             threadLock'[th] = IF threadLock[th] = a THEN None ELSE threadLock[th]
    BY <1>1 DEF DropLocks
  <2> QED BY <1>0, <2>1 DEF HolderMoves
<1>2. ASSUME Leave(a) PROVE HolderMoves(a)
  BY <1>1, <1>2 DEF Leave
<1>3. ASSUME NEW t \in Admitted, NEW s, NEW f, NEW ret,
             PublishTerminalLocked(a, t, s, f, ret),
             \/ /\ pc[a] \in ThreadLabels /\ ret = "live"
                /\ turn[t].thread = op[a].thread
             \/ pc[a] \in {"index", "dedup"} /\ ret = "dedup"
             \/ pc[a] \in {"idle", "list", "await", "gate"}
      PROVE  HolderMoves(a)
  <2>1. /\ pc'[a] = "clear" /\ op'[a].pub = t /\ op'[a].ret = ret
        /\ op'[a].thread = op[a].thread
    BY <1>0, <1>3 DEF PublishTerminalLocked, Goto, TypeOK, Op
  <2>2. t \in Turns /\ turn[t] \in Turn /\ turn[t].thread \in Threads
    BY <1>0, <1>3 DEF Admitted, TypeOK, Turn
  <2>3. turn'[t].thread = turn[t].thread
    <3>1. turn' = [turn EXCEPT ![t] = [turn[t] EXCEPT !.status = s, !.failure = f]]
      BY <1>3 DEF PublishTerminalLocked
    <3> QED BY <1>0, <2>2, <3>1 DEF TypeOK, Turn
  <2>4. /\ admitLock' = admitLock
        /\ threadLock' = [threadLock EXCEPT ![turn[t].thread] = a]
    BY <1>3 DEF PublishTerminalLocked
  <2>5. ASSUME NEW th \in Threads, threadLock'[th] = a PROVE WorksOn(a, th)'
    <3>1. CASE th = turn[t].thread
      BY <2>1, <2>3, <3>1 DEF WorksOn
    <3>2. CASE th # turn[t].thread
      <4>1. WorksOn(a, th)
        BY <1>0, <2>4, <2>5, <3>2 DEF TypeOK
      <4>2. (pc[a] # "clear" /\ pc[a] \notin ThreadLabels) \/ op[a].thread # th
        BY <1>3, <3>2 DEF ThreadLabels, AdmitLabels
      <4> QED BY <1>3, <4>1, <4>2 DEF WorksOn, OnThread, ThreadLabels, AdmitLabels
    <3> QED BY <3>1, <3>2
  <2>6. admitLock' = a => Admitting(a)'
    BY <1>0, <1>3, <2>1, <2>4 DEF Admitting, AdmitLabels
  <2>7. ASSUME NEW b \in Actors \ {a}, NEW th \in Threads, threadLock'[th] = b
        PROVE  threadLock[th] = b
    BY <1>0, <2>2, <2>4, <2>7 DEF TypeOK
  <2> QED BY <2>4, <2>5, <2>6, <2>7 DEF HolderMoves
<1>4. ASSUME UNCHANGED locks, op'[a].thread = op[a].thread,
             pc[a] \in ThreadLabels, pc'[a] \in ThreadLabels
      PROVE  HolderMoves(a)
  BY <1>0, <1>4 DEF HolderMoves, WorksOn, OnThread, Admitting, ThreadLabels, AdmitLabels, locks
<1>5. ASSUME UNCHANGED locks, pc[a] \notin ThreadLabels \cup {"clear"},
             pc[a] \in AdmitLabels => pc'[a] \in AdmitLabels
      PROVE  HolderMoves(a)
  BY <1>0, <1>5 DEF HolderMoves, WorksOn, OnThread, Admitting, locks
<1>6. ASSUME UNCHANGED <<locks, pc, op>>, pc[a] # "clear" PROVE HolderMoves(a)
  BY <1>0, <1>6 DEF HolderMoves, WorksOn, OnThread, Admitting, locks
<1>7. ASSUME Step(a) PROVE HolderMoves(a)
  <2>1. CASE ClearPointer(a)
    <3> DEFINE th == turn[op[a].pub].thread
    <3>1. /\ pc[a] = "clear" /\ pc'[a] = op[a].ret /\ op'[a].thread = op[a].thread
          /\ op[a].ret \in Returns /\ admitLock' = admitLock
          /\ threadLock' = IF op[a].ret = "live" THEN threadLock
                           ELSE [threadLock EXCEPT ![th] = None]
      BY <1>0, <2>1 DEF ClearPointer, Goto, TypeOK, Op
    <3>2. op[a].ret = "live" => th = op[a].thread
      BY <1>0, <3>1 DEF ActorInv, LockInv
    <3>3. ASSUME NEW x \in Threads, threadLock'[x] = a PROVE WorksOn(a, x)'
      <4>1. threadLock[x] = a /\ (op[a].ret # "live" => x # th)
        BY <1>0, <3>1, <3>3 DEF TypeOK
      <4>2. WorksOn(a, x)
        BY <1>0, <4>1
      <4>3. op[a].ret = "live" /\ x = op[a].thread
        BY <3>1, <3>2, <4>1, <4>2 DEF WorksOn, OnThread, ThreadLabels, AdmitLabels
      <4> QED BY <3>1, <4>3 DEF WorksOn, OnThread, ThreadLabels, AdmitLabels
    <3>4. admitLock' = a => Admitting(a)'
      BY <1>0, <3>1 DEF Admitting, AdmitLabels
    <3>5. ASSUME NEW b \in Actors \ {a}, NEW x \in Threads, threadLock'[x] = b
          PROVE  threadLock[x] = b
      BY <1>0, <3>1, <3>5 DEF TypeOK
    <3> QED BY <3>1, <3>3, <3>4, <3>5 DEF HolderMoves
  <2>2. CASE LookupClient(a)
    <3> DEFINE t == client[op[a].key]
    <3>1. pc[a] = "index"
      BY <2>2 DEF LookupClient
    <3>2. CASE Goto(a, "dedup") /\ UNCHANGED locks
      <4>1. pc'[a] = "dedup"
        BY <1>0, <3>2 DEF Goto, TypeOK
      <4> QED BY <1>5, <3>1, <3>2, <4>1 DEF ThreadLabels, AdmitLabels
    <3>3. CASE SeenDead(a, t) /\ ObserveDead(a, t, "dedup")
      BY <1>3, <3>1, <3>3 DEF ObserveDead, SeenDead, InProgress
    <3> QED BY <2>2, <1>2, <3>2, <3>3 DEF LookupClient
  <2>3. CASE ScanClient(a)
    <3>1. pc[a] = "dedup"
      BY <2>3 DEF ScanClient
    <3>2. CASE Goto(a, "lockThread") /\ UNCHANGED locks
      <4>1. pc'[a] = "lockThread"
        BY <1>0, <3>2 DEF Goto, TypeOK
      <4> QED BY <1>5, <3>1, <3>2, <4>1 DEF ThreadLabels, AdmitLabels
    <3>3. ASSUME NEW t \in Admitted, Skip(a, t) PROVE HolderMoves(a)
      BY <1>5, <3>1, <3>3 DEF Skip, ThreadLabels, AdmitLabels
    <3>4. ASSUME NEW t \in Admitted, ObserveDead(a, t, "dedup") PROVE HolderMoves(a)
      BY <1>3, <3>1, <3>4 DEF ObserveDead
    <3> QED BY <2>3, <1>2, <3>2, <3>3, <3>4 DEF ScanClient
  <2>4. CASE LockThread(a)
    <3>1. /\ pc[a] = "lockThread" /\ pc'[a] = "pointer" /\ op'[a].thread = op[a].thread
          /\ admitLock' = admitLock
          /\ threadLock' = [threadLock EXCEPT ![op[a].thread] = a]
      BY <1>0, <2>4 DEF LockThread, Goto, TypeOK, Op
    <3>2. ASSUME NEW x \in Threads, threadLock'[x] = a PROVE x = op[a].thread
      <4>1. threadLock[x] # a
        BY <1>0, <3>1 DEF WorksOn, OnThread, ThreadLabels, AdmitLabels
      <4> QED BY <1>0, <3>1, <3>2, <4>1 DEF TypeOK
    <3>3. ASSUME NEW b \in Actors \ {a}, NEW x \in Threads, threadLock'[x] = b
          PROVE  threadLock[x] = b
      BY <1>0, <3>1, <3>3 DEF TypeOK
    <3> QED BY <3>1, <3>2, <3>3 DEF HolderMoves, WorksOn, OnThread, Admitting,
               ThreadLabels, AdmitLabels
  <2>5. CASE CheckPointer(a)
    <3> DEFINE t == op[a].copy.ptr
    <3>1. pc[a] = "pointer" /\ OnThread(a)
      BY <2>5 DEF CheckPointer, OnThread, ThreadLabels, AdmitLabels
    <3>2. CASE Goto(a, "live") /\ UNCHANGED <<locks, op>>
      <4>1. pc'[a] = "live"
        BY <1>0, <3>2 DEF Goto, TypeOK
      <4> QED BY <1>4, <3>1, <3>2, <4>1 DEF ThreadLabels, AdmitLabels
    <3>3. CASE t # None /\ SeenDead(a, t) /\ ObserveDead(a, t, "live")
      <4>1. op[a].copy \in Thread /\ PointsInto(op[a].thread, op[a].copy)
        BY <1>0, <3>1 DEF ActorInv, LockInv, CallInv
      <4>2. t \in Admitted /\ turn[t].thread = op[a].thread
        BY <3>3, <4>1, NoneAssumption DEF PointsInto
      <4> QED BY <1>3, <3>1, <3>3, <4>2 DEF ObserveDead, ThreadLabels, AdmitLabels
    <3> QED BY <2>5, <1>2, <3>2, <3>3 DEF CheckPointer
  <2>6. CASE ScanThread(a)
    <3>1. pc[a] = "live"
      BY <2>6 DEF ScanThread
    <3>2. CASE Goto(a, "writeGen") /\ UNCHANGED <<locks, op>>
      <4>1. pc'[a] = "writeGen"
        BY <1>0, <3>2 DEF Goto, TypeOK
      <4> QED BY <1>4, <3>1, <3>2, <4>1 DEF ThreadLabels, AdmitLabels
    <3>3. ASSUME NEW t \in Admitted, Skip(a, t) PROVE HolderMoves(a)
      <4>1. op'[a].thread = op[a].thread /\ UNCHANGED <<locks, pc>>
        BY <1>0, <3>3 DEF Skip, TypeOK, Op
      <4> QED BY <1>4, <3>1, <4>1 DEF ThreadLabels, AdmitLabels
    <3>4. ASSUME NEW t \in Admitted, turn[t].thread = op[a].thread, ObserveDead(a, t, "live")
          PROVE  HolderMoves(a)
      BY <1>3, <3>1, <3>4 DEF ObserveDead, ThreadLabels, AdmitLabels
    <3> QED BY <2>6, <1>2, <3>2, <3>3, <3>4 DEF ScanThread
  <2>7. ASSUME NEW t \in Turns, WriteGeneration(a, t) PROVE HolderMoves(a)
    <3>1. /\ pc[a] = "writeGen" /\ pc'[a] = "writeTurn" /\ UNCHANGED locks
          /\ op'[a].thread = op[a].thread
      BY <1>0, <2>7 DEF WriteGeneration, Goto, TypeOK, Op
    <3> QED BY <1>4, <3>1 DEF ThreadLabels, AdmitLabels
  <2>8. CASE WriteFails(a)
    BY <2>8, <1>2 DEF WriteFails
  <2>9. CASE WriteTurn(a) \/ WritePointer(a) \/ StoreClient(a)
    <3>1. /\ pc[a] \in {"writeTurn", "writePointer", "storeClient"}
          /\ pc'[a] \in {"writePointer", "storeClient", "holdLive"}
          /\ UNCHANGED <<locks, op>>
      <4>1. CASE WriteTurn(a)
        BY <1>0, <4>1 DEF WriteTurn, Goto, TypeOK
      <4>2. CASE WritePointer(a)
        BY <1>0, <4>2 DEF WritePointer, Goto, TypeOK
      <4>3. CASE StoreClient(a)
        BY <1>0, <4>3 DEF StoreClient, Goto, TypeOK
      <4> QED BY <2>9, <4>1, <4>2, <4>3
    <3> QED BY <1>4, <3>1 DEF ThreadLabels, AdmitLabels
  <2>10. CASE HoldLive(a)
    BY <1>1, <2>10 DEF HoldLive
  <2>11. CASE ClearPending(a) \/ Respond(a)
    <3>1. pc[a] \in {"ungate", "respond"} /\ UNCHANGED locks
      BY <2>11 DEF ClearPending, Respond
    <3> QED BY <1>5, <3>1 DEF ThreadLabels, AdmitLabels
  <2>12. CASE WaitPendingDecision(a)
    <3>1. pc[a] = "gate"
      BY <2>12 DEF WaitPendingDecision
    <3>2. CASE UNCHANGED locks
      BY <1>5, <3>1, <3>2 DEF ThreadLabels, AdmitLabels
    <3>3. CASE SeenDead(a, op[a].turn) /\ ObserveDead(a, op[a].turn, "gate")
      BY <1>3, <3>1, <3>3 DEF ObserveDead, SeenDead, InProgress
    <3> QED BY <2>12, <3>2, <3>3 DEF WaitPendingDecision
  <2>13. CASE ListTurnsStep(a)
    <3>1. pc[a] = "list"
      BY <2>13 DEF ListTurnsStep
    <3>2. CASE UNCHANGED locks
      BY <1>5, <3>1, <3>2 DEF ThreadLabels, AdmitLabels
    <3>3. ASSUME NEW t \in Admitted, ObserveDead(a, t, "list") PROVE HolderMoves(a)
      BY <1>3, <3>1, <3>3 DEF ObserveDead
    <3> QED BY <2>13, <1>2, <3>2, <3>3 DEF ListTurnsStep, ListTurn
  <2>14. CASE WaitStep(a)
    <3>1. pc[a] = "await"
      BY <2>14 DEF WaitStep
    <3>2. CASE SeenDead(a, op[a].turn) /\ ObserveDead(a, op[a].turn, "await")
      BY <1>3, <3>1, <3>2 DEF ObserveDead, SeenDead, InProgress
    <3> QED BY <2>14, <1>2, <3>2 DEF WaitStep
  <2> QED BY <1>7, <2>1, <2>2, <2>3, <2>4, <2>5, <2>6, <2>7, <2>8, <2>9, <2>10,
             <2>11, <2>12, <2>13, <2>14 DEF Step
<1>8. ASSUME Call(a) PROVE HolderMoves(a)
  <2>0. pc[a] = "idle" => pc[a] \notin AdmitLabels \cup {"clear"}
    BY DEF AdmitLabels
  <2>1. ASSUME NEW th \in Threads, NEW k \in Keys \cup {None}, AdmitTurn(a, th, k)
        PROVE  HolderMoves(a)
    <3>1. /\ pc[a] = "idle" /\ pc'[a] \in {"lockThread", "index"} /\ admitLock' = a
          /\ UNCHANGED threadLock
      BY <1>0, <2>1 DEF AdmitTurn, Goto, TypeOK
    <3> QED BY <1>0, <3>1 DEF HolderMoves, WorksOn, OnThread, Admitting,
               ThreadLabels, AdmitLabels
  <2>2. ASSUME pc[a] = "idle", UNCHANGED locks PROVE HolderMoves(a)
    BY <1>5, <2>0, <2>2 DEF ThreadLabels
  <2>3. ASSUME NEW x, NEW y, \/ SetAcpSessionId(a, x, y) \/ ListTurns(a, x, y)
                             \/ UpsertItem(a, x, y) \/ SetChildPid(a, x, y)
                             \/ ParkApproval(a, x, y)
        PROVE  HolderMoves(a)
    BY <2>2, <2>3 DEF SetAcpSessionId, ListTurns, UpsertItem, SetChildPid, ParkApproval
  <2>4. ASSUME NEW t, Wait(a, t) \/ MarkChildEof(a, t) PROVE HolderMoves(a)
    BY <2>2, <2>4 DEF Wait, MarkChildEof
  <2>5. ASSUME NEW t \in Admitted, NEW s, NEW f, pc[a] = "idle",
               PublishTerminalLocked(a, t, s, f, "idle")
        PROVE  HolderMoves(a)
    BY <1>3, <2>5
  <2>6. ASSUME NEW t, Observe(a, t) \/ Cancel(a, t) PROVE HolderMoves(a)
    BY <2>5, <2>6 DEF Observe, Cancel, ObserveDead, SeenDead, InProgress
  <2>7. ASSUME NEW t, NEW s, PublishTerminal(a, t, s) PROVE HolderMoves(a)
    BY <2>5, <2>7 DEF PublishTerminal, InProgress
  <2> QED BY <1>8, <2>1, <2>3, <2>4, <2>6, <2>7 DEF Call
<1>9. ASSUME WaitTimeout(a) PROVE HolderMoves(a)
  BY <1>2, <1>9 DEF WaitTimeout
<1>10. ASSUME Exit(a) PROVE HolderMoves(a)
  BY <1>1, <1>10 DEF Exit
<1> QED BY <1>7, <1>8, <1>9, <1>10

\* Whoever has a lock after a step works under it.
LEMMA HolderKeeps ==
  ASSUME AdmissionInv, HolderInv, [Next]_vars
  PROVE  HolderInv'
<1>1. CASE UNCHANGED <<locks, pc, op>>
  <2> SUFFICES ASSUME NEW th \in Threads, NEW b \in Actors, threadLock[th] = b,
                      WorksOn(b, th)
               PROVE  WorksOn(b, th)'
    BY <1>1 DEF HolderInv, Admitting, locks
  <2>1. pc[b] = "clear" => op[b].pub \in Admitted
    BY DEF AdmissionInv, ActorInv, LockInv, Terminal
  <2> QED BY <1>1, <2>1, ThreadOfTurn DEF WorksOn, OnThread
<1>2. ASSUME NEW a \in Actors, Step(a) \/ Call(a) \/ WaitTimeout(a) \/ Exit(a)
      PROVE  HolderInv'
  <2>1. HolderMoves(a) /\ TypeOK
    BY <1>2, HolderSteps DEF AdmissionInv
  <2>2. ASSUME NEW b \in Actors, b # a
        PROVE  /\ \A th \in Threads : threadLock'[th] = b => WorksOn(b, th)'
               /\ admitLock' = b => Admitting(b)'
    <3>1. pc'[b] = pc[b] /\ op'[b] = op[b]
      BY <1>2, <2>1, <2>2, OthersStay
    <3>2. pc[b] = "clear" => turn'[op[b].pub].thread = turn[op[b].pub].thread
      BY ThreadOfTurn DEF AdmissionInv, ActorInv, LockInv, Terminal
    <3>3. ASSUME NEW th \in Threads, threadLock'[th] = b PROVE WorksOn(b, th)'
      <4>1. WorksOn(b, th)
        BY <2>1, <2>2, <3>3 DEF HolderMoves, HolderInv
      <4> QED BY <3>1, <3>2, <4>1 DEF WorksOn, OnThread
    <3>4. admitLock' = b => Admitting(b)'
      BY <2>1, <2>2, <3>1 DEF HolderMoves, HolderInv, Admitting
    <3> QED BY <3>3, <3>4
  <2> QED BY <2>1, <2>2 DEF HolderMoves, HolderInv
<1>3. ASSUME \/ \E th \in Threads : CreateThread(th)
             \/ \E c \in Children : ChildExit(c)
             \/ UNCHANGED vars
      PROVE  HolderInv'
  BY <1>1, <1>3 DEF CreateThread, ChildExit, locks, vars
<1> QED BY <1>2, <1>3 DEF Next

\* Admission before thread, and one thread lock at a time: in no reachable
\* state does a call of the ledger wait for the lock of a thread, or begin,
\* while it has one, so calls never wait for each other, or for themselves, in a
\* circle.
THEOREM NoLockCycle == Spec => []LocksAreOrdered
<1>1. Init => HolderInv
  <2> SUFFICES ASSUME Init PROVE HolderInv
    OBVIOUS
  <2>1. None \notin Actors
    BY NoneAssumption
  <2> QED BY <2>1 DEF Init, HolderInv
<1>2. AdmissionInv /\ HolderInv /\ [Next]_vars => HolderInv'
  BY HolderKeeps
<1>3. AdmissionInv /\ HolderInv => LocksAreOrdered
  <2> SUFFICES ASSUME AdmissionInv, HolderInv, NEW a \in Actors, NEW th \in Threads,
                      threadLock[th] = a
               PROVE  Wants(a) = {} /\ pc[a] # "idle"
    BY DEF HolderInv, LocksAreOrdered
  <2>1. pc[a] \in ThreadLabels \cup {"clear"}
    BY DEF HolderInv, WorksOn, OnThread
  <2> QED BY <2>1 DEF Wants, ThreadLabels, AdmitLabels
<1> QED BY <1>1, <1>2, <1>3, AdmissionInvariant, PTL DEF Spec

=============================================================================
