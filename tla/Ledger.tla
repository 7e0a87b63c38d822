------------------------------- MODULE Ledger -------------------------------
(***************************************************************************)
(* The disk ledger of crates/core/src/ledger.rs.                           *)
(*                                                                         *)
(* An actor is a thread of execution that calls one `Ledger' instance: the *)
(* MCP tool loop, a background run_turn, a CLI verb, an app-server watcher *)
(* or a gated permission task.  Actors live in one or several processes    *)
(* and share the files of one home.  Files are replaced atomically (temp   *)
(* file and rename), so an action ends at each file another actor can read *)
(* or that a crash can leave behind; everything between two writes that    *)
(* happens under one lock is one action.  Most operations first read the   *)
(* turn without a lock, only to learn its thread: that field never changes *)
(* so the read is not a step of its own.                                   *)
(*                                                                         *)
(* A generation belongs to exactly one turn and is indexed by it.          *)
(***************************************************************************)
EXTENDS Naturals, FiniteSets

CONSTANTS Actors,     \* callers of the ledger
          Runners,    \* those that also admit turns
          Watchers,   \* those that also list turns, wait and respond
          Threads,    \* ids new_id("th") may return
          Turns,      \* ids new_id("tu") may return
          Keys,       \* non-empty client_request_ids
          Requests,   \* ids new_id("ap") may return
          Decisions,  \* answers that select an option
          Children,   \* pids of ACP children
          Sessions,   \* ACP session ids
          Items,      \* item ids
          ProcessOf,  \* the process an actor runs in
          None        \* absent file, empty string, free lock

ASSUME RolesAssumption == Runners \subseteq Actors /\ Watchers \subseteq Actors

ASSUME ProcessAssumption == DOMAIN ProcessOf = Actors

VARIABLES thread,      \* threads/<id>.json
          turn,        \* turns/<id>.json
          gen,         \* generations/<id>.json
          client,      \* turns/by-client/<key>
          admitLock,   \* flock on admit.lock
          threadLock,  \* flock on threads/<id>.lock
          hold,        \* the instance that has a LiveHold of the generation
          bare,        \* turns whose LiveHold has no lock on its .live file
          running,     \* children that are alive
          pc, op,      \* where each actor is in its call, and its locals
          outcome,     \* what the agent was told about a permission request
          answered,    \* history: the decision respond recorded for a request
          gone         \* history: turns whose owner instance was dropped or has
                       \* released them, or whose child has really ended

files  == <<thread, turn, gen, client>>
locks  == <<admitLock, threadLock>>
extras == <<outcome, answered, gone, bare>>
vars   == <<thread, turn, gen, client, admitLock, threadLock, hold, running,
            pc, op, outcome, answered, gone, bare>>

Statuses == {"inProgress", "completed", "interrupted", "failed"}
Failures == {"", "worker_gone", "reported"}

Thread == [ptr : Turns \cup {None}, sid : Sessions \cup {None}]

Turn == [thread : Threads, key : Keys \cup {None}, status : Statuses,
         failure : Failures, req : Requests \cup {None},
         dec : Decisions \cup {None}, items : SUBSET Items]

Generation == [owner : Actors, child : Children \cup {None}, eof : BOOLEAN]

ASSUME NoneAssumption ==
  /\ None \notin Actors \cup Threads \cup Turns \cup Keys \cup Requests
  /\ None \notin Decisions \cup Children \cup Sessions \cup Items
  /\ None \notin Thread \cup Turn \cup Generation

ASSUME DecisionsAssumption ==
  Decisions \cap {"unused", "parked", "cancelled"} = {}

Labels == {"idle", "index", "dedup", "lockThread", "pointer", "live",
           "writeGen", "writeTurn", "writePointer", "storeClient", "holdLive",
           "clear", "list", "respond", "await", "gate", "ungate"}

\* The labels publish_terminal_locked may return to.
Returns == {"idle", "dedup", "live", "list", "await", "gate"}

Outcomes == {"unused", "parked", "cancelled"} \cup Decisions

\* The locals of a call: `pub' is the turn being published and `ret' the
\* label to go back to; `copy' is the thread record admit_turn read.
Op == [thread : Threads \cup {None}, key : Keys \cup {None},
       turn : Turns \cup {None}, seen : SUBSET Turns,
       req : Requests \cup {None}, dec : Decisions \cup {None},
       copy : Thread \cup {None}, pub : Turns \cup {None}, ret : Returns]

NoOp == [thread |-> None, key |-> None, turn |-> None, seen |-> {},
         req |-> None, dec |-> None, copy |-> None, pub |-> None,
         ret |-> "idle"]

TypeOK ==
  /\ thread \in [Threads -> Thread \cup {None}]
  /\ turn \in [Turns -> Turn \cup {None}]
  /\ gen \in [Turns -> Generation \cup {None}]
  /\ client \in [Keys -> Turns \cup {None}]
  /\ admitLock \in Actors \cup {None}
  /\ threadLock \in [Threads -> Actors \cup {None}]
  /\ hold \in [Turns -> Actors \cup {None}]
  /\ running \subseteq Children
  /\ pc \in [Actors -> Labels]
  /\ op \in [Actors -> Op]
  /\ outcome \in [Requests -> Outcomes]
  /\ answered \in [Requests -> Decisions \cup {None}]
  /\ gone \subseteq Turns
  /\ bare \subseteq Turns

Init ==
  /\ thread = [th \in Threads |-> None]
  /\ turn = [t \in Turns |-> None]
  /\ gen = [t \in Turns |-> None]
  /\ client = [k \in Keys |-> None]
  /\ admitLock = None
  /\ threadLock = [th \in Threads |-> None]
  /\ hold = [t \in Turns |-> None]
  /\ running = Children
  /\ pc = [a \in Actors |-> "idle"]
  /\ op = [a \in Actors |-> NoOp]
  /\ outcome = [r \in Requests |-> "unused"]
  /\ answered = [r \in Requests |-> None]
  /\ gone = {}
  /\ bare = {}

-----------------------------------------------------------------------------
(***************************************************************************)
(* Reading the ledger                                                      *)
(***************************************************************************)
Admitted == {t \in Turns : turn[t] # None}
InProgress(t) == t \in Admitted /\ turn[t].status = "inProgress"
Terminal(t) == t \in Admitted /\ turn[t].status # "inProgress"

PendingApproval(t) == /\ InProgress(t)
                      /\ turn[t].req # None
                      /\ turn[t].dec = None

\* owner_instance_alive, as actor a finds it when the lock on the .live file can
\* be tried: PROCESS_LIVE shows a hold of a's own process, the lock one of
\* another process.
OwnerInstanceAlive(a, t) ==
  /\ hold[t] # None
  /\ ProcessOf[hold[t]] = ProcessOf[a] \/ t \notin bare

\* A pid whose process runs, is no zombie and is the one that was recorded.
ProcessAlive(c) == c \in running

ChildIsDead(t) ==
  \/ gen[t].eof
  \/ gen[t].child # None /\ ~ProcessAlive(gen[t].child)

GenerationIsDead(a, t) == ~OwnerInstanceAlive(a, t) \/ ChildIsDead(t)

ThreadLockFree(t) == threadLock[turn[t].thread] = None

\* What observe_locked may find when it re-reads a turn under the lock.  When
\* the lock cannot be tried the owner counts as alive while its process runs,
\* which may be long after its instance was dropped.
SeenDead(a, t) == InProgress(t) /\ GenerationIsDead(a, t)
SeenLive(t) == InProgress(t) /\ ~ChildIsDead(t)

Goto(a, label) == pc' = [pc EXCEPT ![a] = label]

Return(a) == /\ Goto(a, "idle")
             /\ op' = [op EXCEPT ![a] = NoOp]

\* The guards of a call go out of scope.
DropLocks(a) ==
  /\ admitLock' = IF admitLock = a THEN None ELSE admitLock
  /\ threadLock' = [th \in Threads |->
                      IF threadLock[th] = a THEN None ELSE threadLock[th]]

-----------------------------------------------------------------------------
(***************************************************************************)
(* publish_terminal_locked: the turn file first, then the pointer of the   *)
(* thread and the live hold.  A crash can fall between the two.            *)
(***************************************************************************)
PublishTerminalLocked(a, t, status, failure, ret) ==
  /\ turn' = [turn EXCEPT ![t].status = status, ![t].failure = failure]
  /\ threadLock' = [threadLock EXCEPT ![turn[t].thread] = a]
  /\ Goto(a, "clear")
  /\ op' = [op EXCEPT ![a].pub = t, ![a].ret = ret]
  /\ UNCHANGED <<thread, gen, client, admitLock, hold, running, extras>>

\* Mutant: the thread lock outlives the call.
ClearPointerKeepsLock(a) ==
  LET t == op[a].pub
      th == turn[t].thread
  IN /\ pc[a] = "clear"
     /\ thread' = IF thread[th].ptr = t THEN [thread EXCEPT ![th].ptr = None]
                  ELSE thread
     /\ hold' = [hold EXCEPT ![t] = IF @ = a THEN None ELSE @]
     /\ Goto(a, op[a].ret)
     /\ op' = [op EXCEPT ![a].pub = None, ![a].ret = "idle"]
     /\ UNCHANGED <<turn, gen, client, locks, running, extras>>

\* The pointer write may fail without failing the call.  release_live drops
\* only what this instance holds.
ClearPointer(a) ==
  LET t == op[a].pub
      th == turn[t].thread
  IN /\ pc[a] = "clear"
     /\ \/ /\ thread[th] # None /\ thread[th].ptr = t
           /\ thread' = [thread EXCEPT ![th].ptr = None]
        \/ UNCHANGED thread
     /\ \/ /\ hold[t] = a
           /\ hold' = [hold EXCEPT ![t] = None]
           /\ bare' = bare \ {t} /\ gone' = gone \cup {t}
        \/ hold[t] # a /\ UNCHANGED <<hold, bare, gone>>
     /\ Goto(a, op[a].ret)
     /\ op' = [op EXCEPT ![a].pub = None, ![a].ret = "idle"]
     /\ threadLock' = IF op[a].ret = "live" THEN threadLock
                      ELSE [threadLock EXCEPT ![th] = None]
     /\ UNCHANGED <<turn, gen, client, admitLock, running, outcome, answered>>

ObserveDead(a, t, ret) ==
  PublishTerminalLocked(a, t, "failed", "worker_gone", ret)

Observe(a, t) ==
  /\ pc[a] = "idle"
  /\ SeenDead(a, t) /\ ThreadLockFree(t)
  /\ ObserveDead(a, t, "idle")

\* Mutant: the turn is interrupted without a look at what it has become.
CancelBlindly(a, t) ==
  /\ pc[a] = "idle"
  /\ t \in Admitted /\ ThreadLockFree(t)
  /\ PublishTerminalLocked(a, t, "interrupted", "", "idle")

Cancel(a, t) ==
  /\ pc[a] = "idle"
  /\ InProgress(t) /\ ThreadLockFree(t)
  /\ \/ SeenDead(a, t) /\ ObserveDead(a, t, "idle")
     \/ /\ SeenLive(t)
        /\ PublishTerminalLocked(a, t, "interrupted", "", "idle")

\* Mutant: the record is not read again once the lock is held.
PublishUnchecked(a, t, status) ==
  /\ pc[a] = "idle"
  /\ t \in Admitted /\ ThreadLockFree(t)
  /\ PublishTerminalLocked(a, t, status,
       IF status = "failed" THEN "reported" ELSE "", "idle")

PublishTerminal(a, t, status) ==
  /\ pc[a] = "idle"
  /\ InProgress(t) /\ ThreadLockFree(t)
  /\ PublishTerminalLocked(a, t, status,
       IF status = "failed" THEN "reported" ELSE "", "idle")

-----------------------------------------------------------------------------
(***************************************************************************)
(* admit_turn                                                              *)
(***************************************************************************)
CreateThread(th) ==
  /\ thread[th] = None
  /\ thread' = [thread EXCEPT ![th] = [ptr |-> None, sid |-> None]]
  /\ UNCHANGED <<turn, gen, client, locks, hold, running, pc, op, extras>>

AdmitTurn(a, th, k) ==
  /\ a \in Runners /\ pc[a] = "idle" /\ admitLock = None
  /\ thread[th] # None
  /\ admitLock' = a
  /\ Goto(a, IF k = None THEN "lockThread" ELSE "index")
  /\ op' = [op EXCEPT ![a].thread = th, ![a].key = k]
  /\ UNCHANGED <<files, threadLock, hold, running, extras>>

\* The call returns, with the turn found or with an error.
Leave(a) ==
  /\ DropLocks(a) /\ Return(a)
  /\ UNCHANGED <<files, hold, running, extras>>

\* Mutant: a key that is not in the index is taken for a new key.
TrustIndex(a) ==
  LET t == client[op[a].key]
  IN /\ pc[a] = "index"
     /\ \/ /\ t = None \/ Terminal(t)
           /\ Goto(a, "lockThread")
           /\ UNCHANGED <<files, locks, hold, running, op, extras>>
        \/ t # None /\ SeenLive(t) /\ ThreadLockFree(t) /\ Leave(a)
        \/ t # None /\ SeenDead(a, t) /\ ThreadLockFree(t)
           /\ ObserveDead(a, t, "dedup")

\* in_flight_by_client, the index: an observed live turn with the key is
\* returned; a missing, terminal or dead one leads to the scan.
LookupClient(a) ==
  LET t == client[op[a].key]
  IN /\ pc[a] = "index"
     /\ \/ /\ t = None \/ (Terminal(t) /\ ThreadLockFree(t))
           /\ Goto(a, "dedup")
           /\ UNCHANGED <<files, locks, hold, running, op, extras>>
        \/ /\ t # None /\ SeenLive(t) /\ ThreadLockFree(t)
           /\ turn[t].key = op[a].key
           /\ Leave(a)
        \/ /\ t # None /\ SeenDead(a, t) /\ ThreadLockFree(t)
           /\ ObserveDead(a, t, "dedup")

\* A scan of the turn files: t has been dealt with.  No turn can be admitted
\* during the scans of admit_turn, which run under the admission lock.
Skip(a, t) ==
  /\ op' = [op EXCEPT ![a].seen = @ \cup {t}]
  /\ UNCHANGED <<files, locks, hold, running, pc, extras>>

Scanned(a) == Admitted \subseteq op[a].seen

\* in_flight_by_client, the scan: every turn with the key is observed.
ScanClient(a) ==
  /\ pc[a] = "dedup"
  /\ \/ /\ Scanned(a)
        /\ Goto(a, "lockThread")
        /\ UNCHANGED <<files, locks, hold, running, op, extras>>
     \/ \E t \in Admitted \ op[a].seen :
          \/ turn[t].key # op[a].key /\ Skip(a, t)
          \/ /\ turn[t].key = op[a].key /\ ThreadLockFree(t)
             /\ \/ Terminal(t) /\ Skip(a, t)
                \/ SeenLive(t) /\ Leave(a)
                \/ SeenDead(a, t) /\ ObserveDead(a, t, "dedup")

LockThread(a) ==
  LET th == op[a].thread
  IN /\ pc[a] = "lockThread" /\ threadLock[th] = None
     /\ threadLock' = [threadLock EXCEPT ![th] = a]
     /\ op' = [op EXCEPT ![a].copy = thread[th], ![a].seen = {}]
     /\ Goto(a, "pointer")
     /\ UNCHANGED <<files, admitLock, hold, running, extras>>

\* Mutant: the pointer is believed, the turn files are not scanned.
TrustPointer(a) ==
  LET t == op[a].copy.ptr
  IN /\ pc[a] = "pointer"
     /\ \/ /\ t = None \/ Terminal(t)
           /\ Goto(a, "writeGen")
           /\ UNCHANGED <<files, locks, hold, running, op, extras>>
        \/ t # None /\ SeenLive(t) /\ Leave(a)
        \/ t # None /\ SeenDead(a, t) /\ ObserveDead(a, t, "live")

\* live_turn_on_thread_locked, the pointer: a live turn is TurnInProgress.
CheckPointer(a) ==
  LET t == op[a].copy.ptr
  IN /\ pc[a] = "pointer"
     /\ \/ /\ t = None \/ Terminal(t)
           /\ Goto(a, "live")
           /\ UNCHANGED <<files, locks, hold, running, op, extras>>
        \/ t # None /\ SeenLive(t) /\ Leave(a)
        \/ t # None /\ SeenDead(a, t) /\ ObserveDead(a, t, "live")

\* live_turn_on_thread_locked, the scan of the turns of the thread.
ScanThread(a) ==
  /\ pc[a] = "live"
  /\ \/ /\ Scanned(a)
        /\ Goto(a, "writeGen")
        /\ UNCHANGED <<files, locks, hold, running, op, extras>>
     \/ \E t \in Admitted \ op[a].seen :
          \/ (turn[t].thread # op[a].thread \/ Terminal(t)) /\ Skip(a, t)
          \/ /\ turn[t].thread = op[a].thread
             /\ \/ SeenLive(t) /\ Leave(a)
                \/ SeenDead(a, t) /\ ObserveDead(a, t, "live")

\* new_id is unique: neither a turn nor a generation has used t.
WriteGeneration(a, t) ==
  /\ pc[a] = "writeGen"
  /\ turn[t] = None /\ gen[t] = None
  /\ gen' = [gen EXCEPT ![t] = [owner |-> a, child |-> None, eof |-> FALSE]]
  /\ op' = [op EXCEPT ![a].turn = t]
  /\ Goto(a, "writeTurn")
  /\ UNCHANGED <<thread, turn, client, locks, hold, running, extras>>

\* Mutant: two fields of the record are swapped.
WriteTurnSwapped(a) ==
  /\ pc[a] = "writeTurn"
  /\ turn' = [turn EXCEPT ![op[a].turn] =
                [thread |-> op[a].key, key |-> op[a].thread,
                 status |-> "inProgress", failure |-> "", req |-> None,
                 dec |-> None, items |-> {}]]
  /\ Goto(a, "writePointer")
  /\ UNCHANGED <<thread, gen, client, locks, hold, running, op, extras>>

\* The turn file is the persist point.
WriteTurn(a) ==
  /\ pc[a] = "writeTurn"
  /\ turn' = [turn EXCEPT ![op[a].turn] =
                [thread |-> op[a].thread, key |-> op[a].key,
                 status |-> "inProgress", failure |-> "", req |-> None,
                 dec |-> None, items |-> {}]]
  /\ Goto(a, "writePointer")
  /\ UNCHANGED <<thread, gen, client, locks, hold, running, op, extras>>

\* A write before the persist point fails and so does the call.
WriteFails(a) ==
  /\ pc[a] \in {"writeGen", "writeTurn"}
  /\ Leave(a)

\* Mutant: the locks are dropped before the live hold is taken.
WritePointerUnlocks(a) ==
  /\ pc[a] = "writePointer"
  /\ thread' = [thread EXCEPT ![op[a].thread] =
                  [op[a].copy EXCEPT !.ptr = op[a].turn]]
  /\ Goto(a, IF op[a].key = None THEN "holdLive" ELSE "storeClient")
  /\ DropLocks(a)
  /\ UNCHANGED <<turn, gen, client, hold, running, op, extras>>

\* The whole record is written back; an error is ignored.
WritePointer(a) ==
  /\ pc[a] = "writePointer"
  /\ \/ thread' = [thread EXCEPT ![op[a].thread] =
                     [op[a].copy EXCEPT !.ptr = op[a].turn]]
     \/ UNCHANGED thread
  /\ Goto(a, IF op[a].key = None THEN "holdLive" ELSE "storeClient")
  /\ UNCHANGED <<turn, gen, client, locks, hold, running, op, extras>>

\* An error is ignored.
StoreClient(a) ==
  /\ pc[a] = "storeClient"
  /\ \/ client' = [client EXCEPT ![op[a].key] = op[a].turn]
     \/ UNCHANGED client
  /\ Goto(a, "holdLive")
  /\ UNCHANGED <<thread, turn, gen, locks, hold, running, op, extras>>

\* hold_live, and the locks are dropped on return.  When the .live file cannot
\* be opened or locked, only PROCESS_LIVE knows of the hold.
HoldLive(a) ==
  /\ pc[a] = "holdLive"
  /\ hold' = [hold EXCEPT ![op[a].turn] = a]
  /\ bare' = bare \/ bare' = bare \cup {op[a].turn}
  /\ DropLocks(a) /\ Return(a)
  /\ UNCHANGED <<files, running, outcome, answered, gone>>

-----------------------------------------------------------------------------
(***************************************************************************)
(* Other writers of a thread, a turn or a generation                       *)
(***************************************************************************)
\* Mutant: the thread is written without its lock.
SetAcpSessionIdUnlocked(a, th, s) ==
  /\ pc[a] = "idle" /\ thread[th] # None
  /\ thread' = [thread EXCEPT ![th].sid = s]
  /\ UNCHANGED <<turn, gen, client, locks, hold, running, pc, op, extras>>

SetAcpSessionId(a, th, s) ==
  /\ pc[a] = "idle" /\ thread[th] # None /\ threadLock[th] = None
  /\ thread' = [thread EXCEPT ![th].sid = s]
  /\ UNCHANGED <<turn, gen, client, locks, hold, running, pc, op, extras>>

UpsertItem(a, t, i) ==
  /\ pc[a] = "idle" /\ InProgress(t) /\ ThreadLockFree(t)
  /\ turn' = [turn EXCEPT ![t].items = @ \cup {i}]
  /\ UNCHANGED <<thread, gen, client, locks, hold, running, pc, op, extras>>

\* The generation is written under its own lock, never under the thread's:
\* an observer may read it just before or just after.
SetChildPid(a, t, c) ==
  /\ pc[a] = "idle" /\ t \in Admitted
  /\ \A u \in Turns : gen[u] # None => gen[u].child # c
  /\ gen' = [gen EXCEPT ![t].child = c, ![t].eof = FALSE]
  /\ gone' = IF c \in running THEN gone ELSE gone \cup {t}
  /\ UNCHANGED <<thread, turn, client, locks, hold, running, pc, op,
                 outcome, answered, bare>>

MarkChildEof(a, t) ==
  /\ pc[a] = "idle" /\ t \in Admitted /\ gen[t].child # None
  /\ gen' = [gen EXCEPT ![t].eof = TRUE]
  /\ gone' = gone \cup {t}
  /\ UNCHANGED <<thread, turn, client, locks, hold, running, pc, op,
                 outcome, answered, bare>>

-----------------------------------------------------------------------------
(***************************************************************************)
(* Permission requests: park_approval and the task that waits for the      *)
(* decision (finish_gated_permission), list_turns and respond              *)
(***************************************************************************)
ParkApproval(a, t, r) ==
  /\ pc[a] = "idle" /\ outcome[r] = "unused"
  /\ InProgress(t) /\ ThreadLockFree(t)
  /\ ~PendingApproval(t)
  /\ turn' = [turn EXCEPT ![t].req = r, ![t].dec = None]
  /\ outcome' = [outcome EXCEPT ![r] = "parked"]
  /\ Goto(a, "gate")
  /\ op' = [op EXCEPT ![a].turn = t, ![a].req = r]
  /\ UNCHANGED <<thread, gen, client, locks, hold, running, answered, gone,
                 bare>>

\* Mutant: the turn is read but not observed.
WaitDecisionUnobserved(a) ==
  LET t == op[a].turn
  IN /\ pc[a] = "gate"
     /\ \/ Terminal(t) /\ UNCHANGED op
        \/ /\ InProgress(t) /\ turn[t].req = op[a].req /\ turn[t].dec # None
           /\ op' = [op EXCEPT ![a].dec = turn[t].dec]
     /\ Goto(a, "ungate")
     /\ UNCHANGED <<files, locks, hold, running, extras>>

\* Mutant: a decision is looked for while pending_approval() holds, which ends
\* with the decision.
WaitDecisionWhilePending(a) ==
  LET t == op[a].turn
  IN /\ pc[a] = "gate" /\ ThreadLockFree(t)
     /\ \/ SeenDead(a, t) /\ ObserveDead(a, t, "gate")
        \/ /\ \/ Terminal(t) /\ UNCHANGED op
              \/ /\ SeenLive(t) /\ PendingApproval(t) /\ turn[t].dec # None
                 /\ op' = [op EXCEPT ![a].dec = turn[t].dec]
           /\ Goto(a, "ungate")
           /\ UNCHANGED <<files, locks, hold, running, extras>>

\* One round of wait_pending_decision that does not go back to sleep.
WaitPendingDecision(a) ==
  LET t == op[a].turn
  IN /\ pc[a] = "gate" /\ ThreadLockFree(t)
     /\ \/ SeenDead(a, t) /\ ObserveDead(a, t, "gate")
        \/ /\ \/ Terminal(t) /\ UNCHANGED op
              \/ /\ SeenLive(t) /\ turn[t].req = op[a].req
                 /\ turn[t].dec # None
                 /\ op' = [op EXCEPT ![a].dec = turn[t].dec]
           /\ Goto(a, "ungate")
           /\ UNCHANGED <<files, locks, hold, running, extras>>

\* Mutant: whatever request is pending is cleared.
ClearAnyPending(a) ==
  /\ pc[a] = "ungate" /\ ThreadLockFree(op[a].turn)
  /\ turn' = [turn EXCEPT ![op[a].turn].req = None, ![op[a].turn].dec = None]
  /\ outcome' = [outcome EXCEPT ![op[a].req] =
                   IF op[a].dec = None THEN "cancelled" ELSE op[a].dec]
  /\ Return(a)
  /\ UNCHANGED <<thread, gen, client, locks, hold, running, answered, gone,
                 bare>>

\* clear_pending, then the agent is answered.
ClearPending(a) ==
  LET t == op[a].turn
      r == op[a].req
  IN /\ pc[a] = "ungate" /\ ThreadLockFree(t)
     /\ turn' = IF turn[t].req = r
                THEN [turn EXCEPT ![t].req = None, ![t].dec = None]
                ELSE turn
     /\ outcome' = [outcome EXCEPT ![r] =
                      IF op[a].dec = None THEN "cancelled" ELSE op[a].dec]
     /\ Return(a)
     /\ UNCHANGED <<thread, gen, client, locks, hold, running, answered, gone,
                 bare>>

\* list_turns, for grok_list (r = None) or on behalf of respond.
ListTurns(a, r, d) ==
  /\ a \in Watchers /\ pc[a] = "idle"
  /\ Goto(a, "list")
  /\ op' = [op EXCEPT ![a].req = r, ![a].dec = d]
  /\ UNCHANGED <<files, locks, hold, running, extras>>

\* A snapshot of t is added to the list.
ListTurn(a, t) ==
  /\ op' = [op EXCEPT ![a].seen = @ \cup {t},
                      ![a].turn = IF op[a].req # None /\ turn[t].req = op[a].req
                                  THEN t ELSE @]
  /\ UNCHANGED <<files, locks, hold, running, pc, extras>>

ListTurnsStep(a) ==
  /\ pc[a] = "list"
  /\ \/ \E t \in Admitted \ op[a].seen :
          \/ Terminal(t) /\ ListTurn(a, t)
          \/ SeenLive(t) /\ ThreadLockFree(t) /\ ListTurn(a, t)
          \/ SeenDead(a, t) /\ ThreadLockFree(t) /\ ObserveDead(a, t, "list")
     \/ /\ Scanned(a) /\ op[a].turn = None
        /\ Leave(a)
     \/ /\ Scanned(a) /\ op[a].turn # None
        /\ Goto(a, "respond")
        /\ UNCHANGED <<files, locks, hold, running, op, extras>>

\* Mutant: the request id found by the list is not compared again.
RespondUnmatched(a) ==
  LET t == op[a].turn
  IN /\ pc[a] = "respond" /\ ThreadLockFree(t)
     /\ IF PendingApproval(t)
        THEN /\ turn' = [turn EXCEPT ![t].dec = op[a].dec]
             /\ answered' = [answered EXCEPT ![op[a].req] = op[a].dec]
        ELSE UNCHANGED <<turn, answered>>
     /\ Return(a)
     /\ UNCHANGED <<thread, gen, client, locks, hold, running, outcome, gone,
                    bare>>

\* Mutant: a decision that is already recorded is replaced.
RespondTwice(a) ==
  LET t == op[a].turn
  IN /\ pc[a] = "respond" /\ ThreadLockFree(t)
     /\ IF InProgress(t) /\ turn[t].req = op[a].req
        THEN /\ turn' = [turn EXCEPT ![t].dec = op[a].dec]
             /\ answered' = [answered EXCEPT ![op[a].req] = op[a].dec]
        ELSE UNCHANGED <<turn, answered>>
     /\ Return(a)
     /\ UNCHANGED <<thread, gen, client, locks, hold, running, outcome, gone,
                    bare>>

\* The rest of respond: stale, unknown and duplicate ids are errors.
Respond(a) ==
  LET t == op[a].turn
  IN /\ pc[a] = "respond" /\ ThreadLockFree(t)
     /\ IF PendingApproval(t) /\ turn[t].req = op[a].req
        THEN /\ turn' = [turn EXCEPT ![t].dec = op[a].dec]
             /\ answered' = [answered EXCEPT ![op[a].req] = op[a].dec]
        ELSE UNCHANGED <<turn, answered>>
     /\ Return(a)
     /\ UNCHANGED <<thread, gen, client, locks, hold, running, outcome, gone,
                    bare>>

-----------------------------------------------------------------------------
(***************************************************************************)
(* wait, and what happens to actors and children                           *)
(***************************************************************************)
Wait(a, t) ==
  /\ a \in Watchers /\ pc[a] = "idle" /\ t \in Admitted
  /\ Goto(a, "await")
  /\ op' = [op EXCEPT ![a].turn = t]
  /\ UNCHANGED <<files, locks, hold, running, extras>>

\* Mutant: the turn is read but not observed.
WaitUnobserved(a) ==
  LET t == op[a].turn
  IN /\ pc[a] = "await"
     /\ Terminal(t) \/ PendingApproval(t)
     /\ Leave(a)

\* One round of wait that does not go back to sleep.
WaitStep(a) ==
  LET t == op[a].turn
  IN /\ pc[a] = "await" /\ ThreadLockFree(t)
     /\ \/ SeenDead(a, t) /\ ObserveDead(a, t, "await")
        \/ (Terminal(t) \/ (SeenLive(t) /\ PendingApproval(t))) /\ Leave(a)

\* The timeout passed: the latest snapshot is returned, nothing is cancelled.
WaitTimeout(a) ==
  /\ pc[a] = "await" /\ ThreadLockFree(op[a].turn) /\ SeenLive(op[a].turn)
  /\ Leave(a)

\* The instance is dropped, or its thread or process dies at any point: the
\* kernel drops its locks and its live holds.
Exit(a) ==
  /\ DropLocks(a) /\ Return(a)
  /\ hold' = [t \in Turns |-> IF hold[t] = a THEN None ELSE hold[t]]
  /\ gone' = gone \cup {t \in Turns : gen[t] # None /\ gen[t].owner = a}
  /\ bare' = {t \in bare : hold[t] # a}
  /\ UNCHANGED <<files, running, outcome, answered>>

ChildExit(c) ==
  /\ c \in running
  /\ running' = running \ {c}
  /\ gone' = gone \cup {t \in Turns : gen[t] # None /\ gen[t].child = c}
  /\ UNCHANGED <<files, locks, hold, pc, op, outcome, answered, bare>>

-----------------------------------------------------------------------------
\* A step of a call that has begun.
Step(a) ==
  \/ ClearPointer(a) \/ LookupClient(a) \/ ScanClient(a) \/ LockThread(a)
  \/ CheckPointer(a) \/ ScanThread(a)
  \/ \E t \in Turns : WriteGeneration(a, t)
  \/ WriteTurn(a) \/ WriteFails(a) \/ WritePointer(a) \/ StoreClient(a)
  \/ HoldLive(a) \/ WaitPendingDecision(a) \/ ClearPending(a)
  \/ ListTurnsStep(a) \/ Respond(a) \/ WaitStep(a)

\* Request ids a host can know.
Issued == {r \in Requests : outcome[r] # "unused"}

\* A call begins, or an operation that is a single step is run.
Call(a) ==
  \/ \E th \in Threads, k \in Keys \cup {None} : AdmitTurn(a, th, k)
  \/ \E th \in Threads, s \in Sessions : SetAcpSessionId(a, th, s)
  \/ \E r \in Issued, d \in Decisions : ListTurns(a, r, d)
  \/ ListTurns(a, None, None)
  \/ \E t \in Turns :
       \/ Observe(a, t) \/ Cancel(a, t) \/ Wait(a, t) \/ MarkChildEof(a, t)
       \/ \E s \in {"completed", "interrupted", "failed"} :
            PublishTerminal(a, t, s)
       \/ \E i \in Items : UpsertItem(a, t, i)
       \/ \E c \in Children : SetChildPid(a, t, c)
       \/ \E r \in Requests : ParkApproval(a, t, r)

Next ==
  \/ \E a \in Actors : Step(a) \/ Call(a) \/ WaitTimeout(a) \/ Exit(a)
  \/ \E th \in Threads : CreateThread(th)
  \/ \E c \in Children : ChildExit(c)

Spec == Init /\ [][Next]_vars

\* A call that has begun goes on: its thread is scheduled, its poll loops
\* re-read the ledger every 20 ms, and flock queues blocked callers, so one
\* that can have the lock again and again gets it.  Nobody is obliged to call.
FairSpec == Spec /\ \A a \in Actors : SF_vars(Step(a))

-----------------------------------------------------------------------------
\* The turns as a caller sees them: the persisted records, without what only
\* the implementation needs.
AbstractSlot ==
  [t \in Turns |->
     IF turn[t] = None THEN None
     ELSE [thread |-> turn[t].thread, key |-> turn[t].key,
           status |-> turn[t].status, req |-> turn[t].req,
           dec |-> turn[t].dec]]

Store == INSTANCE TurnStore
           WITH slot <- AbstractSlot,
                asked <- Issued

\* An absent turn is not a turn.
ASSUME SlotAssumption == None \notin Store!Slot

\* The ledger implements TurnStore: admission, the end of a turn and the life
\* of a permission request look atomic to every caller of every process.
ImplementsStore == Store!Spec

\* TASK-006, "exclusive one inProgress turn per thread": whatever writes of
\* admit_turn failed and wherever its caller died, no two turn files of one
\* thread are in progress.
OneInProgressPerThread ==
  \A t, u \in Turns :
    InProgress(t) /\ InProgress(u) /\ turn[t].thread = turn[u].thread => t = u

\* admit_turn never starts a second turn for a client_request_id that is in
\* flight, even when the by-client index is missing or stale.
OneInFlightPerKey ==
  \A t, u \in Turns :
    /\ InProgress(t) /\ InProgress(u)
    /\ turn[t].key = turn[u].key /\ turn[t].key # None
    => t = u

\* observe publishes worker_gone only for a turn whose owner instance has
\* really gone or whose child has really ended: an admission that has written
\* the turn but does not hold its live file yet is never taken for dead.  The
\* code leaves one case open: when hold_live could not lock the .live file, an
\* observer of another process takes a living owner for dead.
WorkerGoneIsHonest ==
  \A t \in Turns :
    t \in Admitted /\ turn[t].failure = "worker_gone" =>
      \/ t \in gone
      \/ t \in bare /\ \E a \in Actors : ProcessOf[a] # ProcessOf[gen[t].owner]

\* "If a terminal record is already published, do not overwrite it": status,
\* failure and items of a terminal turn never change again.
FirstTerminalWins ==
  [][\A t \in Turns :
       Terminal(t) =>
         /\ turn'[t] # None
         /\ turn'[t].status = turn[t].status
         /\ turn'[t].failure = turn[t].failure
         /\ turn'[t].items = turn[t].items]_vars

\* admit_turn writes back a thread record it read earlier; that may not undo a
\* set_acp_session_id a follow-up needs: a write that changes the session id
\* keeps the pointer, and an id is never lost.
AcpSessionNeverLost ==
  [][\A th \in Threads :
       thread[th] # None /\ thread[th].sid # None =>
         /\ thread'[th].sid # None
         /\ thread'[th].sid # thread[th].sid =>
              thread'[th].ptr = thread[th].ptr]_vars

\* What the agent is told about a permission request is the decision that
\* respond recorded for that very request id, never one for an earlier or a
\* later request of the turn.
GateObeysItsAnswer ==
  \A r \in Requests :
    outcome[r] \in Decisions => answered[r] = outcome[r]

\* "Wait until a parked request has a decision, or the turn is terminal": once
\* respond has recorded a decision for a request, the task that waits for it
\* gets to know or dies, unless another request is parked over the answered one
\* before it was consumed, which park_approval allows.
AnswerIsDelivered ==
  \A a \in Actors, r \in Requests :
    pc[a] = "gate" /\ op[a].req = r /\ answered[r] # None
      ~> pc[a] # "gate" \/ turn[op[a].turn].req # r

\* Nobody waits for a lock forever: a call that is not a wait for somebody
\* else's decision returns, fails or dies.
CallsEnd ==
  \A a \in Actors :
    pc[a] \notin {"idle", "await", "gate"} ~> pc[a] \in {"idle", "await", "gate"}

\* "Infinite wait is forbidden", "worker death while pending converges to a
\* terminal TurnStatus": a wait for a turn, or of its gate for a decision, ends
\* if the turn is terminal or the waiter can see that its generation is dead,
\* unless the generation comes to life (its admission takes the live hold, or a
\* new child is recorded).
DeadWaitEnds ==
  \A a \in Actors, t \in Turns, wait \in {"await", "gate"} :
    pc[a] = wait /\ op[a].turn = t /\ (Terminal(t) \/ SeenDead(a, t))
      ~> pc[a] # wait \/ ~(Terminal(t) \/ SeenDead(a, t))
=============================================================================
