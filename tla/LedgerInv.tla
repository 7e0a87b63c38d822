----------------------------- MODULE LedgerInv -----------------------------
(***************************************************************************)
(* The inductive invariant of module Ledger: why its locks, its scans and  *)
(* the order of its writes are enough.                                     *)
(***************************************************************************)
EXTENDS Ledger

\* Where an actor holds the admission lock, the lock of the thread it admits
\* to, and where its new turn is persisted but not yet held.
AdmitLabels  == {"index", "dedup", "lockThread", "pointer", "live", "writeGen",
                 "writeTurn", "writePointer", "storeClient", "holdLive"}
ThreadLabels == AdmitLabels \ {"index", "dedup", "lockThread"}
NewLabels    == {"writePointer", "storeClient", "holdLive"}

Admitting(a) == \/ pc[a] \in AdmitLabels
                \/ pc[a] = "clear" /\ op[a].ret \in {"dedup", "live"}
OnThread(a)  == \/ pc[a] \in ThreadLabels
                \/ pc[a] = "clear" /\ op[a].ret = "live"

\* Locks are held where the code has taken them, so at most one actor admits
\* and at most one works on the turns of a thread.
LockInv(a) ==
  /\ Admitting(a) => /\ admitLock = a
                     /\ op[a].thread \in Threads /\ thread[op[a].thread] # None
  /\ pc[a] = "index" => op[a].key \in Keys
  /\ OnThread(a) => threadLock[op[a].thread] = a /\ op[a].copy \in Thread
  /\ pc[a] = "clear" =>
       /\ op[a].pub \in Turns
       /\ Terminal(op[a].pub)
       /\ threadLock[turn[op[a].pub].thread] = a
       /\ op[a].ret = "live" => turn[op[a].pub].thread = op[a].thread

\* A thread record points to a turn of its thread.
PointsInto(th, rec) ==
  rec # None /\ rec.ptr # None => rec.ptr \in Admitted /\ turn[rec.ptr].thread = th

\* A call that works on a turn works on one that exists.
CallInv(a) ==
  /\ OnThread(a) => PointsInto(op[a].thread, op[a].copy)
  /\ \/ pc[a] \in {"respond", "await", "gate", "ungate"}
     \/ pc[a] = "clear" /\ op[a].ret \in {"await", "gate"}
     => op[a].turn \in Admitted
  /\ \/ pc[a] = "list"
     \/ pc[a] = "clear" /\ op[a].ret = "list"
     => op[a].turn \in Admitted \cup {None}
  /\ \/ pc[a] \in {"list", "respond"}
     \/ pc[a] = "clear" /\ op[a].ret = "list"
     => /\ op[a].turn # None => op[a].req # None
        /\ op[a].req # None => op[a].dec # None
  /\ \/ pc[a] \in {"gate", "ungate"}
     \/ pc[a] = "clear" /\ op[a].ret = "gate"
     => op[a].req \in Issued
  /\ pc[a] = "writeTurn" => op[a].turn \in Turns /\ turn[op[a].turn] = None
  /\ pc[a] \in NewLabels => /\ op[a].turn \in Admitted
                            /\ turn[op[a].turn].thread = op[a].thread
  /\ pc[a] = "storeClient" => op[a].key \in Keys
  /\ pc[a] \in NewLabels \cup {"writeTurn"} =>
       gen[op[a].turn] # None /\ gen[op[a].turn].owner = a

\* A call begins with fresh locals, and so does each scan.
FreshInv(a) ==
  /\ pc[a] = "idle" \/ (pc[a] = "clear" /\ op[a].ret = "idle")
     => op[a].turn = None /\ op[a].dec = None /\ op[a].seen = {}
  /\ pc[a] \in {"index", "pointer"} => op[a].seen = {}

\* What a scan has passed is not in progress on the thread, or with the key.
ScanInv(a) ==
  \A t \in Turns :
    InProgress(t) =>
      /\ \/ pc[a] = "live" \/ (pc[a] = "clear" /\ op[a].ret = "live")
         => (t \in op[a].seen => turn[t].thread # op[a].thread)
      /\ pc[a] \in {"writeGen", "writeTurn"} => turn[t].thread # op[a].thread
      /\ op[a].key # None =>
           /\ \/ pc[a] = "dedup" \/ (pc[a] = "clear" /\ op[a].ret = "dedup")
              => (t \in op[a].seen => turn[t].key # op[a].key)
           /\ \/ pc[a] \in {"lockThread", "pointer", "live", "writeGen", "writeTurn"}
              \/ pc[a] = "clear" /\ op[a].ret = "live"
              => turn[t].key # op[a].key

ActorInv(a) == LockInv(a) /\ CallInv(a) /\ FreshInv(a) /\ ScanInv(a)

\* Files refer to turns that exist.
FileInv ==
  /\ \A th \in Threads : PointsInto(th, thread[th])
  /\ \A k \in Keys : client[k] # None => client[k] \in Admitted
  /\ \A t \in Admitted : gen[t] # None

\* A turn in progress that nobody holds is either new, with its admission
\* under way under the thread lock, or its worker has really gone.
LiveInv ==
  /\ \A t \in Turns :
       /\ InProgress(t) /\ hold[t] = None /\ t \notin gone =>
            \E a \in Actors : pc[a] \in NewLabels /\ op[a].turn = t
       /\ hold[t] # None => gen[t] # None /\ gen[t].owner = hold[t]
       /\ gen[t] # None /\ gen[t].eof => t \in gone
       /\ gen[t] # None /\ gen[t].child # None /\ gen[t].child \notin running
            => t \in gone

\* An actor waits for a decision, or has stopped waiting and has not yet told
\* the agent.
Waiting(a) == pc[a] = "gate" \/ (pc[a] = "clear" /\ op[a].ret = "gate")

\* A waiting gate has no decision; one that stopped waiting has the decision
\* recorded for its request, or its turn is over.
GateInv(a) ==
  /\ Waiting(a) => op[a].dec = None
  /\ pc[a] = "ungate" =>
       IF op[a].dec = None THEN Terminal(op[a].turn)
       ELSE answered[op[a].req] = op[a].dec

\* A request id is pending on one turn at most, and a decision in a turn file,
\* in the hands of a gate or with the agent is the one recorded for that id.
AnswerInv ==
  /\ \A t \in Admitted :
       /\ turn[t].req # None => turn[t].req \in Issued
       /\ turn[t].req = None => turn[t].dec = None
       /\ turn[t].req # None => answered[turn[t].req] = turn[t].dec
       /\ \A u \in Admitted :
            turn[t].req # None /\ turn[t].req = turn[u].req => t = u
  /\ \A r \in Requests : outcome[r] = "unused" => answered[r] = None
  /\ \A a \in Actors : GateInv(a)
  /\ GateObeysItsAnswer

\* The session id in the copy of a thread record that admit_turn will write
\* back is the one in the file.
CopyInv ==
  \A a \in Actors : OnThread(a) => op[a].copy.sid = thread[op[a].thread].sid

\* The part that makes admission correct; inductive by itself.
AdmissionInv ==
  /\ TypeOK /\ FileInv
  /\ \A a \in Actors : ActorInv(a)
  /\ OneInProgressPerThread /\ OneInFlightPerKey

\* The whole invariant.
IInv == AdmissionInv /\ LiveInv /\ AnswerInv /\ CopyInv /\ WorkerGoneIsHonest

-----------------------------------------------------------------------------
(***************************************************************************)
(* The order of the locks                                                  *)
(***************************************************************************)
\* The call of an actor admits to a thread, or publishes a turn of it.
WorksOn(a, th) == \/ OnThread(a) /\ op[a].thread = th
                  \/ pc[a] = "clear" /\ turn[op[a].pub].thread = th

\* A lock that is taken belongs to a call that will drop it: a thread lock to
\* one that works on the thread, the admission lock to one that admits.
HolderInv ==
  /\ \A th \in Threads, a \in Actors : threadLock[th] = a => WorksOn(a, th)
  /\ \A a \in Actors : admitLock = a => Admitting(a)

\* The threads whose locks a call may be waiting for.
Wants(a) ==
  CASE pc[a] = "index" -> {turn[t].thread : t \in {client[op[a].key]} \ {None}}
    [] pc[a] = "dedup" -> {turn[t].thread : t \in {u \in Admitted \ op[a].seen :
                                                     turn[u].key = op[a].key}}
    [] pc[a] = "lockThread" -> {op[a].thread}
    [] pc[a] = "list" -> {turn[t].thread : t \in {u \in Admitted \ op[a].seen :
                                                    InProgress(u)}}
    [] pc[a] \in {"respond", "await", "gate", "ungate"} -> {turn[op[a].turn].thread}
    [] OTHER -> {}

\* Locks are taken in one order, admission before thread, and only within a
\* call: a call that waits for the lock of a thread has no thread's lock, its
\* own included, one that begins has no lock at all, and a call that is not an
\* admission never has the admission lock.  So no calls wait for each other in a
\* circle.
LocksAreOrdered ==
  \A a \in Actors :
    /\ \A th \in Threads : threadLock[th] = a => Wants(a) = {} /\ pc[a] # "idle"
    /\ admitLock = a => Admitting(a)
=============================================================================
