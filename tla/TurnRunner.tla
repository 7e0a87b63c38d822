----------------------------- MODULE TurnRunner -----------------------------
(***************************************************************************)
(* run_turn (crates/adapter-grok/src/turn.rs), the teardown of ACP         *)
(* children (teardown.rs) and cancel_turn (crates/gamchi/src/ops.rs): who  *)
(* spawns a child for a turn, who kills it, and what the turn becomes when *)
(* cancels, observers, shutdowns and the agent itself race with it.        *)
(*                                                                         *)
(* A runner is one call of run_turn on a thread of a host process.  It     *)
(* spawns at most one child and admits at most one turn, so both carry the *)
(* runner's name.  The ledger's operations are atomic here, as module      *)
(* Ledger shows they look to their callers.                                *)
(***************************************************************************)
EXTENDS Naturals, FiniteSets

CONSTANTS Hosts,       \* gamchi processes
          Runners,     \* calls of run_turn
          Cancellers,  \* callers of cancel_turn, in any process
          HostOf,      \* the process of a runner
          KeyOf,       \* its client_request_id, or None
          MaxLive,     \* slots of LIVE_PIDS
          SlowSpawns,  \* whether a spawn may outlast the hard deadline
          Answers,     \* what the stop reasons of an agent map to
          Failing,     \* runners whose reads and writes of the ledger may fail
          Lockless,    \* runners that cannot lock the live file of their turn
          None

ASSUME HostsAssumption == HostOf \in [Runners -> Hosts]
ASSUME RunnerNoneAssumption == None \notin Runners
ASSUME MaxLiveAssumption == MaxLive \in Nat
ASSUME SlowSpawnsAssumption == SlowSpawns \in BOOLEAN
ASSUME AnswersAssumption == Answers \subseteq {"completed", "interrupted", "failed"}
ASSUME FailingAssumption == Failing \subseteq Runners /\ Lockless \subseteq Runners

VARIABLES status,    \* of the turn, as persisted
          failure,   \* its failure reason
          rec,       \* generation.child_pid
          eof,       \* generation.child_eof
          pc, job,   \* where a runner is and the turn it drives
          stop,      \* what the ACP connection of a runner ended with
          life,      \* of a runner's child
          self,      \* history: children that ended of their own accord
                     \* while their turn was in progress
          unpublished,  \* history: runners whose publish_stop failed
          exit,      \* where a host is in its exit
          sweep,     \* child taken out of the table and not yet killed
          how,       \* why a host exits
          table,     \* LIVE_PIDS
          handler,   \* hosts whose signal handler runs
          opened,    \* spawns under way when the handler began
          cpc, cjob  \* where a canceller is and the turn it cancels

turnVars   == <<status, failure, rec, eof>>
runVars    == <<pc, job, stop>>
childVars  == <<life, self, unpublished>>
exitVars   == <<exit, sweep, how>>
signalVars == <<handler, opened>>
hostVars   == <<exitVars, table, signalVars>>
cancelVars == <<cpc, cjob>>
vars == <<status, failure, rec, eof, pc, job, stop, life, self, unpublished,
          exit, sweep, how, table, handler, opened, cpc, cjob>>

Statuses == {"absent", "inProgress", "completed", "interrupted", "failed"}
Failures == {"", "worker_gone", "reported"}
Labels == {"start", "admitted", "gated", "spawn", "track", "record", "recheck",
           "drive", "publish", "leave", "reap", "markEof", "finish", "done"}

TypeOK ==
  /\ status \in [Runners -> Statuses]
  /\ failure \in [Runners -> Failures]
  /\ rec \in [Runners -> Runners \cup {None}]
  /\ eof \in [Runners -> BOOLEAN]
  /\ pc \in [Runners -> Labels]
  /\ job \in [Runners -> Runners \cup {None}]
  /\ stop \in [Runners -> {"", "completed", "interrupted", "failed", "error"}]
  /\ life \in [Runners -> {"unborn", "alive", "dead"}]
  /\ self \subseteq Runners /\ unpublished \subseteq Runners
  /\ exit \in [Hosts -> {"up", "sweeping", "lastSweep", "exited"}]
  /\ sweep \in [Hosts -> Runners \cup {None}]
  /\ how \in [Hosts -> {"", "eof", "signal", "kill"}]
  /\ table \in [Hosts -> SUBSET Runners]
  /\ handler \in [Hosts -> BOOLEAN]
  /\ opened \subseteq Runners
  /\ cpc \in [Cancellers -> {"idle", "teardown"}]
  /\ cjob \in [Cancellers -> Runners \cup {None}]

Init ==
  /\ status = [r \in Runners |-> "absent"]
  /\ failure = [r \in Runners |-> ""]
  /\ rec = [r \in Runners |-> None]
  /\ eof = [r \in Runners |-> FALSE]
  /\ pc = [r \in Runners |-> "start"]
  /\ job = [r \in Runners |-> None]
  /\ stop = [r \in Runners |-> ""]
  /\ life = [r \in Runners |-> "unborn"]
  /\ self = {} /\ unpublished = {}
  /\ exit = [h \in Hosts |-> "up"]
  /\ sweep = [h \in Hosts |-> None]
  /\ how = [h \in Hosts |-> ""]
  /\ table = [h \in Hosts |-> {}]
  /\ handler = [h \in Hosts |-> FALSE]
  /\ opened = {}
  /\ cpc = [c \in Cancellers |-> "idle"]
  /\ cjob = [c \in Cancellers |-> None]

-----------------------------------------------------------------------------
Host(r) == HostOf[r]
Up(r) == exit[Host(r)] # "exited"
InProgress(t) == status[t] = "inProgress"
Terminal(t) == status[t] \in {"completed", "interrupted", "failed"}

\* SHUTTING_DOWN, raised by parent_exit_teardown and by the signal handler.
ShuttingDown(r) == exit[Host(r)] # "up" \/ handler[Host(r)]

\* The instance that holds the live file is dropped when run_turn returns.
OwnerAlive(t) == Up(t) /\ pc[t] # "done"

ChildIsDead(t) == eof[t] \/ (rec[t] # None /\ life[rec[t]] # "alive")

\* Observers run in any process: one that does not own the turn sees a hold
\* without its lock as none.
GenerationIsDead(t) == ~OwnerAlive(t) \/ t \in Lockless \/ ChildIsDead(t)

\* An observer that cannot try the lock goes by the process of the owner.
SeenLive(t) == InProgress(t) /\ Up(t) /\ ~ChildIsDead(t)

Goto(r, label) == pc' = [pc EXCEPT ![r] = label]

\* publish_terminal on a turn that may be terminal already: the first wins.
Publish(t, s) ==
  IF InProgress(t)
  THEN /\ status' = [status EXCEPT ![t] = s]
       /\ failure' = [failure EXCEPT ![t] = IF s = "failed" THEN "reported" ELSE ""]
  ELSE UNCHANGED <<status, failure>>

\* A caller of publish_terminal that drops its error: the write may fail.
TryPublish(r, s) ==
  \/ Publish(job[r], s)
  \/ r \in Failing /\ UNCHANGED <<status, failure>>

Kill(c) == life' = [life EXCEPT ![c] = IF @ = "alive" THEN "dead" ELSE @]

\* Mutant: the gate is dropped before the child is registered.
SpawnsOpenUntilSpawn(h) ==
  {r \in Runners : HostOf[r] = h /\ pc[r] \in {"gated", "spawn"}}

\* SPAWNS_OPEN: the runners of a host that hold the spawn gate.
SpawnsOpen(h) ==
  {r \in Runners : HostOf[r] = h /\ pc[r] \in {"gated", "spawn", "track"}}

-----------------------------------------------------------------------------
(***************************************************************************)
(* run_turn                                                                *)
(***************************************************************************)
\* admit_turn: a live turn in flight with the same key is returned and this
\* call goes on to drive it; a dead one is observed (Observe) and is over.
\* Otherwise a turn is admitted.
Admit(r) ==
  LET inFlight == {t \in Runners : /\ KeyOf[r] # None /\ KeyOf[t] = KeyOf[r]
                                   /\ InProgress(t)}
  IN /\ pc[r] = "start" /\ Up(r)
     /\ Goto(r, "admitted")
     /\ \/ /\ inFlight = {}
           /\ job' = [job EXCEPT ![r] = r]
           /\ status' = [status EXCEPT ![r] = "inProgress"]
        \/ /\ \E t \in inFlight : SeenLive(t) /\ job' = [job EXCEPT ![r] = t]
           /\ UNCHANGED status
     /\ UNCHANGED <<failure, rec, eof, stop, childVars, hostVars, cancelVars>>

\* A turn that is terminal already is returned.  Otherwise the user's item is
\* stored and the spawn gate is entered.
BeginAcpSpawn(r) ==
  /\ pc[r] = "admitted" /\ Up(r)
  /\ Goto(r, IF Terminal(job[r]) THEN "done" ELSE "gated")
  /\ UNCHANGED <<turnVars, job, stop, childVars, hostVars, cancelVars>>

\* The turn cannot be read or the item cannot be stored.
BeginFails(r) ==
  /\ pc[r] = "admitted" /\ Up(r) /\ r \in Failing
  /\ TryPublish(r, "failed")
  /\ Goto(r, "done")
  /\ UNCHANGED <<rec, eof, job, stop, childVars, hostVars, cancelVars>>

\* A host that is shutting down refuses new children.
CheckShutdown(r) ==
  /\ pc[r] = "gated" /\ Up(r)
  /\ Goto(r, IF ShuttingDown(r) THEN "done" ELSE "spawn")
  /\ UNCHANGED <<turnVars, job, stop, childVars, hostVars, cancelVars>>

Spawn(r) ==
  /\ pc[r] = "spawn" /\ Up(r)
  /\ life' = [life EXCEPT ![r] = "alive"]
  /\ Goto(r, "track")
  /\ UNCHANGED <<turnVars, job, stop, self, unpublished, hostVars, cancelVars>>

SpawnFails(r) ==
  /\ pc[r] = "spawn" /\ Up(r)
  /\ TryPublish(r, "failed")
  /\ Goto(r, "done")
  /\ UNCHANGED <<rec, eof, job, stop, childVars, hostVars, cancelVars>>

\* Mutant: the pid of the host is registered.
TrackHost(r) ==
  /\ pc[r] = "track" /\ Up(r)
  /\ table' = [table EXCEPT ![Host(r)] = @ \cup {Host(r)}]
  /\ Goto(r, "record")
  /\ UNCHANGED <<turnVars, job, stop, childVars, exitVars, signalVars,
                 cancelVars>>

\* track_child registers the child and the gate is dropped; with a full table
\* the child is torn down and the turn fails.
TrackChild(r) ==
  /\ pc[r] = "track" /\ Up(r)
  /\ \/ /\ Cardinality(table[Host(r)]) < MaxLive
        /\ table' = [table EXCEPT ![Host(r)] = @ \cup {r}]
        /\ Goto(r, "record")
        /\ UNCHANGED <<status, failure, life>>
     \/ /\ Cardinality(table[Host(r)]) >= MaxLive
        /\ Kill(r)
        /\ TryPublish(r, "failed")
        /\ Goto(r, "done")
        /\ UNCHANGED table
  /\ UNCHANGED <<rec, eof, job, stop, self, unpublished, exitVars,
                 signalVars, cancelVars>>

SetChildPid(r) ==
  /\ pc[r] = "record" /\ Up(r)
  /\ rec' = [rec EXCEPT ![job[r]] = r]
  /\ eof' = [eof EXCEPT ![job[r]] = FALSE]
  /\ Goto(r, "recheck")
  /\ UNCHANGED <<status, failure, job, stop, childVars, hostVars, cancelVars>>

\* The generation cannot be written: the turn fails and the child is reaped.
SetChildPidFails(r) ==
  /\ pc[r] = "record" /\ Up(r) /\ r \in Failing
  /\ TryPublish(r, "failed")
  /\ Goto(r, "leave")
  /\ UNCHANGED <<rec, eof, job, stop, childVars, hostVars, cancelVars>>

\* Mutant: a cancel that came before the child was recorded goes unseen.
RecheckShutdownOnly(r) ==
  /\ pc[r] = "recheck" /\ Up(r)
  /\ Goto(r, IF ShuttingDown(r) THEN "leave" ELSE "drive")
  /\ UNCHANGED <<turnVars, job, stop, childVars, hostVars, cancelVars>>

\* Mutant: the call returns and the child is left alone.
RecheckWithoutReap(r) ==
  /\ pc[r] = "recheck" /\ Up(r)
  /\ Goto(r, IF Terminal(job[r]) \/ ShuttingDown(r) THEN "done" ELSE "drive")
  /\ UNCHANGED <<turnVars, job, stop, childVars, hostVars, cancelVars>>

\* The turn may have ended and the host may be going down since the spawn, or
\* the turn cannot be read: the call returns and the guard reaps the child.
Recheck(r) ==
  /\ pc[r] = "recheck" /\ Up(r)
  /\ \/ /\ Terminal(job[r]) \/ ShuttingDown(r) \/ r \in Failing
        /\ Goto(r, "leave")
     \/ ~Terminal(job[r]) /\ ~ShuttingDown(r) /\ Goto(r, "drive")
  /\ UNCHANGED <<turnVars, job, stop, childVars, hostVars, cancelVars>>

\* The agent answers session/prompt.
Answer(r) ==
  /\ pc[r] = "drive" /\ Up(r)
  /\ \E s \in Answers : stop' = [stop EXCEPT ![r] = s]
  /\ Goto(r, "publish")
  /\ UNCHANGED <<turnVars, job, childVars, hostVars, cancelVars>>

\* Mutant: the stop is published only after the child has been reaped.
StopUnpublished(r) ==
  /\ pc[r] = "publish" /\ Up(r)
  /\ Goto(r, "reap")
  /\ UNCHANGED <<turnVars, job, stop, childVars, hostVars, cancelVars>>

\* The stop is published while the connection and the child are still open.
\* An error of the write is dropped: finish_turn comes back to it.
PublishStop(r) ==
  /\ pc[r] = "publish" /\ Up(r)
  /\ \/ Publish(job[r], stop[r]) /\ UNCHANGED unpublished
     \/ /\ r \in Failing /\ unpublished' = unpublished \cup {r}
        /\ UNCHANGED <<status, failure>>
  /\ Goto(r, "reap")
  /\ UNCHANGED <<rec, eof, job, stop, life, self, hostVars, cancelVars>>

\* initialize, session/load, session/new or session/prompt fails, as all of
\* them do once the child is dead.  Some failures are published at once.
ConnectionError(r) ==
  /\ pc[r] = "drive" /\ Up(r)
  /\ stop' = [stop EXCEPT ![r] = "error"]
  /\ \/ life[r] = "alive" /\ Publish(job[r], "failed")
     \/ UNCHANGED <<status, failure>>
  /\ Goto(r, "reap")
  /\ UNCHANGED <<rec, eof, job, childVars, hostVars, cancelVars>>

\* drop(_reap): the process group is torn down and the slot is freed.
Reap(r) ==
  /\ pc[r] \in {"leave", "reap"} /\ Up(r)
  /\ Kill(r)
  /\ table' = [table EXCEPT ![Host(r)] = @ \ {r}]
  /\ Goto(r, IF pc[r] = "leave" THEN "done" ELSE "markEof")
  /\ UNCHANGED <<turnVars, job, stop, self, unpublished, exitVars, signalVars,
                 cancelVars>>

\* The generation is marked, if it can be written.
MarkChildEof(r) ==
  /\ pc[r] = "markEof" /\ Up(r)
  /\ \/ eof' = [eof EXCEPT ![job[r]] = TRUE]
     \/ r \in Failing /\ UNCHANGED eof
  /\ Goto(r, "finish")
  /\ UNCHANGED <<status, failure, rec, job, stop, childVars, hostVars,
                 cancelVars>>

\* finish_turn publishes the stop if nothing was published before; an error
\* of the connection is published as a failure.  Neither may succeed.
Finish(r) ==
  /\ pc[r] = "finish" /\ Up(r)
  /\ TryPublish(r, IF stop[r] = "error" THEN "failed" ELSE stop[r])
  /\ Goto(r, "done")
  /\ UNCHANGED <<rec, eof, job, stop, childVars, hostVars, cancelVars>>

-----------------------------------------------------------------------------
(***************************************************************************)
(* Observers, cancel_turn and the agent                                    *)
(***************************************************************************)
Observe(t) ==
  /\ InProgress(t) /\ GenerationIsDead(t)
  /\ status' = [status EXCEPT ![t] = "failed"]
  /\ failure' = [failure EXCEPT ![t] = "worker_gone"]
  /\ UNCHANGED <<rec, eof, runVars, childVars, hostVars, cancelVars>>

\* ledger.cancel: a dead generation converges, a live one is interrupted; an
\* interrupted turn, whoever made it so, goes on to the teardown.
Cancel(c, t) ==
  /\ cpc[c] = "idle" /\ status[t] \in {"inProgress", "interrupted"}
  /\ \/ /\ InProgress(t) /\ GenerationIsDead(t)
        /\ status' = [status EXCEPT ![t] = "failed"]
        /\ failure' = [failure EXCEPT ![t] = "worker_gone"]
        /\ UNCHANGED cancelVars
     \/ /\ SeenLive(t) \/ status[t] = "interrupted"
        /\ status' = [status EXCEPT ![t] = "interrupted"]
        /\ cpc' = [cpc EXCEPT ![c] = "teardown"]
        /\ cjob' = [cjob EXCEPT ![c] = t]
        /\ UNCHANGED failure
  /\ UNCHANGED <<rec, eof, runVars, childVars, hostVars>>

\* The recorded child, if it is alive, is torn down.
CancelTeardown(c) ==
  /\ cpc[c] = "teardown"
  /\ IF rec[cjob[c]] # None THEN Kill(rec[cjob[c]]) ELSE UNCHANGED life
  /\ cpc' = [cpc EXCEPT ![c] = "idle"]
  /\ cjob' = [cjob EXCEPT ![c] = None]
  /\ UNCHANGED <<turnVars, runVars, self, unpublished, hostVars>>

\* External: the agent process ends of its own accord.
ChildDies(r) ==
  /\ life[r] = "alive"
  /\ life' = [life EXCEPT ![r] = "dead"]
  /\ self' = IF InProgress(job[r]) THEN self \cup {r} ELSE self
  /\ UNCHANGED <<turnVars, runVars, unpublished, hostVars, cancelVars>>

-----------------------------------------------------------------------------
(***************************************************************************)
(* The end of a host                                                       *)
(***************************************************************************)
\* MCP stdin EOF: parent_exit_teardown raises the flag and begins to sweep.
StdinEof(h) ==
  /\ exit[h] = "up"
  /\ exit' = [exit EXCEPT ![h] = "sweeping"]
  /\ how' = [how EXCEPT ![h] = "eof"]
  /\ UNCHANGED <<turnVars, runVars, childVars, sweep, table, signalVars, cancelVars>>

\* The process is gone, and its table and its signal handler with it.
Gone(h, why) ==
  /\ exit' = [exit EXCEPT ![h] = "exited"]
  /\ how' = [how EXCEPT ![h] = why]
  /\ handler' = [handler EXCEPT ![h] = FALSE]
  /\ opened' = {r \in opened : Host(r) = h => why = "signal" /\ life[r] = "alive"}
  /\ table' = [table EXCEPT ![h] = {}]
  /\ UNCHANGED <<turnVars, runVars, childVars, sweep, cancelVars>>

\* teardown_registered_children empties a slot, then kills what was in it.
SweepSlot(h) ==
  /\ exit[h] \in {"sweeping", "lastSweep"} /\ sweep[h] = None
  /\ \E r \in table[h] : /\ sweep' = [sweep EXCEPT ![h] = r]
                         /\ table' = [table EXCEPT ![h] = @ \ {r}]
  /\ UNCHANGED <<turnVars, runVars, childVars, exit, how, signalVars, cancelVars>>

SweepKill(h) ==
  /\ sweep[h] # None /\ exit[h] # "exited"
  /\ Kill(sweep[h])
  /\ sweep' = [sweep EXCEPT ![h] = None]
  /\ UNCHANGED <<turnVars, runVars, self, unpublished, exit, how, table, signalVars,
                 cancelVars>>

\* A round found no open spawn, or the hard deadline has passed.
EndSweep(h) ==
  /\ exit[h] = "sweeping" /\ sweep[h] = None
  /\ SpawnsOpen(h) = {} \/ SlowSpawns
  /\ exit' = [exit EXCEPT ![h] = "lastSweep"]
  /\ UNCHANGED <<turnVars, runVars, childVars, sweep, how, table, signalVars,
                 cancelVars>>

\* After the last sweep the process exits and its runners with it.  Only a
\* spawn that outlasts the deadline can register behind the last sweep.
ExitHost(h) ==
  /\ exit[h] = "lastSweep" /\ sweep[h] = None
  /\ table[h] = {} \/ SlowSpawns
  /\ Gone(h, "eof")

\* SIGINT or SIGTERM: the handler raises the flag and begins to walk the slots
\* of the table.  The other threads of the process run on.
Signal(h) ==
  /\ exit[h] # "exited" /\ ~handler[h]
  /\ handler' = [handler EXCEPT ![h] = TRUE]
  /\ opened' = opened \cup {r \in Runners : Host(r) = h /\ pc[r] \in {"spawn", "track"}}
  /\ UNCHANGED <<turnVars, runVars, childVars, exitVars, table, cancelVars>>

\* It comes to a slot: of a child that was there when it began, or of one that
\* has been registered in a slot not yet passed.
SignalSlot(h) ==
  /\ handler[h] /\ exit[h] # "exited"
  /\ \E r \in table[h] : Kill(r)
  /\ UNCHANGED <<turnVars, runVars, self, unpublished, hostVars, cancelVars>>

\* Mutant: a signal ends the process as it does by default.
SignalExitsAtOnce(h) ==
  /\ handler[h] /\ exit[h] # "exited"
  /\ Gone(h, "signal")

\* Past the last slot: _exit.  What stood in a slot when the handler began has
\* been killed; a spawn that was under way then may have taken a slot that the
\* handler had passed, and the flag keeps others from taking one.
SignalExit(h) ==
  /\ handler[h] /\ exit[h] # "exited"
  /\ \A r \in table[h] \ opened : life[r] # "alive"
  /\ Gone(h, "signal")

\* SIGKILL or a crash.
KillHost(h) ==
  /\ exit[h] # "exited"
  /\ Gone(h, "kill")

-----------------------------------------------------------------------------
\* The code of run_turn; Answer and ConnectionError wait for the agent.
RunnerStep(r) ==
  \/ BeginAcpSpawn(r) \/ BeginFails(r) \/ CheckShutdown(r) \/ Spawn(r)
  \/ SpawnFails(r) \/ TrackChild(r) \/ SetChildPid(r) \/ SetChildPidFails(r)
  \/ Recheck(r) \/ PublishStop(r) \/ Reap(r) \/ MarkChildEof(r) \/ Finish(r)

HostStep(h) == SweepSlot(h) \/ SweepKill(h) \/ EndSweep(h) \/ ExitHost(h)

SignalStep(h) == SignalSlot(h) \/ SignalExit(h)

Next ==
  \/ \E r \in Runners : \/ Admit(r) \/ RunnerStep(r) \/ Answer(r)
                        \/ ConnectionError(r) \/ Observe(r) \/ ChildDies(r)
  \/ \E c \in Cancellers : \/ CancelTeardown(c)
                           \/ \E t \in Runners : Cancel(c, t)
  \/ \E h \in Hosts : \/ HostStep(h) \/ SignalStep(h) \/ StdinEof(h)
                      \/ Signal(h) \/ KillHost(h)

Spec == Init /\ [][Next]_vars

\* Threads run, a closed connection is noticed, a cancel that has begun goes
\* on and an exit that has begun is completed.  The agent owes nothing: it may
\* never answer a prompt.
FairSpec ==
  /\ Spec
  /\ \A r \in Runners :
       WF_vars(RunnerStep(r) \/ (life[r] = "dead" /\ ConnectionError(r)))
  /\ \A c \in Cancellers : WF_vars(CancelTeardown(c))
  /\ \A h \in Hosts : WF_vars(HostStep(h)) /\ WF_vars(SignalStep(h))

-----------------------------------------------------------------------------
\* Every return of run_turn after the spawn has torn its child down: a table
\* with no free slot, a cancel seen after the spawn, a shutdown, a failed
\* session, the normal end.
DoneLeavesNoChild ==
  \A r \in Runners : pc[r] = "done" => life[r] # "alive"

\* "Graceful parent exit (MCP stdin EOF ...) tears down the Grok process
\* group.  The child is gone": also a child that was being spawned when the
\* exit began.
EofLeavesNoChild ==
  \A r \in Runners :
    exit[Host(r)] = "exited" /\ how[Host(r)] = "eof" => life[r] # "alive"

\* Why: a living child belongs to a runner that will reap it, stands in the
\* table of its host (or in the hands of a sweep) as soon as it is tracked, a
\* host whose signal handler runs starts no spawn, and a host at its last sweep
\* has none under way.
Owning == {"track", "record", "recheck", "drive", "publish", "leave", "reap"}

JobInv ==
  /\ \A r \in Runners : /\ pc[r] # "start" => job[r] \in Runners
                        /\ pc[r] \in {"publish", "reap", "markEof", "finish"} => stop[r] # ""
                        /\ pc[r] = "publish" => stop[r] # "error"
  /\ \A c \in Cancellers : cpc[c] = "teardown" => cjob[c] \in Runners

Reapable(r) ==
  /\ Up(r) => how[Host(r)] # "signal"
  /\ handler[Host(r)] =>
       Up(r) /\ (pc[r] \in {"spawn", "track"} => r \in opened)
  /\ life[r] = "alive" =>
       /\ pc[r] \in Owning
       /\ Up(r) /\ pc[r] # "track" =>
            r \in table[Host(r)] \/ sweep[Host(r)] = r
       /\ exit[Host(r)] = "exited" /\ how[Host(r)] = "signal" =>
            r \in opened \/ sweep[Host(r)] = r
       /\ ~SlowSpawns =>
            /\ exit[Host(r)] = "lastSweep" => pc[r] # "track"
            /\ exit[Host(r)] = "exited" => how[Host(r)] # "eof"
  /\ ~SlowSpawns /\ exit[Host(r)] = "lastSweep" => pc[r] # "spawn"

ReapInv == \A r \in Runners : Reapable(r)

\* No other call of run_turn was given the turn of r.
Sole(r) == \A q \in Runners : q # r => job[q] # r

\* turn.rs: "Publish while the ACP connection (and child) is still open": a
\* turn whose agent has answered is never recorded as worker_gone while its
\* host stays up, whoever cancels or observes it.  The code leaves three ways
\* open, which are excepted: the agent ends by itself before its answer is
\* recorded, the write of publish_stop fails and the one of finish_turn comes
\* after the child's end, or the turn is held live without the lock.
AnsweredIsNotWorkerGone ==
  \A r \in Runners :
    /\ job[r] = r /\ stop[r] \in Answers
    /\ ~ShuttingDown(r) /\ Sole(r)
    /\ r \notin self /\ r \notin unpublished /\ r \notin Lockless
    => failure[r] # "worker_gone"

\* grok_cancel "tears down the Grok process group and the turn becomes
\* interrupted": an interrupted turn of a host that stays up has no living
\* child in the end, even if the cancel fell between spawn and set_child_pid.
\* (A second run of the turn overwrites the pid cancel_turn would kill.)
CancelKillsChild ==
  <>[](\A r \in Runners :
         job[r] = r /\ status[r] = "interrupted" /\ Sole(r)
           => life[r] # "alive" \/ exit[Host(r)] = "exited")

\* mcp-async-host-contract.md: "Do not spawn again ... duplicate in-flight
\* keys return the existing ids": a turn is driven by one child at a time.
OneChildPerTurn ==
  \A r, s \in Runners :
    /\ job[r] = job[s] /\ life[r] = "alive" /\ life[s] = "alive"
    => r = s

\* mcp-async-host-contract.md: "Graceful parent exit (MCP stdin EOF,
\* SIGINT/SIGTERM) tears down the Grok process group": what a signal can leave
\* alive is a child whose runner had passed the shutdown test and not yet put it
\* into the table when the handler began (its slot may be one the handler has
\* passed), or the one that a sweep has just taken out of the table; no spawn
\* begins under the handler.
SignalKillsTracked ==
  \A r \in Runners :
    /\ handler[Host(r)] /\ pc[r] \in {"spawn", "track"} => r \in opened
    /\ exit[Host(r)] = "exited" /\ how[Host(r)] = "signal" /\ life[r] = "alive"
         => r \in opened \/ sweep[Host(r)] = r
=============================================================================
