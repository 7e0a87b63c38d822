-------------------------- MODULE TurnRunnerProofs --------------------------
(***************************************************************************)
(* Proofs about module TurnRunner for any number of hosts, runners and     *)
(* cancellers and any size of the table of live children.                  *)
(***************************************************************************)
EXTENDS TurnRunner, TLAPS

RunInv == TypeOK /\ JobInv /\ ReapInv

USE DEF turnVars, runVars, childVars, exitVars, signalVars, hostVars, cancelVars

\* A fresh host satisfies the invariant.
LEMMA InitRun == Init => RunInv
<1> SUFFICES ASSUME Init PROVE RunInv
  OBVIOUS
<1>1. TypeOK
  BY DEF Init, TypeOK, Statuses, Failures, Labels
<1>2. JobInv /\ ReapInv
  BY HostsAssumption DEF Init, JobInv, ReapInv, Reapable, Up, Host
<1> QED BY <1>1, <1>2 DEF RunInv

\* publish_terminal keeps the types.
LEMMA PublishType ==
  ASSUME TypeOK, NEW t \in Runners,
         NEW s \in {"completed", "interrupted", "failed"}, Publish(t, s)
  PROVE  status' \in [Runners -> Statuses] /\ failure' \in [Runners -> Failures]
<1>1. status' \in [Runners -> Statuses]
  BY DEF Publish, TypeOK, Statuses
<1>2. failure' \in [Runners -> Failures]
  BY DEF Publish, TypeOK, Failures
<1> QED BY <1>1, <1>2

\* A jump to a label keeps pc well-typed and moves nobody else.
LEMMA GotoType ==
  ASSUME TypeOK, NEW r \in Runners, NEW l \in Labels, Goto(r, l)
  PROVE  /\ pc' \in [Runners -> Labels] /\ pc'[r] = l
         /\ \A q \in Runners \ {r} : pc'[q] = pc[q]
BY DEF Goto, TypeOK

\* A kill leaves its child dead or unborn and no other child changed.
LEMMA KillType ==
  ASSUME TypeOK, NEW c \in Runners, Kill(c)
  PROVE  /\ life' \in [Runners -> {"unborn", "alive", "dead"}] /\ life'[c] # "alive"
         /\ \A q \in Runners \ {c} : life'[q] = life[q]
BY DEF Kill, TypeOK

\* A process that is gone keeps the types.
LEMMA GoneType ==
  ASSUME TypeOK, NEW h \in Hosts, NEW why \in {"eof", "signal", "kill"}, Gone(h, why)
  PROVE  TypeOK'
<1>1. opened' \subseteq Runners /\ table' \in [Hosts -> SUBSET Runners]
  BY DEF Gone, TypeOK
<1> QED BY <1>1 DEF Gone, TypeOK

-----------------------------------------------------------------------------
\* A child stays reapable while its runner stands still, no child comes to
\* life and it is not taken off the table.
LEMMA OthersReapable ==
  ASSUME RunInv, UNCHANGED <<exit, how, sweep, handler, opened>>, NEW q \in Runners,
         pc'[q] = pc[q], life'[q] = "alive" => life[q] = "alive",
         q \in table[Host(q)] => q \in table'[Host(q)]
  PROVE  Reapable(q)'
BY DEF RunInv, ReapInv, Reapable, Up, Host

\* A step of runner r.
LEMMA RunnerReaps ==
  ASSUME RunInv, UNCHANGED <<exit, how, sweep, handler, opened>>, NEW r \in Runners,
         Reapable(r)',
         \A q \in Runners \ {r} :
           /\ pc'[q] = pc[q]
           /\ life'[q] = "alive" => life[q] = "alive"
           /\ q \in table[Host(q)] => q \in table'[Host(q)]
  PROVE  ReapInv'
BY OthersReapable DEF ReapInv

\* A step of runner r that spawns nothing and keeps the table: where the child
\* has to be owned, it still is.
LEMMA MoveReaps ==
  ASSUME RunInv, UNCHANGED <<exit, how, sweep, handler, opened, table, life>>,
         NEW r \in Runners, NEW l \in Labels \ {"track"}, Goto(r, l),
         life[r] = "alive" => l \in Owning /\ pc[r] # "track",
         l = "spawn" => ~ShuttingDown(r)
  PROVE  ReapInv'
<1>1. pc'[r] = l /\ \A q \in Runners \ {r} : pc'[q] = pc[q]
  BY GotoType DEF RunInv
<1>2. Reapable(r)'
  BY <1>1 DEF RunInv, ReapInv, Reapable, Up, Host, ShuttingDown
<1> QED BY <1>1, <1>2, RunnerReaps

\* A process that is gone has left what its way of going allows.
LEMMA GoneReaps ==
  ASSUME RunInv, NEW h \in Hosts, NEW why \in {"eof", "signal", "kill"}, Gone(h, why),
         \A r \in Runners : Host(r) = h /\ life[r] = "alive" =>
           /\ why = "signal" => r \in opened \/ sweep[h] = r
           /\ why = "eof" => SlowSpawns
  PROVE  ReapInv'
<1> SUFFICES ASSUME NEW q \in Runners PROVE Reapable(q)'
  BY DEF ReapInv
<1>1. Reapable(q) /\ Host(q) \in Hosts
  BY HostsAssumption DEF RunInv, ReapInv, Host
<1>2. /\ exit \in [Hosts -> {"up", "sweeping", "lastSweep", "exited"}]
      /\ how \in [Hosts -> {"", "eof", "signal", "kill"}]
      /\ handler \in [Hosts -> BOOLEAN] /\ table \in [Hosts -> SUBSET Runners]
  BY DEF RunInv, TypeOK
<1>3. UNCHANGED <<pc, life, sweep>>
  BY DEF Gone
<1>4. CASE Host(q) = h
  <2>1. exit'[h] = "exited" /\ how'[h] = why /\ ~handler'[h]
    BY <1>2 DEF Gone
  <2>2. why = "signal" /\ life[q] = "alive" /\ q \in opened => q \in opened'
    BY DEF Gone
  <2> QED BY <1>1, <1>3, <1>4, <2>1, <2>2 DEF Reapable, Up, Host
<1>5. CASE Host(q) # h
  <2>1. /\ exit'[Host(q)] = exit[Host(q)] /\ how'[Host(q)] = how[Host(q)]
        /\ handler'[Host(q)] = handler[Host(q)] /\ table'[Host(q)] = table[Host(q)]
    BY <1>1, <1>2, <1>5 DEF Gone
  <2>2. q \in opened => q \in opened'
    BY <1>5 DEF Gone
  <2> QED BY <1>1, <1>3, <2>1, <2>2 DEF Reapable, Up, Host
<1> QED BY <1>4, <1>5
-----------------------------------------------------------------------------
\* Every step keeps the types.
LEMMA TypeKeeps ==
  RunInv /\ [Next]_vars => TypeOK'
<1> SUFFICES ASSUME RunInv, [Next]_vars PROVE TypeOK'
  OBVIOUS
<1> USE HostsAssumption, RunnerNoneAssumption DEF RunInv
<1>1. CASE UNCHANGED vars
  BY <1>1 DEF vars, TypeOK, JobInv, ReapInv, Reapable, Up, Host
<1>2. ASSUME NEW r \in Runners, Admit(r) PROVE TypeOK'
  <2>1. pc' \in [Runners -> Labels]
    BY <1>2, GotoType DEF Admit, Labels
  <2>2. job' \in [Runners -> Runners \cup {None}]
    <3>1. \E t \in Runners : job' = [job EXCEPT ![r] = t]
      BY <1>2 DEF Admit
    <3> QED BY <3>1 DEF TypeOK
  <2>3. status' \in [Runners -> Statuses]
    <3>1. UNCHANGED status \/ status' = [status EXCEPT ![r] = "inProgress"]
      BY <1>2 DEF Admit
    <3> QED BY <3>1 DEF TypeOK, Statuses
  <2> QED BY <2>3, <1>2, <2>1, <2>2 DEF Admit, TypeOK
<1>3. ASSUME NEW r \in Runners, BeginAcpSpawn(r) PROVE TypeOK'
  BY <1>3, PublishType DEF BeginAcpSpawn, TypeOK, JobInv, Goto, Kill, Labels,
    Statuses, Failures, Host, ShuttingDown
<1>4. ASSUME NEW r \in Runners, BeginFails(r) PROVE TypeOK'
  BY <1>4, PublishType DEF BeginFails, TryPublish, TypeOK, JobInv, Goto, Kill, Labels,
    Statuses, Failures, Host, ShuttingDown
<1>5. ASSUME NEW r \in Runners, CheckShutdown(r) PROVE TypeOK'
  BY <1>5, PublishType DEF CheckShutdown, TypeOK, JobInv, Goto, Kill, Labels,
    Statuses, Failures, Host, ShuttingDown
<1>6. ASSUME NEW r \in Runners, Spawn(r) PROVE TypeOK'
  BY <1>6, PublishType DEF Spawn, TypeOK, JobInv, Goto, Kill, Labels,
    Statuses, Failures, Host, ShuttingDown
<1>7. ASSUME NEW r \in Runners, SpawnFails(r) PROVE TypeOK'
  BY <1>7, PublishType DEF SpawnFails, TryPublish, TypeOK, JobInv, Goto, Kill, Labels,
    Statuses, Failures, Host, ShuttingDown
<1>8. ASSUME NEW r \in Runners, TrackChild(r) PROVE TypeOK'
  <2>1. pc' \in [Runners -> Labels]
    BY <1>8, GotoType DEF TrackChild, Labels
  <2>2. table' \in [Hosts -> SUBSET Runners]
    <3>1. \/ UNCHANGED table
          \/ table' = [table EXCEPT ![Host(r)] = table[Host(r)] \cup {r}]
      BY <1>8 DEF TrackChild
    <3>2. Host(r) \in Hosts
      BY DEF Host
    <3>3. table \in [Hosts -> SUBSET Runners]
      BY DEF TypeOK
    <3>4. table[Host(r)] \cup {r} \in SUBSET Runners
      BY <3>2, <3>3
    <3> QED BY <3>1, <3>2, <3>3, <3>4
  <2>3. life' \in [Runners -> {"unborn", "alive", "dead"}]
    BY <1>8, KillType DEF TrackChild, TypeOK
  <2>4. status' \in [Runners -> Statuses] /\ failure' \in [Runners -> Failures]
    BY <1>8, PublishType DEF TrackChild, TryPublish, TypeOK, JobInv
  <2> QED BY <1>8, <2>1, <2>2, <2>3, <2>4 DEF TrackChild, TypeOK
<1>9. ASSUME NEW r \in Runners, SetChildPid(r) PROVE TypeOK'
  BY <1>9, PublishType DEF SetChildPid, TypeOK, JobInv, Goto, Kill, Labels,
    Statuses, Failures, Host, ShuttingDown
<1>10. ASSUME NEW r \in Runners, SetChildPidFails(r) PROVE TypeOK'
  BY <1>10, PublishType DEF SetChildPidFails, TryPublish, TypeOK, JobInv, Goto, Kill, Labels,
    Statuses, Failures, Host, ShuttingDown
<1>11. ASSUME NEW r \in Runners, Recheck(r) PROVE TypeOK'
  <2>1. pc' \in [Runners -> Labels]
    BY <1>11, GotoType DEF Recheck, Labels
  <2> QED BY <1>11, <2>1 DEF Recheck, TypeOK
<1>12. ASSUME NEW r \in Runners, Reap(r) PROVE TypeOK'
  BY <1>12, PublishType DEF Reap, TypeOK, JobInv, Goto, Kill, Labels,
    Statuses, Failures, Host, ShuttingDown
<1>13. ASSUME NEW r \in Runners, MarkChildEof(r) PROVE TypeOK'
  BY <1>13, PublishType DEF MarkChildEof, TypeOK, JobInv, Goto, Kill, Labels,
    Statuses, Failures, Host, ShuttingDown
<1>14. ASSUME NEW r \in Runners, Finish(r) PROVE TypeOK'
  <2>1. (IF stop[r] = "error" THEN "failed" ELSE stop[r])
          \in {"completed", "interrupted", "failed"} /\ job[r] \in Runners
    BY <1>14 DEF Finish, TypeOK, JobInv
  <2>2. status' \in [Runners -> Statuses] /\ failure' \in [Runners -> Failures]
    <3>1. \/ Publish(job[r], IF stop[r] = "error" THEN "failed" ELSE stop[r])
          \/ UNCHANGED <<status, failure>>
      BY <1>14 DEF Finish, TryPublish
    <3>2. status \in [Runners -> Statuses] /\ failure \in [Runners -> Failures]
      BY DEF TypeOK
    <3> QED BY <2>1, <3>1, <3>2, PublishType
  <2>3. pc' \in [Runners -> Labels]
    BY <1>14, GotoType DEF Finish, Labels
  <2> QED BY <1>14, <2>2, <2>3 DEF Finish, TypeOK
<1>15. ASSUME NEW r \in Runners, Answer(r) PROVE TypeOK'
  <2>1. PICK s \in Answers : stop' = [stop EXCEPT ![r] = s]
    BY <1>15 DEF Answer
  <2>2. /\ pc' \in [Runners -> Labels]
        /\ stop' \in [Runners -> {"", "completed", "interrupted", "failed", "error"}]
    BY <1>15, <2>1, GotoType, AnswersAssumption DEF Answer, Labels, TypeOK
  <2> QED BY <1>15, <2>2 DEF Answer, TypeOK
<1>16. ASSUME NEW r \in Runners, ConnectionError(r) PROVE TypeOK'
  BY <1>16, PublishType DEF ConnectionError, TypeOK, JobInv, Goto, Kill, Labels,
    Statuses, Failures, Host, ShuttingDown
<1>17. ASSUME NEW r \in Runners, Observe(r) PROVE TypeOK'
  BY <1>17, PublishType DEF Observe, TypeOK, JobInv, Goto, Kill, Labels,
    Statuses, Failures, Host, ShuttingDown
<1>18. ASSUME NEW r \in Runners, ChildDies(r) PROVE TypeOK'
  BY <1>18, PublishType DEF ChildDies, TypeOK, JobInv, Goto, Kill, Labels,
    Statuses, Failures, Host, ShuttingDown
<1>19. ASSUME NEW c \in Cancellers, CancelTeardown(c) PROVE TypeOK'
  <2>1. life' \in [Runners -> {"unborn", "alive", "dead"}]
    <3>1. cjob[c] \in Runners
      BY <1>19 DEF CancelTeardown, JobInv
    <3>2. rec[cjob[c]] # None => rec[cjob[c]] \in Runners
      <4>1. rec \in [Runners -> Runners \cup {None}]
        BY DEF TypeOK
      <4> QED BY <3>1, <4>1
    <3>3. IF rec[cjob[c]] # None THEN Kill(rec[cjob[c]]) ELSE UNCHANGED life
      BY <1>19 DEF CancelTeardown
    <3>4. life \in [Runners -> {"unborn", "alive", "dead"}]
      BY DEF TypeOK
    <3> QED BY <3>2, <3>3, <3>4, KillType
  <2>2. /\ cpc' \in [Cancellers -> {"idle", "teardown"}]
        /\ cjob' \in [Cancellers -> Runners \cup {None}]
    BY <1>19 DEF CancelTeardown, TypeOK
  <2> QED BY <1>19, <2>1, <2>2 DEF CancelTeardown, TypeOK
<1>20. ASSUME NEW c \in Cancellers, NEW t \in Runners, Cancel(c, t) PROVE TypeOK'
  <2>1. CASE /\ status' = [status EXCEPT ![t] = "failed"]
             /\ failure' = [failure EXCEPT ![t] = "worker_gone"]
             /\ UNCHANGED cancelVars
    BY <1>20, <2>1 DEF Cancel, TypeOK, Statuses, Failures
  <2>2. CASE /\ status' = [status EXCEPT ![t] = "interrupted"]
             /\ cpc' = [cpc EXCEPT ![c] = "teardown"]
             /\ cjob' = [cjob EXCEPT ![c] = t]
             /\ UNCHANGED failure
    BY <1>20, <2>2 DEF Cancel, TypeOK, Statuses, InProgress
  <2> QED BY <1>20, <2>1, <2>2 DEF Cancel
<1>21. ASSUME NEW h \in Hosts, SweepSlot(h) PROVE TypeOK'
  <2>1. PICK k \in table[h] : /\ sweep' = [sweep EXCEPT ![h] = k]
                              /\ table' = [table EXCEPT ![h] = table[h] \ {k}]
    BY <1>21 DEF SweepSlot
  <2>2. sweep' \in [Hosts -> Runners \cup {None}]
    BY <2>1 DEF TypeOK
  <2>3. table' \in [Hosts -> SUBSET Runners]
    BY <2>1 DEF TypeOK
  <2> QED BY <1>21, <2>2, <2>3 DEF SweepSlot, TypeOK
<1>22. ASSUME NEW h \in Hosts, SweepKill(h) PROVE TypeOK'
  BY <1>22 DEF SweepKill, TypeOK, Kill
<1>23. ASSUME NEW h \in Hosts, EndSweep(h) PROVE TypeOK'
  BY <1>23 DEF EndSweep, TypeOK, Kill
<1>24. ASSUME NEW h \in Hosts, ExitHost(h) \/ SignalExit(h) \/ KillHost(h) PROVE TypeOK'
  BY <1>24, GoneType DEF ExitHost, SignalExit, KillHost
<1>25. ASSUME NEW h \in Hosts, StdinEof(h) PROVE TypeOK'
  BY <1>25 DEF StdinEof, TypeOK, Kill
<1>26. ASSUME NEW h \in Hosts, Signal(h) PROVE TypeOK'
  BY <1>26 DEF Signal, TypeOK
<1>27. ASSUME NEW h \in Hosts, SignalSlot(h) PROVE TypeOK'
  <2>1. PICK r \in Runners : Kill(r)
    BY <1>27 DEF SignalSlot, TypeOK
  <2> QED BY <1>27, <2>1, KillType DEF SignalSlot, TypeOK
<1>28. ASSUME NEW r \in Runners, PublishStop(r) PROVE TypeOK'
  <2>1. stop[r] \in {"completed", "interrupted", "failed"} /\ job[r] \in Runners
    BY <1>28 DEF PublishStop, TypeOK, JobInv
  <2>2. status' \in [Runners -> Statuses] /\ failure' \in [Runners -> Failures]
    <3>1. Publish(job[r], stop[r]) \/ UNCHANGED <<status, failure>>
      BY <1>28 DEF PublishStop
    <3>2. status \in [Runners -> Statuses] /\ failure \in [Runners -> Failures]
      BY DEF TypeOK
    <3> QED BY <2>1, <3>1, <3>2, PublishType
  <2>3. pc' \in [Runners -> Labels] /\ unpublished' \subseteq Runners
    BY <1>28, GotoType DEF PublishStop, Labels, TypeOK
  <2> QED BY <1>28, <2>2, <2>3 DEF PublishStop, TypeOK
<1> QED BY <1>1, <1>2, <1>3, <1>4, <1>5, <1>6, <1>7, <1>8, <1>9, <1>10,
           <1>11, <1>12, <1>13, <1>14, <1>15, <1>16, <1>17, <1>18, <1>19,
           <1>20, <1>21, <1>22, <1>23, <1>24, <1>25, <1>26, <1>27, <1>28
    DEF Next, RunnerStep, HostStep, SignalStep

\* A runner that has admitted drives a turn, a canceller knows its turn.
LEMMA JobKeeps ==
  RunInv /\ [Next]_vars => JobInv'
<1> SUFFICES ASSUME RunInv, [Next]_vars PROVE JobInv'
  OBVIOUS
<1> USE HostsAssumption, RunnerNoneAssumption DEF RunInv
<1>1. CASE UNCHANGED vars
  BY <1>1 DEF vars, TypeOK, JobInv, ReapInv, Reapable, Up, Host
<1>2. ASSUME NEW r \in Runners, Admit(r) PROVE JobInv'
  <2>1. job'[r] \in Runners /\ \A q \in Runners \ {r} : job'[q] = job[q]
    BY <1>2 DEF Admit, TypeOK
  <2>2. pc'[r] = "admitted" /\ \A q \in Runners \ {r} : pc'[q] = pc[q]
    BY <1>2, GotoType DEF Admit, Labels
  <2> QED BY <1>2, <2>1, <2>2 DEF Admit, JobInv
<1>3. ASSUME NEW r \in Runners, BeginAcpSpawn(r) PROVE JobInv'
  BY <1>3 DEF BeginAcpSpawn, TypeOK, JobInv, Goto
<1>4. ASSUME NEW r \in Runners, BeginFails(r) PROVE JobInv'
  BY <1>4 DEF BeginFails, TypeOK, JobInv, Goto
<1>5. ASSUME NEW r \in Runners, CheckShutdown(r) PROVE JobInv'
  BY <1>5 DEF CheckShutdown, TypeOK, JobInv, Goto
<1>6. ASSUME NEW r \in Runners, Spawn(r) PROVE JobInv'
  BY <1>6 DEF Spawn, TypeOK, JobInv, Goto
<1>7. ASSUME NEW r \in Runners, SpawnFails(r) PROVE JobInv'
  BY <1>7 DEF SpawnFails, TypeOK, JobInv, Goto
<1>8. ASSUME NEW r \in Runners, TrackChild(r) PROVE JobInv'
  <2>1. pc'[r] \in {"record", "done"} /\ \A q \in Runners \ {r} : pc'[q] = pc[q]
    BY <1>8, GotoType DEF TrackChild, Labels
  <2>2. pc[r] = "track" /\ UNCHANGED <<job, stop, cpc, cjob>>
    BY <1>8 DEF TrackChild
  <2> QED BY <2>1, <2>2 DEF JobInv
<1>9. ASSUME NEW r \in Runners, SetChildPid(r) PROVE JobInv'
  BY <1>9 DEF SetChildPid, TypeOK, JobInv, Goto
<1>10. ASSUME NEW r \in Runners, SetChildPidFails(r) PROVE JobInv'
  BY <1>10 DEF SetChildPidFails, TypeOK, JobInv, Goto
<1>11. ASSUME NEW r \in Runners, Recheck(r) PROVE JobInv'
  <2>1. pc'[r] \in {"leave", "drive"} /\ \A q \in Runners \ {r} : pc'[q] = pc[q]
    BY <1>11, GotoType DEF Recheck, Labels
  <2>2. pc[r] = "recheck" /\ UNCHANGED <<job, stop, cpc, cjob>>
    BY <1>11 DEF Recheck
  <2> QED BY <2>1, <2>2 DEF JobInv
<1>12. ASSUME NEW r \in Runners, Reap(r) PROVE JobInv'
  BY <1>12 DEF Reap, TypeOK, JobInv, Goto
<1>13. ASSUME NEW r \in Runners, MarkChildEof(r) PROVE JobInv'
  BY <1>13 DEF MarkChildEof, TypeOK, JobInv, Goto
<1>14. ASSUME NEW r \in Runners, Finish(r) PROVE JobInv'
  BY <1>14 DEF Finish, TypeOK, JobInv, Goto
<1>15. ASSUME NEW r \in Runners, Answer(r) PROVE JobInv'
  BY <1>15, AnswersAssumption DEF Answer, TypeOK, JobInv, Goto
<1>16. ASSUME NEW r \in Runners, ConnectionError(r) PROVE JobInv'
  BY <1>16 DEF ConnectionError, TypeOK, JobInv, Goto
<1>17. ASSUME NEW r \in Runners, Observe(r) PROVE JobInv'
  BY <1>17 DEF Observe, TypeOK, JobInv, Goto
<1>18. ASSUME NEW r \in Runners, ChildDies(r) PROVE JobInv'
  BY <1>18 DEF ChildDies, TypeOK, JobInv, Goto
<1>19. ASSUME NEW c \in Cancellers, CancelTeardown(c) PROVE JobInv'
  BY <1>19 DEF CancelTeardown, TypeOK, JobInv, Goto
<1>20. ASSUME NEW c \in Cancellers, NEW t \in Runners, Cancel(c, t) PROVE JobInv'
  <2>1. CASE UNCHANGED cancelVars
    BY <1>20, <2>1 DEF Cancel, JobInv
  <2>2. CASE cjob' = [cjob EXCEPT ![c] = t] /\ cpc' = [cpc EXCEPT ![c] = "teardown"]
    <3>1. UNCHANGED <<pc, job, stop>>
      BY <1>20 DEF Cancel
    <3>2. \A d \in Cancellers : cpc'[d] = "teardown" => cjob'[d] \in Runners
      BY <2>2 DEF JobInv, TypeOK
    <3> QED BY <3>1, <3>2 DEF JobInv
  <2> QED BY <1>20, <2>1, <2>2 DEF Cancel
<1>21. ASSUME NEW h \in Hosts, SweepSlot(h) PROVE JobInv'
  BY <1>21 DEF SweepSlot, TypeOK, JobInv, Goto
<1>22. ASSUME NEW h \in Hosts, SweepKill(h) PROVE JobInv'
  BY <1>22 DEF SweepKill, TypeOK, JobInv, Goto
<1>23. ASSUME NEW h \in Hosts, EndSweep(h) PROVE JobInv'
  BY <1>23 DEF EndSweep, TypeOK, JobInv, Goto
<1>24. ASSUME NEW h \in Hosts, ExitHost(h) \/ SignalExit(h) \/ KillHost(h) PROVE JobInv'
  BY <1>24 DEF ExitHost, SignalExit, KillHost, Gone, JobInv
<1>25. ASSUME NEW h \in Hosts, StdinEof(h) PROVE JobInv'
  BY <1>25 DEF StdinEof, JobInv
<1>26. ASSUME NEW h \in Hosts, Signal(h) \/ SignalSlot(h) PROVE JobInv'
  BY <1>26 DEF Signal, SignalSlot, JobInv
<1>27. ASSUME NEW r \in Runners, PublishStop(r) PROVE JobInv'
  BY <1>27 DEF PublishStop, TypeOK, JobInv, Goto
<1> QED BY <1>1, <1>2, <1>3, <1>4, <1>5, <1>6, <1>7, <1>8, <1>9, <1>10,
           <1>11, <1>12, <1>13, <1>14, <1>15, <1>16, <1>17, <1>18, <1>19,
           <1>20, <1>21, <1>22, <1>23, <1>24, <1>25, <1>26, <1>27
    DEF Next, RunnerStep, HostStep, SignalStep

\* No step leaves a living child that nobody will reap.
LEMMA ReapKeeps ==
  RunInv /\ [Next]_vars => ReapInv'
<1> SUFFICES ASSUME RunInv, [Next]_vars PROVE ReapInv'
  OBVIOUS
<1> USE HostsAssumption, RunnerNoneAssumption DEF RunInv
<1>1. CASE UNCHANGED vars
  BY <1>1 DEF vars, TypeOK, JobInv, ReapInv, Reapable, Up, Host
<1>2. ASSUME NEW r \in Runners, Admit(r) PROVE ReapInv'
  <2>1. life[r] # "alive"
    BY <1>2 DEF Admit, ReapInv, Reapable, Owning
  <2> QED BY <1>2, <2>1, MoveReaps DEF Admit, Labels, ShuttingDown
<1>3. ASSUME NEW r \in Runners, BeginAcpSpawn(r) PROVE ReapInv'
  <2>1. life[r] # "alive"
    BY <1>3 DEF BeginAcpSpawn, ReapInv, Reapable, Owning
  <2> QED BY <1>3, <2>1, MoveReaps DEF BeginAcpSpawn, Labels, ShuttingDown
<1>4. ASSUME NEW r \in Runners, BeginFails(r) PROVE ReapInv'
  <2>1. life[r] # "alive"
    BY <1>4 DEF BeginFails, ReapInv, Reapable, Owning
  <2> QED BY <1>4, <2>1, MoveReaps DEF BeginFails, Labels, ShuttingDown
<1>5. ASSUME NEW r \in Runners, CheckShutdown(r) PROVE ReapInv'
  <2>1. life[r] # "alive"
    BY <1>5 DEF CheckShutdown, ReapInv, Reapable, Owning
  <2> QED BY <1>5, <2>1, MoveReaps DEF CheckShutdown, Labels, ShuttingDown
<1>6. ASSUME NEW r \in Runners, Spawn(r) PROVE ReapInv'
  <2>1. pc'[r] = "track" /\ \A q \in Runners \ {r} : pc'[q] = pc[q]
    BY <1>6, GotoType DEF Spawn, Labels
  <2>2. \A q \in Runners \ {r} : life'[q] = life[q]
    BY <1>6 DEF Spawn, TypeOK
  <2>3. Reapable(r)'
    BY <1>6, <2>1 DEF Spawn, ReapInv, Reapable, Up, Host, Owning
  <2> QED BY <1>6, <2>1, <2>2, <2>3, RunnerReaps DEF Spawn
<1>7. ASSUME NEW r \in Runners, SpawnFails(r) PROVE ReapInv'
  <2>1. life[r] # "alive"
    BY <1>7 DEF SpawnFails, ReapInv, Reapable, Owning
  <2> QED BY <1>7, <2>1, MoveReaps DEF SpawnFails, Labels, ShuttingDown
<1>8. ASSUME NEW r \in Runners, TrackChild(r) PROVE ReapInv'
  <2>0. Host(r) \in Hosts /\ \A q \in Runners : Host(q) \in Hosts
    BY DEF Host
  <2>1. CASE /\ table' = [table EXCEPT ![Host(r)] = @ \cup {r}]
             /\ Goto(r, "record") /\ UNCHANGED life
    <3>1. pc'[r] = "record" /\ \A q \in Runners \ {r} : pc'[q] = pc[q]
      BY <2>1, GotoType DEF Labels
    <3>2. r \in table'[Host(r)] /\ \A q \in Runners : q \in table[Host(q)] => q \in table'[Host(q)]
      BY <2>0, <2>1 DEF TypeOK
    <3>3. Reapable(r)'
      BY <1>8, <2>1, <3>1, <3>2 DEF TrackChild, ReapInv, Reapable, Up, Host, Owning
    <3> QED BY <1>8, <2>1, <3>1, <3>2, <3>3, RunnerReaps DEF TrackChild
  <2>2. CASE Kill(r) /\ Goto(r, "done") /\ UNCHANGED table
    <3>1. pc'[r] = "done" /\ \A q \in Runners \ {r} : pc'[q] = pc[q]
      BY <2>2, GotoType DEF Labels
    <3>2. life'[r] # "alive" /\ \A q \in Runners \ {r} : life'[q] = life[q]
      BY <2>2, KillType
    <3>3. Reapable(r)'
      BY <1>8, <3>1, <3>2 DEF TrackChild, ReapInv, Reapable, Up, Host
    <3> QED BY <1>8, <2>2, <3>1, <3>2, <3>3, RunnerReaps DEF TrackChild
  <2> QED BY <1>8, <2>1, <2>2 DEF TrackChild
<1>9. ASSUME NEW r \in Runners, SetChildPid(r) PROVE ReapInv'
  BY <1>9, MoveReaps DEF SetChildPid, Labels, Owning
<1>10. ASSUME NEW r \in Runners, SetChildPidFails(r) PROVE ReapInv'
  BY <1>10, MoveReaps DEF SetChildPidFails, Labels, Owning
<1>11. ASSUME NEW r \in Runners, Recheck(r) PROVE ReapInv'
  BY <1>11, MoveReaps DEF Recheck, Labels, Owning
<1>12. ASSUME NEW r \in Runners, Reap(r) PROVE ReapInv'
  <2>1. life'[r] # "alive" /\ \A q \in Runners \ {r} : life'[q] = life[q]
    BY <1>12, KillType DEF Reap
  <2>2. pc'[r] \in {"done", "markEof"} /\ \A q \in Runners \ {r} : pc'[q] = pc[q]
    BY <1>12, GotoType DEF Reap, Labels
  <2>3. \A q \in Runners \ {r} : q \in table[Host(q)] => q \in table'[Host(q)]
    BY <1>12 DEF Reap, TypeOK, Host
  <2>4. Reapable(r)'
    BY <1>12, <2>1, <2>2 DEF Reap, ReapInv, Reapable, Up, Host
  <2> QED BY <1>12, <2>1, <2>2, <2>3, <2>4, RunnerReaps DEF Reap
<1>13. ASSUME NEW r \in Runners, MarkChildEof(r) PROVE ReapInv'
  <2>1. life[r] # "alive"
    BY <1>13 DEF MarkChildEof, ReapInv, Reapable, Owning
  <2> QED BY <1>13, <2>1, MoveReaps DEF MarkChildEof, Labels, ShuttingDown
<1>14. ASSUME NEW r \in Runners, Finish(r) PROVE ReapInv'
  <2>1. life[r] # "alive"
    BY <1>14 DEF Finish, ReapInv, Reapable, Owning
  <2> QED BY <1>14, <2>1, MoveReaps DEF Finish, Labels, ShuttingDown
<1>15. ASSUME NEW r \in Runners, Answer(r) \/ PublishStop(r) PROVE ReapInv'
  BY <1>15, MoveReaps DEF Answer, PublishStop, Labels, Owning
<1>16. ASSUME NEW r \in Runners, ConnectionError(r) PROVE ReapInv'
  BY <1>16, MoveReaps DEF ConnectionError, Labels, Owning
<1>17. ASSUME NEW r \in Runners, Observe(r) PROVE ReapInv'
  BY <1>17 DEF Observe, ReapInv, Reapable, Up, Host
<1>18. ASSUME NEW r \in Runners, ChildDies(r) PROVE ReapInv'
  BY <1>18, OthersReapable DEF ChildDies, ReapInv, TypeOK
<1>19. ASSUME NEW c \in Cancellers, CancelTeardown(c) PROVE ReapInv'
  <2>1. \A q \in Runners : life'[q] = "alive" => life[q] = "alive"
    <3>1. cjob[c] \in Runners
      BY <1>19 DEF CancelTeardown, JobInv
    <3>2. rec[cjob[c]] # None => rec[cjob[c]] \in Runners
      <4>1. rec \in [Runners -> Runners \cup {None}]
        BY DEF TypeOK
      <4> QED BY <3>1, <4>1
    <3>3. IF rec[cjob[c]] # None THEN Kill(rec[cjob[c]]) ELSE UNCHANGED life
      BY <1>19 DEF CancelTeardown
    <3> QED BY <3>2, <3>3, KillType
  <2> QED BY <1>19, <2>1, OthersReapable DEF CancelTeardown, ReapInv
<1>20. ASSUME NEW c \in Cancellers, NEW t \in Runners, Cancel(c, t) PROVE ReapInv'
  BY <1>20 DEF Cancel, ReapInv, Reapable, Up, Host
<1>21. ASSUME NEW h \in Hosts, SweepSlot(h) PROVE ReapInv'
  <2>0. \A q \in Runners : Host(q) \in Hosts
    BY DEF Host
  <2>1. PICK k \in table[h] : /\ sweep' = [sweep EXCEPT ![h] = k]
                              /\ table' = [table EXCEPT ![h] = @ \ {k}]
    BY <1>21 DEF SweepSlot
  <2>2. sweep'[h] = k /\ sweep[h] = None /\ table'[h] = table[h] \ {k}
    BY <1>21, <2>1 DEF SweepSlot, TypeOK
  <2>3. \A g \in Hosts \ {h} : sweep'[g] = sweep[g] /\ table'[g] = table[g]
    BY <2>1 DEF TypeOK
  <2>4. UNCHANGED <<pc, life, exit, how, handler, opened>>
    BY <1>21 DEF SweepSlot
  <2>5. ASSUME NEW q \in Runners PROVE Reapable(q)'
    <3>1. Reapable(q)
      BY DEF ReapInv
    <3>2. q \in table[Host(q)] \/ sweep[Host(q)] = q =>
            q \in table'[Host(q)] \/ sweep'[Host(q)] = q
      BY <2>0, <2>2, <2>3
    <3>3. exit[Host(q)] = "exited" => sweep'[Host(q)] = sweep[Host(q)]
      BY <1>21, <2>0, <2>3 DEF SweepSlot
    <3> QED BY <2>4, <3>1, <3>2, <3>3 DEF Reapable, Up, Host
  <2> QED BY <2>5 DEF ReapInv
<1>22. ASSUME NEW h \in Hosts, SweepKill(h) PROVE ReapInv'
  <2>0. \A q \in Runners : Host(q) \in Hosts
    BY DEF Host
  <2>1. exit[h] # "exited" /\ UNCHANGED <<pc, exit, how, table, handler, opened>>
    BY <1>22 DEF SweepKill
  <2>2. sweep' = [sweep EXCEPT ![h] = None] /\ sweep[h] \in Runners
    BY <1>22 DEF SweepKill, TypeOK
  <2>3. \A g \in Hosts \ {h} : sweep'[g] = sweep[g]
    BY <2>2 DEF TypeOK
  <2>4. /\ life'[sweep[h]] # "alive"
        /\ \A q \in Runners : life'[q] = "alive" => life[q] = "alive" /\ q # sweep[h]
    <3>1. life' = [life EXCEPT ![sweep[h]] =
                     IF life[sweep[h]] = "alive" THEN "dead" ELSE life[sweep[h]]]
      BY <1>22 DEF SweepKill, Kill
    <3> QED BY <2>2, <3>1 DEF TypeOK
  <2>5. ASSUME NEW q \in Runners PROVE Reapable(q)'
    <3>1. Reapable(q)
      BY DEF ReapInv
    <3>2. life'[q] = "alive" /\ sweep[Host(q)] = q => sweep'[Host(q)] = q
      BY <2>0, <2>3, <2>4
    <3> QED BY <2>0, <2>1, <2>4, <3>1, <3>2 DEF Reapable, Up, Host
  <2> QED BY <2>5 DEF ReapInv
<1>23. ASSUME NEW h \in Hosts, EndSweep(h) PROVE ReapInv'
  BY <1>23 DEF EndSweep, TypeOK, ReapInv, Reapable, SpawnsOpen, Up, Host
<1>24. ASSUME NEW h \in Hosts, ExitHost(h) PROVE ReapInv'
  <2>1. exit[h] = "lastSweep" /\ sweep[h] = None /\ (~SlowSpawns => table[h] = {})
    BY <1>24 DEF ExitHost
  <2>2. \A r \in Runners : Host(r) = h /\ life[r] = "alive" => SlowSpawns
    BY <2>1, SlowSpawnsAssumption DEF ReapInv, Reapable, Up
  <2> QED BY <1>24, <2>2, GoneReaps DEF ExitHost
<1>25. ASSUME NEW h \in Hosts, StdinEof(h) PROVE ReapInv'
  BY <1>25 DEF StdinEof, TypeOK, ReapInv, Reapable, Up, Host
<1>26. ASSUME NEW h \in Hosts, Signal(h) PROVE ReapInv'
  <2>1. UNCHANGED <<pc, life, exit, how, sweep, table>> /\ opened \subseteq opened'
    BY <1>26 DEF Signal
  <2>2. ASSUME NEW q \in Runners PROVE Reapable(q)'
    <3>1. Reapable(q) /\ Host(q) \in Hosts
      BY DEF ReapInv, Host
    <3>2. CASE Host(q) = h
      <4>1. Up(q)' /\ (pc[q] \in {"spawn", "track"} => q \in opened')
        BY <1>26, <3>2 DEF Signal, Up, Host
      <4> QED BY <2>1, <3>1, <4>1 DEF Reapable, Up, Host
    <3>3. CASE Host(q) # h
      <4>1. handler'[Host(q)] = handler[Host(q)]
        BY <1>26, <3>1, <3>3 DEF Signal, TypeOK
      <4> QED BY <2>1, <3>1, <4>1 DEF Reapable, Up, Host
    <3> QED BY <3>2, <3>3
  <2> QED BY <2>2 DEF ReapInv
<1>27. ASSUME NEW h \in Hosts, SignalSlot(h) PROVE ReapInv'
  <2>1. PICK k \in Runners : Kill(k)
    BY <1>27 DEF SignalSlot, TypeOK
  <2>2. \A q \in Runners : life'[q] = "alive" => life[q] = "alive"
    BY <2>1, KillType
  <2> QED BY <1>27, <2>2, OthersReapable DEF SignalSlot, ReapInv
<1>28. ASSUME NEW h \in Hosts, SignalExit(h) PROVE ReapInv'
  \* A living child is tracked, and then not in a slot that the handler found
  \* full, or its spawn was under way when the handler began.
  <2>1. \A r \in Runners : Host(r) = h /\ life[r] = "alive" => r \in opened \/ sweep[h] = r
    <3>1. handler[h] /\ exit[h] # "exited" /\ \A r \in table[h] \ opened : life[r] # "alive"
      BY <1>28 DEF SignalExit
    <3> QED BY <3>1 DEF ReapInv, Reapable, Up
  <2> QED BY <1>28, <2>1, GoneReaps DEF SignalExit
<1>29. ASSUME NEW h \in Hosts, KillHost(h) PROVE ReapInv'
  BY <1>29, GoneReaps DEF KillHost
<1> QED BY <1>1, <1>2, <1>3, <1>4, <1>5, <1>6, <1>7, <1>8, <1>9, <1>10,
           <1>11, <1>12, <1>13, <1>14, <1>15, <1>16, <1>17, <1>18, <1>19,
           <1>20, <1>21, <1>22, <1>23, <1>24, <1>25, <1>26, <1>27, <1>28, <1>29
    DEF Next, RunnerStep, HostStep, SignalStep

-----------------------------------------------------------------------------
\* The inductive invariant of run_turn and of the exit of its host.
THEOREM RunInvariant == Spec => []RunInv
<1>1. RunInv /\ [Next]_vars => RunInv'
  BY TypeKeeps, JobKeeps, ReapKeeps DEF RunInv
<1> QED BY <1>1, InitRun, PTL DEF Spec

\* Every way out of run_turn has torn its child down, for any number of hosts,
\* runners and cancellers.
THEOREM NoChildAfterRun == Spec => []DoneLeavesNoChild
<1>1. RunInv => DoneLeavesNoChild
  BY DEF RunInv, ReapInv, Reapable, Owning, DoneLeavesNoChild
<1> QED BY <1>1, RunInvariant, PTL

\* The signal handler, which walks the table while the other threads run on,
\* misses no child but one whose spawn was under way when it began or which a
\* sweep has in its hands, for any number of hosts, runners and cancellers.
THEOREM NoTrackedChildAfterSignal == Spec => []SignalKillsTracked
<1>1. RunInv => SignalKillsTracked
  BY DEF RunInv, ReapInv, Reapable, SignalKillsTracked
<1> QED BY <1>1, RunInvariant, PTL

\* A graceful exit leaves no child behind, provided a spawn does not outlast
\* the hard deadline of parent_exit_teardown.
THEOREM NoChildAfterEof ==
  ASSUME SlowSpawns = FALSE
  PROVE  Spec => []EofLeavesNoChild
<1>1. RunInv => EofLeavesNoChild
  BY DEF RunInv, ReapInv, Reapable, EofLeavesNoChild
<1> QED BY <1>1, RunInvariant, PTL

\* The types of the turns, the runners, the children and the hosts.
THEOREM RunTypes == Spec => []TypeOK
<1>1. RunInv => TypeOK
  BY DEF RunInv
<1> QED BY <1>1, RunInvariant, PTL

-----------------------------------------------------------------------------
(***************************************************************************)
(* The answer of the agent is what the turn becomes                        *)
(***************************************************************************)
\* A runner that has not asked for admission.
Fresh(q) == job[q] = None /\ status[q] = "absent" /\ stop[q] = ""

\* How turns, their runners and their children are tied together: a turn comes
\* into being when its runner admits it, only its runners record a child in it,
\* it has no reason of failure before it fails, and a cancel tears down the
\* child of a turn that is over.
GrantInv ==
  /\ \A q \in Runners : pc[q] = "start" => Fresh(q)
  /\ \A q \in Runners : job[q] # None => status[job[q]] # "absent"
  /\ \A t \in Runners : /\ rec[t] # None => job[rec[t]] = t
                        /\ status[t] = "absent" => ~eof[t]
                        /\ ~Terminal(t) => failure[t] # "worker_gone"
  /\ \A c \in Cancellers : cpc[c] = "teardown" => Terminal(cjob[c])

\* The table of a host holds children of its own runners, and nothing is swept
\* from it before the host goes down.
TableInv ==
  \A h \in Hosts : /\ \A r \in table[h] : Host(r) = h
                   /\ sweep[h] # None => Host(sweep[h]) = h /\ exit[h] # "up"

\* The runner r of its own turn, alone with it on a host that stays up, with a
\* child that has not ended by itself, a lock on the live file and a ledger that
\* took the stop.
Alone(r) ==
  /\ job[r] = r /\ Sole(r) /\ ~ShuttingDown(r)
  /\ r \notin self /\ r \notin unpublished /\ r \notin Lockless

\* Until the answer is recorded, such a turn has no dead generation: its child,
\* once spawned, is alive for as long as the turn is in progress.  After that
\* the turn is over.
Driving == {"admitted", "gated", "spawn", "track", "record", "recheck", "drive", "publish"}

Answerable(r) ==
  /\ stop[r] \in Answers /\ pc[r] # "publish" =>
       ~InProgress(r) /\ failure[r] # "worker_gone"
  /\ pc[r] \in Driving =>
       /\ failure[r] # "worker_gone" /\ ~eof[r]
       /\ InProgress(r) /\ (rec[r] # None \/ pc[r] \in {"track", "record"}) =>
            life[r] = "alive"

AloneInv == \A r \in Runners : Alone(r) => Answerable(r)

AnswerInv == RunInv /\ GrantInv /\ TableInv /\ AloneInv

\* What a step of the code, as opposed to an observer, does to a turn: nothing,
\* or it ends the turn with what was reported.
Published(u) ==
  \/ status'[u] = status[u] /\ failure'[u] = failure[u]
  \/ InProgress(u) /\ Terminal(u)' /\ failure'[u] # "worker_gone"

\* publish_terminal does no more.
LEMMA PublishEffect ==
  ASSUME TypeOK, NEW t \in Runners,
         NEW s \in {"completed", "interrupted", "failed"}, Publish(t, s)
  PROVE  /\ \A u \in Runners : Published(u)
         /\ ~InProgress(t)'
<1>1. CASE InProgress(t)
  <2>1. /\ status \in [Runners -> Statuses] /\ failure \in [Runners -> Failures]
        /\ status' = [status EXCEPT ![t] = s]
        /\ failure' = [failure EXCEPT ![t] = IF s = "failed" THEN "reported" ELSE ""]
    BY <1>1 DEF Publish, TypeOK
  <2>2. status'[t] = s /\ failure'[t] # "worker_gone"
    BY <2>1
  <2>3. \A u \in Runners \ {t} : status'[u] = status[u] /\ failure'[u] = failure[u]
    BY <2>1
  <2>4. Published(t)
    BY <1>1, <2>2 DEF Published, Terminal
  <2>5. \A u \in Runners \ {t} : Published(u)
    BY <2>3 DEF Published
  <2>6. ~InProgress(t)'
    BY <2>2 DEF InProgress
  <2> QED BY <2>4, <2>5, <2>6
<1>2. CASE ~InProgress(t)
  BY <1>2 DEF Publish, Published, InProgress
<1> QED BY <1>1, <1>2

\* Before the first request.
LEMMA AnswerInit == Init => AnswerInv
<1> SUFFICES ASSUME Init PROVE AnswerInv
  OBVIOUS
<1>1. GrantInv /\ TableInv /\ AloneInv
  BY RunnerNoneAssumption
    DEF Init, GrantInv, Fresh, TableInv, AloneInv, Alone, Terminal
<1> QED BY <1>1, InitRun DEF AnswerInv

-----------------------------------------------------------------------------
\* A step that grants no turn, records no child and ends turns at most.
LEMMA GrantStays ==
  ASSUME RunInv, GrantInv, UNCHANGED <<job, rec, eof, cpc, cjob>>,
         \A q \in Runners : pc'[q] = "start" => pc[q] = "start" /\ stop'[q] = stop[q],
         \A u \in Runners :
           \/ status'[u] = status[u] /\ failure'[u] = failure[u]
           \/ InProgress(u) /\ Terminal(u)'
  PROVE  GrantInv'
<1>1. \A u \in Runners : /\ Terminal(u) => Terminal(u)'
                         /\ status'[u] = "absent" <=> status[u] = "absent"
                         /\ ~Terminal(u)' => ~Terminal(u) /\ failure'[u] = failure[u]
  BY DEF Terminal, InProgress
<1>2. \A q \in Runners : job[q] # None => job[q] \in Runners
  <2>1. job \in [Runners -> Runners \cup {None}]
    BY DEF RunInv, TypeOK
  <2> QED BY <2>1
<1>3. \A c \in Cancellers : cpc[c] = "teardown" => cjob[c] \in Runners
  BY DEF RunInv, JobInv
<1>4. \A q \in Runners : pc'[q] = "start" => Fresh(q)'
  BY <1>1 DEF GrantInv, Fresh
<1> QED BY <1>1, <1>2, <1>3, <1>4 DEF GrantInv

\* A step of runner q that publishes something or nothing.
LEMMA RunnerGrants ==
  ASSUME RunInv, GrantInv, UNCHANGED <<job, rec, eof, cpc, cjob>>,
         NEW q \in Runners, pc[q] # "start", NEW l \in Labels \ {"start"}, Goto(q, l),
         \A p \in Runners \ {q} : stop'[p] = stop[p],
         \A u \in Runners : Published(u)
  PROVE  GrantInv'
<1>1. \A p \in Runners : pc'[p] = "start" => pc[p] = "start" /\ stop'[p] = stop[p]
  BY GotoType DEF RunInv
<1> QED BY <1>1, GrantStays DEF Published

\* What the steps of run_turn do to turns: the failed ones and the answered ones
\* publish, the others leave the turns alone.
LEMMA RunnerPublishes ==
  ASSUME RunInv, NEW r \in Runners,
         \/ RunnerStep(r) \/ Answer(r) \/ ConnectionError(r)
  PROVE  /\ \A u \in Runners : Published(u)
         /\ pc[r] # "start" /\ \E l \in Labels \ {"start"} : Goto(r, l)
<1> USE DEF RunInv
<1>0. \A u \in Runners : UNCHANGED <<status, failure>> => Published(u)
  BY DEF Published
<1>1. pc[r] # "start" => job[r] \in Runners
  BY DEF JobInv
<1>2. CASE BeginAcpSpawn(r) \/ CheckShutdown(r) \/ Spawn(r) \/ Recheck(r)
  BY <1>0, <1>2 DEF BeginAcpSpawn, CheckShutdown, Spawn, Recheck, Labels
<1>3. CASE SetChildPid(r) \/ Reap(r) \/ MarkChildEof(r)
  BY <1>0, <1>3 DEF SetChildPid, Reap, MarkChildEof, Labels
<1>4. CASE BeginFails(r) \/ SpawnFails(r) \/ SetChildPidFails(r)
  BY <1>0, <1>1, <1>4, PublishEffect
    DEF BeginFails, SpawnFails, SetChildPidFails, TryPublish, Labels
<1>5. CASE TrackChild(r)
  BY <1>0, <1>1, <1>5, PublishEffect DEF TrackChild, TryPublish, Labels
<1>6. CASE Finish(r)
  <2>1. (IF stop[r] = "error" THEN "failed" ELSE stop[r])
          \in {"completed", "interrupted", "failed"}
    BY <1>6 DEF Finish, TypeOK, JobInv
  <2> QED BY <1>0, <1>1, <1>6, <2>1, PublishEffect DEF Finish, TryPublish, Labels
<1>7. CASE Answer(r)
  BY <1>0, <1>7 DEF Answer, Labels
<1>8. CASE ConnectionError(r)
  BY <1>0, <1>1, <1>8, PublishEffect DEF ConnectionError, Labels
<1>9. CASE PublishStop(r)
  <2>1. stop[r] \in {"completed", "interrupted", "failed"}
    BY <1>9 DEF PublishStop, TypeOK, JobInv
  <2> QED BY <1>0, <1>1, <1>9, <2>1, PublishEffect DEF PublishStop, Labels
<1> QED BY <1>2, <1>3, <1>4, <1>5, <1>6, <1>7, <1>8, <1>9 DEF RunnerStep

\* No step unties turns, runners, children and cancels.
LEMMA GrantKeeps ==
  RunInv /\ GrantInv /\ [Next]_vars => GrantInv'
<1> SUFFICES ASSUME RunInv, GrantInv, [Next]_vars PROVE GrantInv'
  OBVIOUS
<1> USE HostsAssumption, RunnerNoneAssumption
<1>0. /\ job \in [Runners -> Runners \cup {None}] /\ rec \in [Runners -> Runners \cup {None}]
      /\ status \in [Runners -> Statuses] /\ eof \in [Runners -> BOOLEAN]
      /\ pc \in [Runners -> Labels] /\ failure \in [Runners -> Failures]
      /\ cpc \in [Cancellers -> {"idle", "teardown"}]
      /\ cjob \in [Cancellers -> Runners \cup {None}]
  BY DEF RunInv, TypeOK
<1>1. CASE UNCHANGED vars
  BY <1>1, GrantStays DEF vars
<1>2. ASSUME NEW r \in Runners, Admit(r) PROVE GrantInv'
  <2>1. pc[r] = "start" /\ pc' = [pc EXCEPT ![r] = "admitted"]
        /\ UNCHANGED <<failure, rec, eof, stop, cpc, cjob>>
    BY <1>2 DEF Admit, Goto
  <2>2. job[r] = None /\ status[r] = "absent"
    BY <2>1 DEF GrantInv, Fresh
  <2>3. PICK t \in Runners :
          /\ job' = [job EXCEPT ![r] = t]
          /\ \/ t = r /\ status' = [status EXCEPT ![r] = "inProgress"]
             \/ InProgress(t) /\ status' = status
    BY <1>2 DEF Admit
  <2>4. \A u \in Runners : /\ Terminal(u) => Terminal(u)'
                           /\ status[u] # "absent" => status'[u] # "absent"
                           /\ ~Terminal(u)' => ~Terminal(u)
                           /\ status'[u] = "absent" => status[u] = "absent"
    BY <1>0, <2>2, <2>3 DEF Terminal, InProgress
  <2>5. \A q \in Runners : /\ pc'[q] = "start" => Fresh(q)'
                           /\ job'[q] # None => status'[job'[q]] # "absent"
    <3>1. status'[t] # "absent"
      BY <1>0, <2>3 DEF InProgress
    <3>2. \A q \in Runners \ {r} : job'[q] = job[q] /\ pc'[q] = pc[q] /\ status'[q] = status[q]
      BY <1>0, <2>1, <2>3
    <3>3. job'[r] = t /\ pc'[r] = "admitted"
      BY <1>0, <2>1, <2>3
    <3>4. \A q \in Runners : pc'[q] = "start" => Fresh(q)'
      BY <2>1, <3>2, <3>3 DEF GrantInv, Fresh
    <3> QED BY <1>0, <2>4, <3>1, <3>2, <3>3, <3>4 DEF GrantInv
  <2>6. \A u \in Runners : rec[u] # None => job'[rec[u]] = u
    <3>1. \A u \in Runners : rec[u] # None => rec[u] \in Runners /\ job[rec[u]] = u
      BY <1>0 DEF GrantInv
    <3>2. \A q \in Runners : job[q] \in Runners => job'[q] = job[q]
      BY <1>0, <2>2, <2>3
    <3> QED BY <3>1, <3>2
  <2>7. \A c \in Cancellers : cpc[c] = "teardown" => cjob[c] \in Runners
    BY DEF RunInv, JobInv
  <2> QED BY <2>1, <2>4, <2>5, <2>6, <2>7 DEF GrantInv
<1>3. ASSUME NEW r \in Runners, RunnerStep(r), UNCHANGED <<job, rec, eof, stop, cpc, cjob>>
      PROVE  GrantInv'
  BY <1>3, RunnerPublishes, RunnerGrants
<1>4. ASSUME NEW r \in Runners, Answer(r) \/ ConnectionError(r) PROVE GrantInv'
  <2>1. \A p \in Runners \ {r} : stop'[p] = stop[p]
    BY <1>4 DEF Answer, ConnectionError, RunInv, TypeOK
  <2> QED BY <1>4, <2>1, RunnerPublishes, RunnerGrants DEF Answer, ConnectionError
<1>5. ASSUME NEW r \in Runners, SetChildPid(r) PROVE GrantInv'
  <2>1. job[r] \in Runners
    BY <1>5 DEF SetChildPid, RunInv, JobInv
  <2>2. UNCHANGED <<job, status, failure, stop, cpc, cjob>>
    BY <1>5 DEF SetChildPid
  <2>3. /\ \A u \in Runners : rec'[u] # None => job[rec'[u]] = u
        /\ \A u \in Runners : eof'[u] => eof[u]
    BY <1>0, <1>5, <2>1 DEF SetChildPid, GrantInv
  <2>4. \A q \in Runners : pc'[q] = "start" => pc[q] = "start"
    BY <1>0, <1>5 DEF SetChildPid, Goto
  <2> QED BY <2>2, <2>3, <2>4 DEF GrantInv, Fresh, Terminal
<1>6. ASSUME NEW r \in Runners, MarkChildEof(r) PROVE GrantInv'
  <2>1. job[r] \in Runners /\ status[job[r]] # "absent"
    BY <1>6 DEF MarkChildEof, RunInv, JobInv, GrantInv
  <2>2. UNCHANGED <<job, status, failure, rec, stop, cpc, cjob>>
    BY <1>6 DEF MarkChildEof
  <2>3. \A u \in Runners : eof'[u] => eof[u] \/ u = job[r]
    BY <1>0, <1>6 DEF MarkChildEof
  <2>4. \A q \in Runners : pc'[q] = "start" => pc[q] = "start"
    BY <1>0, <1>6 DEF MarkChildEof, Goto
  <2> QED BY <2>1, <2>2, <2>3, <2>4 DEF GrantInv, Fresh, Terminal
<1>7. ASSUME NEW r \in Runners, Observe(r) PROVE GrantInv'
  <2>1. \A u \in Runners :
       \/ status'[u] = status[u] /\ failure'[u] = failure[u]
       \/ InProgress(u) /\ Terminal(u)'
    BY <1>0, <1>7 DEF Observe, Terminal
  <2> QED BY <1>7, <2>1, GrantStays DEF Observe
<1>8. ASSUME NEW r \in Runners, ChildDies(r) PROVE GrantInv'
  BY <1>8, GrantStays DEF ChildDies
<1>9. ASSUME NEW c \in Cancellers, CancelTeardown(c) PROVE GrantInv'
  <2>1. \A d \in Cancellers : cpc'[d] = "teardown" => cpc[d] = "teardown" /\ cjob'[d] = cjob[d]
    BY <1>0, <1>9 DEF CancelTeardown
  <2> QED BY <1>9, <2>1 DEF CancelTeardown, GrantInv, Fresh, Terminal
<1>10. ASSUME NEW c \in Cancellers, NEW t \in Runners, Cancel(c, t) PROVE GrantInv'
  <2>1. CASE /\ InProgress(t) /\ status' = [status EXCEPT ![t] = "failed"]
             /\ failure' = [failure EXCEPT ![t] = "worker_gone"]
             /\ UNCHANGED cancelVars
    <3>1. \A u \in Runners :
       \/ status'[u] = status[u] /\ failure'[u] = failure[u]
       \/ InProgress(u) /\ Terminal(u)'
      BY <1>0, <2>1 DEF Terminal
    <3> QED BY <1>10, <2>1, <3>1, GrantStays DEF Cancel
  <2>2. CASE /\ status' = [status EXCEPT ![t] = "interrupted"]
             /\ cpc' = [cpc EXCEPT ![c] = "teardown"]
             /\ cjob' = [cjob EXCEPT ![c] = t]
             /\ UNCHANGED failure
    <3>1. \A u \in Runners : /\ Terminal(u) \/ u = t => Terminal(u)'
                             /\ status'[u] = "absent" <=> status[u] = "absent"
                             /\ ~Terminal(u)' => ~Terminal(u)
      BY <1>0, <1>10, <2>2 DEF Terminal, Cancel
    <3>2. UNCHANGED <<job, rec, eof, pc, stop, failure>>
      BY <1>10, <2>2 DEF Cancel
    <3>3. \A d \in Cancellers : cpc'[d] = "teardown" => Terminal(cjob[d])'
      <4>1. cjob'[c] = t /\ \A d \in Cancellers \ {c} : cpc'[d] = cpc[d] /\ cjob'[d] = cjob[d]
        BY <1>0, <2>2
      <4>2. \A d \in Cancellers : cpc[d] = "teardown" => cjob[d] \in Runners /\ Terminal(cjob[d])
        BY DEF RunInv, JobInv, GrantInv
      <4> QED BY <3>1, <4>1, <4>2
    <3>4. \A q \in Runners : job[q] # None => job[q] \in Runners
      BY <1>0
    <3> QED BY <3>1, <3>2, <3>3, <3>4 DEF GrantInv, Fresh
  <2> QED BY <1>10, <2>1, <2>2 DEF Cancel
<1>11. ASSUME NEW h \in Hosts,
              \/ HostStep(h) \/ SignalStep(h) \/ StdinEof(h) \/ Signal(h) \/ KillHost(h)
       PROVE  GrantInv'
  BY <1>11, GrantStays DEF HostStep, SignalStep, SweepSlot, SweepKill, EndSweep, ExitHost,
    StdinEof, Signal, SignalSlot, SignalExit, KillHost, Gone
<1>12. ASSUME NEW r \in Runners, RunnerStep(r)
       PROVE  \/ SetChildPid(r) \/ MarkChildEof(r)
              \/ UNCHANGED <<job, rec, eof, stop, cpc, cjob>>
  BY <1>12 DEF RunnerStep, BeginAcpSpawn, BeginFails, CheckShutdown, Spawn, SpawnFails,
    TrackChild, SetChildPidFails, Recheck, PublishStop, Reap, Finish
<1> QED BY <1>1, <1>2, <1>3, <1>4, <1>5, <1>6, <1>7, <1>8, <1>9, <1>10, <1>11, <1>12
    DEF Next

\* A host sweeps and registers only children of its own.
LEMMA TableKeeps ==
  RunInv /\ TableInv /\ [Next]_vars => TableInv'
<1> SUFFICES ASSUME RunInv, TableInv, [Next]_vars PROVE TableInv'
  OBVIOUS
<1> USE HostsAssumption, RunnerNoneAssumption
<1>0. /\ table \in [Hosts -> SUBSET Runners] /\ sweep \in [Hosts -> Runners \cup {None}]
      /\ exit \in [Hosts -> {"up", "sweeping", "lastSweep", "exited"}]
      /\ \A r \in Runners : Host(r) \in Hosts
  BY DEF RunInv, TypeOK, Host
<1>1. ASSUME UNCHANGED hostVars PROVE TableInv'
  BY <1>1 DEF TableInv, Host
<1>2. ASSUME NEW r \in Runners, TrackChild(r) \/ Reap(r) PROVE TableInv'
  <2>1. UNCHANGED <<exit, sweep>>
    BY <1>2 DEF TrackChild, Reap
  <2>2. \A h \in Hosts : table'[h] \subseteq table[h] \cup (IF h = Host(r) THEN {r} ELSE {})
    BY <1>0, <1>2 DEF TrackChild, Reap
  <2> QED BY <2>1, <2>2 DEF TableInv, Host
<1>3. ASSUME NEW h \in Hosts, SweepSlot(h) PROVE TableInv'
  <2>1. PICK k \in table[h] : /\ sweep' = [sweep EXCEPT ![h] = k]
                              /\ table' = [table EXCEPT ![h] = table[h] \ {k}]
    BY <1>3 DEF SweepSlot
  <2>2. exit[h] # "up" /\ UNCHANGED exit
    BY <1>3 DEF SweepSlot
  <2> QED BY <1>0, <2>1, <2>2 DEF TableInv, Host
<1>4. ASSUME NEW h \in Hosts, SweepKill(h) PROVE TableInv'
  BY <1>0, <1>4 DEF SweepKill, TableInv, Host
<1>5. ASSUME NEW h \in Hosts,
             \/ EndSweep(h) \/ ExitHost(h) \/ StdinEof(h)
             \/ Signal(h) \/ SignalStep(h) \/ KillHost(h)
      PROVE  TableInv'
  <2>1. UNCHANGED sweep /\ \A g \in Hosts : exit'[g] = "up" => exit[g] = "up"
    BY <1>0, <1>5 DEF EndSweep, ExitHost, StdinEof, Signal, SignalStep, SignalSlot,
      SignalExit, KillHost, Gone
  <2>2. \A g \in Hosts : table'[g] \subseteq table[g]
    BY <1>0, <1>5 DEF EndSweep, ExitHost, StdinEof, Signal, SignalStep, SignalSlot,
      SignalExit, KillHost, Gone
  <2> QED BY <2>1, <2>2 DEF TableInv, Host
<1>6. ASSUME NEW r \in Runners,
             \/ Admit(r) \/ RunnerStep(r) \/ Answer(r) \/ ConnectionError(r)
             \/ Observe(r) \/ ChildDies(r)
      PROVE  TrackChild(r) \/ Reap(r) \/ UNCHANGED hostVars
  BY <1>6 DEF Admit, RunnerStep, BeginAcpSpawn, BeginFails, CheckShutdown, Spawn, SpawnFails,
    SetChildPid, SetChildPidFails, Recheck, PublishStop, MarkChildEof, Finish, Answer,
    ConnectionError, Observe, ChildDies
<1>7. ASSUME NEW c \in Cancellers, CancelTeardown(c) \/ \E t \in Runners : Cancel(c, t)
      PROVE  TableInv'
  BY <1>1, <1>7 DEF CancelTeardown, Cancel
<1>8. CASE UNCHANGED vars
  BY <1>1, <1>8 DEF vars
<1> QED BY <1>1, <1>2, <1>3, <1>4, <1>5, <1>6, <1>7, <1>8 DEF Next, HostStep

-----------------------------------------------------------------------------
\* The generation of a turn that waits for its answer is not dead, so nobody
\* who looks at it can converge it.
LEMMA GenerationLives ==
  ASSUME RunInv, GrantInv, NEW r \in Runners, Alone(r), Answerable(r),
         pc[r] \in Driving, InProgress(r)
  PROVE  ~GenerationIsDead(r)
<1>1. OwnerAlive(r)
  BY DEF Alone, OwnerAlive, Up, Driving, ShuttingDown
<1>2. ~eof[r]
  BY DEF Answerable
<1>3. rec[r] # None => rec[r] = r
  <2>1. rec[r] # None => rec[r] \in Runners /\ job[rec[r]] = r
    <3>1. rec \in [Runners -> Runners \cup {None}]
      BY DEF RunInv, TypeOK
    <3> QED BY <3>1 DEF GrantInv
  <2> QED BY <2>1 DEF Alone, Sole
<1> QED BY <1>1, <1>2, <1>3 DEF Alone, Answerable, GenerationIsDead, ChildIsDead

\* The runner stands still, its turn at most ends as published, and its child
\* lives on unless the turn is over.
LEMMA StandsStill ==
  ASSUME NEW r \in Runners, Answerable(r), Published(r),
         pc'[r] = pc[r], stop'[r] = stop[r], rec'[r] = rec[r], eof'[r] = eof[r],
         InProgress(r)' => life'[r] = life[r]
  PROVE  Answerable(r)'
BY DEF Answerable, Published, InProgress, Terminal

\* Nothing that sets a runner apart is ever undone.
Later ==
  /\ self \subseteq self' /\ unpublished \subseteq unpublished'
  /\ \A r \in Runners : ShuttingDown(r) => ShuttingDown(r)'

\* A step that grants no turn adds no runner to those that are alone.
LEMMA AloneBefore ==
  ASSUME UNCHANGED job, Later, NEW r \in Runners, Alone(r)'
  PROVE  Alone(r)
BY DEF Alone, Sole, Later

\* A step of runner q that records children and ends only of its own turn.
LEMMA RunnerAlone ==
  ASSUME RunInv, AloneInv, NEW q \in Runners, UNCHANGED <<job, self, exit, handler>>,
         unpublished \subseteq unpublished',
         \A u \in Runners : Published(u),
         \A u \in Runners \ {q} : pc'[u] = pc[u] /\ stop'[u] = stop[u] /\ life'[u] = life[u],
         \A u \in Runners : u # job[q] => rec'[u] = rec[u] /\ eof'[u] = eof[u],
         Alone(q) /\ Alone(q)' /\ Answerable(q) => Answerable(q)'
  PROVE  AloneInv'
<1> SUFFICES ASSUME NEW r \in Runners, Alone(r)'
             PROVE  Answerable(r)'
  BY DEF AloneInv
<1>0. Later
  BY DEF Later, ShuttingDown, Host
<1>1. Alone(r) /\ Answerable(r)
  BY <1>0, AloneBefore DEF AloneInv
<1>2. CASE r # q
  <2>1. job[q] # r
    BY <1>1, <1>2 DEF Alone, Sole
  <2> QED BY <1>1, <1>2, <2>1, StandsStill
<1>3. CASE r = q
  BY <1>1, <1>3
<1> QED BY <1>2, <1>3

\* A step that only moves runner q.
LEMMA MoveAlone ==
  ASSUME RunInv, AloneInv, NEW q \in Runners, pc[q] # "publish",
         UNCHANGED <<status, failure, rec, eof, job, self, unpublished, exit, handler,
                     stop, life>>,
         NEW l \in Labels, Goto(q, l),
         l \in Driving => pc[q] \in Driving,
         l \in {"track", "record"} => pc[q] \in {"track", "record"}
  PROVE  AloneInv'
<1>1. pc'[q] = l /\ \A u \in Runners \ {q} : pc'[u] = pc[u]
  BY GotoType DEF RunInv
<1>2. \A u \in Runners : Published(u)
  BY DEF Published
<1>3. Answerable(q) => Answerable(q)'
  BY <1>1 DEF Answerable, InProgress
<1> QED BY <1>1, <1>2, <1>3, RunnerAlone

\* A step of runner q that publishes a failure, or fails to, and gives the turn
\* up.
LEMMA FailAlone ==
  ASSUME RunInv, AloneInv, NEW q \in Runners, job[q] \in Runners, pc[q] # "publish",
         UNCHANGED <<rec, eof, job, self, unpublished, exit, handler, stop>>,
         \A u \in Runners \ {q} : life'[u] = life[u],
         TryPublish(q, "failed"), NEW l \in Labels \ Driving, Goto(q, l)
  PROVE  AloneInv'
<1>1. pc'[q] = l /\ \A u \in Runners \ {q} : pc'[u] = pc[u]
  BY GotoType DEF RunInv
<1>2. \A u \in Runners : Published(u)
  <2>1. CASE Publish(job[q], "failed")
    BY <2>1, PublishEffect DEF RunInv
  <2>2. CASE UNCHANGED <<status, failure>>
    BY <2>2 DEF Published
  <2> QED BY <2>1, <2>2 DEF TryPublish
<1>3. Answerable(q) => Answerable(q)'
  BY <1>1, <1>2 DEF Answerable, Published, InProgress, Terminal
<1> QED BY <1>1, <1>2, <1>3, RunnerAlone

\* A step that leaves the runners where they are and kills only children of
\* turns that are over.
LEMMA WorldAlone ==
  ASSUME RunInv, AloneInv, UNCHANGED <<rec, eof, pc, job, stop>>, Later,
         \A r \in Runners : Alone(r)' =>
           /\ Alone(r) /\ Answerable(r) => Published(r)
           /\ InProgress(r)' => life'[r] = life[r]
  PROVE  AloneInv'
<1> SUFFICES ASSUME NEW r \in Runners, Alone(r)'
             PROVE  Answerable(r)'
  BY DEF AloneInv
<1>1. Alone(r) /\ Answerable(r)
  BY AloneBefore DEF AloneInv
<1> QED BY <1>1, StandsStill

\* An observer, or a cancel, that converges a turn with a dead generation: not
\* one that waits for its answer, nor one that has had it.
LEMMA ConvergeAlone ==
  ASSUME RunInv, GrantInv, AloneInv, NEW t \in Runners, InProgress(t), GenerationIsDead(t),
         status' = [status EXCEPT ![t] = "failed"],
         failure' = [failure EXCEPT ![t] = "worker_gone"],
         UNCHANGED <<rec, eof, pc, job, stop, life, self, unpublished, exit, handler>>
  PROVE  AloneInv'
<1> SUFFICES ASSUME NEW r \in Runners, Alone(r)'
             PROVE  Answerable(r)'
  BY DEF AloneInv
<1>1. Alone(r) /\ Answerable(r)
  BY AloneBefore DEF AloneInv, Later, ShuttingDown, Host
<1>2. CASE r # t
  BY <1>1, <1>2, StandsStill DEF Published, RunInv, TypeOK
<1>3. CASE r = t
  <2>1. pc[r] \notin Driving
    BY <1>1, <1>3, GenerationLives
  <2> QED BY <1>1, <1>3, <2>1 DEF Answerable
<1> QED BY <1>2, <1>3

\* No step takes the answer away from a turn that is alone with its runner.
LEMMA AloneKeeps ==
  AnswerInv /\ [Next]_vars => AloneInv'
<1> SUFFICES ASSUME AnswerInv, [Next]_vars PROVE AloneInv'
  OBVIOUS
<1> USE HostsAssumption, RunnerNoneAssumption DEF AnswerInv
<1>0. /\ life \in [Runners -> {"unborn", "alive", "dead"}]
      /\ stop \in [Runners -> {"", "completed", "interrupted", "failed", "error"}]
      /\ status \in [Runners -> Statuses] /\ eof \in [Runners -> BOOLEAN]
      /\ rec \in [Runners -> Runners \cup {None}] /\ job \in [Runners -> Runners \cup {None}]
      /\ exit \in [Hosts -> {"up", "sweeping", "lastSweep", "exited"}]
      /\ handler \in [Hosts -> BOOLEAN]
      /\ \A r \in Runners : Host(r) \in Hosts
  BY DEF RunInv, TypeOK, Host
<1>s. UNCHANGED <<self, unpublished, exit, handler>> => Later
  BY DEF Later, ShuttingDown, Host
<1>j. \A q \in Runners : pc[q] # "start" => job[q] \in Runners
  BY DEF RunInv, JobInv
<1>p. UNCHANGED <<status, failure>> => \A u \in Runners : Published(u)
  BY DEF Published
<1>1. CASE UNCHANGED vars
  BY <1>1, <1>p, <1>s, WorldAlone DEF vars
<1>2. ASSUME NEW r \in Runners, Admit(r) PROVE AloneInv'
  <2>1. /\ pc[r] = "start" /\ job[r] = None /\ status[r] = "absent"
        /\ UNCHANGED <<failure, rec, eof, stop, life, self, unpublished, exit, handler>>
    BY <1>2 DEF Admit, GrantInv, Fresh
  <2>2. pc'[r] = "admitted" /\ \A q \in Runners \ {r} : pc'[q] = pc[q]
    BY <1>2, GotoType DEF Admit, Labels, RunInv
  <2>3. \A q \in Runners \ {r} : job'[q] = job[q] /\ status'[q] = status[q]
    BY <1>0, <1>2 DEF Admit
  <2>4. ASSUME NEW q \in Runners, Alone(q)' PROVE Answerable(q)'
    <3>1. CASE q # r
      <4>1. Alone(q)
        BY <2>1, <2>3, <2>4, <3>1 DEF Alone, Sole, ShuttingDown, Host
      <4> QED BY <2>1, <2>2, <2>3, <3>1, <4>1, StandsStill DEF AloneInv, Published, InProgress
    <3>2. CASE q = r
      \* The turn is new: it has no child, no end and no reason of failure.
      <4>1. rec[r] = None
        <5>1. rec[r] # None => rec[r] \in Runners /\ job[rec[r]] = r
          BY <1>0 DEF GrantInv
        <5>2. \A p \in Runners : job[p] # r
          BY <2>1 DEF GrantInv
        <5> QED BY <5>1, <5>2
      <4>2. ~eof[r] /\ failure[r] # "worker_gone"
        BY <2>1 DEF GrantInv, Terminal
      <4>3. stop[r] = ""
        BY <2>1 DEF GrantInv, Fresh
      <4> QED BY <2>1, <2>2, <3>2, <4>1, <4>2, <4>3, AnswersAssumption DEF Answerable
    <3> QED BY <3>1, <3>2
  <2> QED BY <2>4 DEF AloneInv
<1>3. ASSUME NEW r \in Runners, BeginAcpSpawn(r) \/ CheckShutdown(r) \/ Recheck(r)
      PROVE  AloneInv'
  BY <1>3, MoveAlone DEF BeginAcpSpawn, CheckShutdown, Recheck, Labels, Driving
<1>4. ASSUME NEW r \in Runners, BeginFails(r) \/ SpawnFails(r) \/ SetChildPidFails(r)
      PROVE  AloneInv'
  BY <1>j, <1>4, FailAlone DEF BeginFails, SpawnFails, SetChildPidFails, Labels, Driving
<1>5. ASSUME NEW r \in Runners, Spawn(r) PROVE AloneInv'
  <2>1. pc'[r] = "track" /\ \A q \in Runners \ {r} : pc'[q] = pc[q]
    BY <1>5, GotoType DEF Spawn, Labels, RunInv
  <2>2. life'[r] = "alive" /\ \A q \in Runners \ {r} : life'[q] = life[q]
    BY <1>0, <1>5 DEF Spawn
  <2>3. pc[r] = "spawn" /\ UNCHANGED <<status, failure, rec, eof, job, stop, self, unpublished, exit, handler>>
    BY <1>5 DEF Spawn
  <2>4. Answerable(r) => Answerable(r)'
    BY <2>1, <2>2, <2>3 DEF Answerable, Driving, InProgress
  <2> QED BY <1>p, <2>1, <2>2, <2>3, <2>4, RunnerAlone
<1>6. ASSUME NEW r \in Runners, TrackChild(r) PROVE AloneInv'
  <2>1. CASE Goto(r, "record") /\ UNCHANGED <<status, failure, life>>
    BY <1>6, <2>1, MoveAlone DEF TrackChild, Labels, Driving
  <2>2. CASE Kill(r) /\ TryPublish(r, "failed") /\ Goto(r, "done")
    BY <1>j, <1>6, <2>2, FailAlone, KillType DEF TrackChild, Labels, Driving, RunInv
  <2> QED BY <1>6, <2>1, <2>2 DEF TrackChild
<1>7. ASSUME NEW r \in Runners, SetChildPid(r) PROVE AloneInv'
  <2>1. pc'[r] = "recheck" /\ \A q \in Runners \ {r} : pc'[q] = pc[q]
    BY <1>7, GotoType DEF SetChildPid, Labels, RunInv
  <2>2. pc[r] = "record" /\ UNCHANGED <<status, failure, job, stop, life, self, unpublished, exit, handler>>
    BY <1>7 DEF SetChildPid
  <2>3. \A u \in Runners : u # job[r] => rec'[u] = rec[u] /\ eof'[u] = eof[u]
    BY <1>0, <1>7 DEF SetChildPid
  <2>4. job[r] = r => ~eof'[r]
    BY <1>0, <1>7 DEF SetChildPid
  <2>5. Alone(r) /\ Answerable(r) => Answerable(r)'
    BY <2>1, <2>2, <2>4 DEF Alone, Answerable, Driving, InProgress
  <2> QED BY <1>p, <2>1, <2>2, <2>3, <2>5, RunnerAlone
<1>8. ASSUME NEW r \in Runners, Reap(r) PROVE AloneInv'
  <2>1. pc'[r] \notin Driving /\ \A q \in Runners \ {r} : pc'[q] = pc[q]
    BY <1>8, GotoType DEF Reap, Labels, RunInv, Driving
  <2>2. \A q \in Runners \ {r} : life'[q] = life[q]
    BY <1>8, KillType DEF Reap, RunInv
  <2>3. UNCHANGED <<status, failure, rec, eof, job, stop, self, unpublished, exit, handler>>
    BY <1>8 DEF Reap
  <2>4. Answerable(r) => Answerable(r)'
    BY <1>8, <2>1, <2>3 DEF Reap, Answerable, InProgress
  <2> QED BY <1>p, <2>1, <2>2, <2>3, <2>4, RunnerAlone
<1>9. ASSUME NEW r \in Runners, MarkChildEof(r) PROVE AloneInv'
  <2>1. pc'[r] = "finish" /\ \A q \in Runners \ {r} : pc'[q] = pc[q]
    BY <1>9, GotoType DEF MarkChildEof, Labels, RunInv
  <2>2. UNCHANGED <<status, failure, rec, job, stop, life, self, unpublished, exit, handler>>
    BY <1>9 DEF MarkChildEof
  <2>3. \A u \in Runners : u # job[r] => eof'[u] = eof[u]
    BY <1>0, <1>9 DEF MarkChildEof
  <2>4. Answerable(r) => Answerable(r)'
    BY <1>9, <2>1, <2>2 DEF MarkChildEof, Answerable, Driving, InProgress
  <2> QED BY <1>p, <2>1, <2>2, <2>3, <2>4, RunnerAlone
<1>10. ASSUME NEW r \in Runners, Finish(r) \/ PublishStop(r) \/ ConnectionError(r)
       PROVE  AloneInv'
  <2>1. \A u \in Runners : Published(u)
    BY <1>10, RunnerPublishes DEF RunnerStep
  <2>2. pc'[r] \notin Driving /\ \A q \in Runners \ {r} : pc'[q] = pc[q]
    BY <1>10, GotoType DEF Finish, PublishStop, ConnectionError, Labels, RunInv, Driving
  <2>3. /\ UNCHANGED <<rec, eof, job, life, self, exit, handler>>
        /\ unpublished \subseteq unpublished'
    BY <1>10 DEF Finish, PublishStop, ConnectionError
  <2>4. \A q \in Runners \ {r} : stop'[q] = stop[q]
    BY <1>0, <1>10 DEF Finish, PublishStop, ConnectionError
  <2>5. ASSUME Alone(r), Alone(r)', Answerable(r) PROVE Answerable(r)'
    <3>1. CASE Finish(r)
      BY <2>1, <2>2, <2>5, <3>1 DEF Finish, Answerable, Published, InProgress, Terminal
    <3>2. CASE ConnectionError(r)
      BY <1>0, <2>2, <3>2, AnswersAssumption DEF ConnectionError, Answerable
    <3>3. CASE PublishStop(r)
      \* The write went well.  The turn was in progress and is what was
      \* published, or it was over and kept its reason, which was not
      \* worker_gone.
      <4>1. pc[r] = "publish" /\ job[r] = r
        BY <2>5, <3>3 DEF PublishStop, Alone
      <4>2. failure[r] # "worker_gone"
        BY <2>5, <4>1 DEF Answerable, Driving
      <4>3. ~InProgress(r)'
        <5>1. Publish(r, stop[r])
          BY <2>5, <3>3, <4>1 DEF PublishStop, Alone
        <5>2. stop[r] \in {"completed", "interrupted", "failed"}
          BY <1>0, <4>1 DEF RunInv, JobInv
        <5> QED BY <5>1, <5>2, PublishEffect DEF RunInv
      <4>4. failure'[r] # "worker_gone"
        BY <2>1, <4>2 DEF Published
      <4> QED BY <2>2, <4>3, <4>4 DEF Answerable
    <3> QED BY <1>10, <3>1, <3>2, <3>3
  <2> QED BY <2>1, <2>2, <2>3, <2>4, <2>5, RunnerAlone
<1>18. ASSUME NEW r \in Runners, Answer(r) PROVE AloneInv'
  <2>1. pc[r] = "drive" /\ pc'[r] = "publish" /\ \A q \in Runners \ {r} : pc'[q] = pc[q]
    BY <1>18, GotoType DEF Answer, Labels, RunInv
  <2>2. UNCHANGED <<status, failure, rec, eof, job, life, self, unpublished, exit, handler>>
    BY <1>18 DEF Answer
  <2>3. \A q \in Runners \ {r} : stop'[q] = stop[q]
    BY <1>0, <1>18 DEF Answer
  <2>4. Answerable(r) => Answerable(r)'
    BY <2>1, <2>2 DEF Answerable, Driving, InProgress
  <2> QED BY <1>p, <2>1, <2>2, <2>3, <2>4, RunnerAlone
<1>11. ASSUME NEW r \in Runners, Observe(r) PROVE AloneInv'
  BY <1>11, ConvergeAlone DEF Observe
<1>12. ASSUME NEW r \in Runners, ChildDies(r) PROVE AloneInv'
  <2>1. /\ UNCHANGED <<status, failure, rec, eof, pc, job, stop, unpublished, exit, handler>>
        /\ self \subseteq self' /\ (InProgress(job[r]) => r \in self')
    BY <1>12 DEF ChildDies
  <2>2. Later
    BY <2>1 DEF Later, ShuttingDown, Host
  <2>3. \A q \in Runners : Alone(q)' /\ InProgress(q)' => life'[q] = life[q]
    BY <1>0, <1>12, <2>1 DEF ChildDies, Alone, InProgress
  <2> QED BY <1>p, <2>1, <2>2, <2>3, WorldAlone
<1>13. ASSUME NEW c \in Cancellers, CancelTeardown(c) PROVE AloneInv'
  <2>1. UNCHANGED <<status, failure, rec, eof, pc, job, stop, self, unpublished, exit, handler>>
    BY <1>13 DEF CancelTeardown
  <2>2. cjob[c] \in Runners /\ Terminal(cjob[c])
    BY <1>13 DEF CancelTeardown, RunInv, JobInv, GrantInv
  <2>3. ASSUME NEW r \in Runners, Alone(r)', InProgress(r)' PROVE life'[r] = life[r]
    <3>1. Alone(r) /\ InProgress(r)
      BY <1>s, <2>1, <2>3, AloneBefore DEF InProgress
    <3>2. rec[cjob[c]] # r
      \* The child of a turn that is alone is recorded in that turn only.
      BY <2>2, <3>1 DEF GrantInv, Alone, Terminal, InProgress
    <3>3. rec[cjob[c]] # None => rec[cjob[c]] \in Runners
      BY <1>0, <2>2
    <3> QED BY <1>13, <3>2, <3>3, KillType DEF CancelTeardown, RunInv
  <2> QED BY <1>p, <1>s, <2>1, <2>3, WorldAlone
<1>14. ASSUME NEW c \in Cancellers, NEW t \in Runners, Cancel(c, t) PROVE AloneInv'
  <2>1. CASE /\ InProgress(t) /\ GenerationIsDead(t)
             /\ status' = [status EXCEPT ![t] = "failed"]
             /\ failure' = [failure EXCEPT ![t] = "worker_gone"]
    BY <1>14, <2>1, ConvergeAlone DEF Cancel
  <2>2. CASE status' = [status EXCEPT ![t] = "interrupted"] /\ UNCHANGED failure
    <3>1. \A u \in Runners : Published(u)
      BY <1>0, <1>14, <2>2 DEF Cancel, Published, GrantInv, Terminal, InProgress
    <3> QED BY <1>s, <1>14, <3>1, WorldAlone DEF Cancel
  <2> QED BY <1>14, <2>1, <2>2 DEF Cancel
<1>15. ASSUME NEW h \in Hosts,
              \/ SweepSlot(h) \/ EndSweep(h) \/ ExitHost(h) \/ StdinEof(h)
              \/ Signal(h) \/ SignalExit(h) \/ KillHost(h)
       PROVE  AloneInv'
  <2>1. UNCHANGED <<status, failure, rec, eof, pc, job, stop, life, self, unpublished>>
    BY <1>15 DEF SweepSlot, EndSweep, ExitHost, StdinEof, Signal, SignalExit, KillHost, Gone
  <2>2. \A g \in Hosts : /\ exit'[g] = "up" => exit[g] = "up"
                         /\ handler[g] => handler'[g] \/ exit'[g] # "up"
    BY <1>0, <1>15
      DEF SweepSlot, EndSweep, ExitHost, StdinEof, Signal, SignalExit, KillHost, Gone
  <2>3. Later
    BY <1>0, <2>1, <2>2 DEF Later, ShuttingDown, Host
  <2> QED BY <1>p, <2>1, <2>3, WorldAlone
<1>16. ASSUME NEW h \in Hosts, SweepKill(h) PROVE AloneInv'
  <2>1. /\ UNCHANGED <<status, failure, rec, eof, pc, job, stop, self, unpublished, exit, handler>>
        /\ sweep[h] # None
    BY <1>16 DEF SweepKill
  <2>2. sweep[h] \in Runners /\ exit[Host(sweep[h])] # "up"
    BY <2>1 DEF RunInv, TypeOK, TableInv
  <2>3. \A r \in Runners : Alone(r)' => life'[r] = life[r]
    BY <1>16, <2>1, <2>2, KillType DEF SweepKill, Alone, RunInv, ShuttingDown, Host
  <2> QED BY <1>p, <1>s, <2>1, <2>3, WorldAlone
<1>17. ASSUME NEW h \in Hosts, SignalSlot(h) PROVE AloneInv'
  <2>1. /\ UNCHANGED <<status, failure, rec, eof, pc, job, stop, self, unpublished, exit, handler>>
        /\ handler[h]
    BY <1>17 DEF SignalSlot
  <2>2. PICK k \in table[h] : Kill(k)
    BY <1>17 DEF SignalSlot
  <2>3. k \in Runners /\ Host(k) = h
    BY DEF TableInv, RunInv, TypeOK
  <2>4. \A r \in Runners : Alone(r)' => life'[r] = life[r]
    BY <2>1, <2>2, <2>3, KillType DEF Alone, RunInv, ShuttingDown, Host
  <2> QED BY <1>p, <1>s, <2>1, <2>4, WorldAlone
<1> QED BY <1>1, <1>2, <1>3, <1>4, <1>5, <1>6, <1>7, <1>8, <1>9, <1>10, <1>11, <1>12,
           <1>13, <1>14, <1>15, <1>16, <1>17, <1>18
    DEF Next, RunnerStep, HostStep, SignalStep

\* The inductive invariant of the answer.
THEOREM AnswerInvariant == Spec => []AnswerInv
<1>1. AnswerInv /\ [Next]_vars => AnswerInv'
  <2> SUFFICES ASSUME AnswerInv, [Next]_vars PROVE AnswerInv'
    OBVIOUS
  <2>1. RunInv'
    BY TypeKeeps, JobKeeps, ReapKeeps DEF RunInv, AnswerInv
  <2> QED BY <2>1, GrantKeeps, TableKeeps, AloneKeeps DEF AnswerInv
<1> QED BY <1>1, AnswerInit, PTL DEF Spec

\* run_turn publishes the stop while the connection and the child are open, so
\* that nobody can take the turn for one whose worker is gone, unless that write
\* fails, the agent ends first or the live file is not locked: for any number of
\* hosts, runners, cancellers and observers.
THEOREM AnswerIsNotLost == Spec => []AnsweredIsNotWorkerGone
<1>1. AnswerInv => AnsweredIsNotWorkerGone
  BY DEF AnswerInv, AloneInv, Alone, Answerable, Driving, AnsweredIsNotWorkerGone
<1> QED BY <1>1, AnswerInvariant, PTL
=============================================================================
