---------------------------- MODULE McpHostProofs ----------------------------
(***************************************************************************)
(* Proofs about module McpHost for any number of turns and requests and    *)
(* any set of tools.                                                       *)
(***************************************************************************)
EXTENDS McpHost, TLAPS

\* Every request is in the pipe, in the hands of the loop or answered.
Busy == IF loop \in {"read", "exited"} THEN 0 ELSE 1
Account == calls = replies + Len(stdin) + Busy

\* What the loop has in its hands is about a turn.
McpInv ==
  /\ TypeOK
  /\ Account
  /\ loop \in {"spawn", "await", "wait"} => arg \in Turns

Statuses == {"absent", "inProgress", "completed", "interrupted", "failed"}

-----------------------------------------------------------------------------
\* Reading the first request of the pipe.
LEMMA Reading ==
  ASSUME NEW s \in Seq(Call), s # <<>>
  PROVE  /\ Head(s).turn \in Turns /\ Head(s).tool \in Tools
         /\ Tail(s) \in Seq(Call)
         /\ Len(s) \in Nat /\ Len(Tail(s)) \in Nat /\ Len(s) = Len(Tail(s)) + 1
<1>1. Head(s) \in Call /\ Tail(s) \in Seq(Call)
  OBVIOUS
<1>2. Len(s) \in Nat /\ Len(Tail(s)) \in Nat /\ Len(s) = Len(Tail(s)) + 1
  OBVIOUS
<1> QED BY <1>1, <1>2 DEF Call

\* Writing one more.
LEMMA Asking ==
  ASSUME NEW s \in Seq(Call), NEW c \in Call
  PROVE  Append(s, c) \in Seq(Call) /\ Len(Append(s, c)) = Len(s) + 1 /\ Len(s) \in Nat
OBVIOUS

\* An observed turn keeps its type.
LEMMA ObservedType ==
  ASSUME TypeOK, NEW t \in Turns
  PROVE  Observed(t) \in [Turns -> Statuses]
BY DEF TypeOK, Observed, Statuses

\* A request the loop has read and answered.
LEMMA ReplyToRead ==
  ASSUME McpInv, NEW tool, ReadLine(tool), Reply,
         bg' \in [Turns -> {"none", "admitting", "late", "run", "refused"}],
         status' \in [Turns -> Statuses],
         agent' \in [Turns -> {"none", "alive", "dead"}],
         pend' \subseteq Turns, known' \subseteq Turns
  PROVE  McpInv'
<1>1. /\ loop = "read" /\ stdin # <<>> /\ stdin' = Tail(stdin)
      /\ loop' = "read" /\ arg' = None /\ replies' = replies + 1
      /\ calls' = calls /\ closed' = closed
  BY DEF ReadLine, Reply
<1>2. /\ stdin \in Seq(Call) /\ calls \in 0..MaxCalls /\ closed \in BOOLEAN
      /\ replies \in 0..MaxCalls /\ calls = replies + Len(stdin)
  BY <1>1 DEF McpInv, TypeOK, Account, Busy
<1>3. /\ stdin' \in Seq(Call) /\ Len(stdin) \in Nat /\ Len(stdin') \in Nat
      /\ Len(stdin) = Len(stdin') + 1
  BY <1>1, <1>2, Reading
<1>4. calls' = replies' + Len(stdin') /\ replies' \in 0..MaxCalls
  BY <1>1, <1>2, <1>3, MaxCallsAssumption
<1> QED BY <1>1, <1>2, <1>3, <1>4 DEF McpInv, TypeOK, Account, Busy, Statuses

\* A request the loop had in its hands and has answered.
LEMMA ReplyToHeld ==
  ASSUME McpInv, loop \in {"spawn", "await", "wait"}, Reply, UNCHANGED callVars,
         bg' \in [Turns -> {"none", "admitting", "late", "run", "refused"}],
         status' \in [Turns -> Statuses],
         agent' \in [Turns -> {"none", "alive", "dead"}],
         pend' \subseteq Turns, known' \subseteq Turns
  PROVE  McpInv'
<1>1. /\ loop' = "read" /\ arg' = None /\ replies' = replies + 1
      /\ stdin' = stdin /\ calls' = calls /\ closed' = closed
  BY DEF Reply, callVars
<1>2. /\ stdin \in Seq(Call) /\ calls \in 0..MaxCalls /\ closed \in BOOLEAN
      /\ replies \in 0..MaxCalls /\ calls = replies + Len(stdin) + 1
  BY DEF McpInv, TypeOK, Account, Busy
<1>3. Len(stdin) \in Nat
  BY <1>2
<1>4. calls' = replies' + Len(stdin') /\ replies' \in 0..MaxCalls
  BY <1>1, <1>2, <1>3, MaxCallsAssumption
<1> QED BY <1>1, <1>2, <1>4 DEF McpInv, TypeOK, Account, Busy, Statuses

\* A request the loop has read and goes on with.
LEMMA TakenToHand ==
  ASSUME McpInv, NEW tool, ReadLine(tool), UNCHANGED <<replies, status, agent, pend, known>>,
         loop' \in {"spawn", "await", "wait"}, arg' = Head(stdin).turn,
         bg' \in [Turns -> {"none", "admitting", "late", "run", "refused"}]
  PROVE  McpInv'
<1>1. /\ loop = "read" /\ stdin # <<>> /\ stdin' = Tail(stdin)
      /\ calls' = calls /\ closed' = closed
  BY DEF ReadLine
<1>2. /\ stdin \in Seq(Call) /\ calls \in 0..MaxCalls /\ closed \in BOOLEAN
      /\ replies \in 0..MaxCalls /\ calls = replies + Len(stdin)
  BY <1>1 DEF McpInv, TypeOK, Account, Busy
<1>3. /\ stdin' \in Seq(Call) /\ Len(stdin) \in Nat /\ Len(stdin') \in Nat
      /\ Len(stdin) = Len(stdin') + 1 /\ Head(stdin).turn \in Turns
  BY <1>1, <1>2, Reading
<1>4. calls' = replies' + Len(stdin') + 1
  BY <1>1, <1>2, <1>3
<1> QED BY <1>1, <1>2, <1>3, <1>4 DEF McpInv, TypeOK, Account, Busy

\* A turn that changes while the loop does nothing.
LEMMA TurnChanges ==
  ASSUME McpInv, UNCHANGED <<stdin, calls, closed, loop, arg, replies, known>>,
         bg' \in [Turns -> {"none", "admitting", "late", "run", "refused"}],
         status' \in [Turns -> Statuses],
         agent' \in [Turns -> {"none", "alive", "dead"}],
         pend' \subseteq Turns
  PROVE  McpInv'
BY DEF McpInv, TypeOK, Account, Busy, Statuses

\* Nothing has been asked.
LEMMA McpInit == Init => McpInv
<1> SUFFICES ASSUME Init PROVE McpInv
  OBVIOUS
<1>1. <<>> \in Seq(Call) /\ Len(<<>>) = 0
  OBVIOUS
<1>2. 0 \in 0..MaxCalls
  BY MaxCallsAssumption
<1>3. TypeOK
  BY <1>1, <1>2 DEF Init, TypeOK
<1>4. Account
  <2>1. calls = 0 /\ replies = 0 /\ stdin = <<>> /\ loop = "read"
    BY DEF Init
  <2> QED BY <1>1, <2>1 DEF Account, Busy
<1> QED BY <1>3, <1>4 DEF Init, McpInv

\* Each step of the loop.
LEMMA LoopKeeps ==
  ASSUME McpInv, LoopStep
  PROVE  McpInv'
<1>1. /\ stdin \in Seq(Call) /\ pend \subseteq Turns /\ known \subseteq Turns
      /\ bg \in [Turns -> {"none", "admitting", "late", "run", "refused"}]
      /\ status \in [Turns -> Statuses] /\ agent \in [Turns -> {"none", "alive", "dead"}]
      /\ TypeOK
  BY DEF McpInv, TypeOK, Statuses
<1>2. CASE Spawn
  <2>1. Head(stdin).turn \in Turns
    BY <1>1, <1>2, Reading DEF Spawn, ReadLine
  <2>2. CASE bg[Head(stdin).turn] = "none"
    <3>1. bg' = [bg EXCEPT ![Head(stdin).turn] = "admitting"]
      BY <1>2, <2>2 DEF Spawn
    <3>2. bg' \in [Turns -> {"none", "admitting", "late", "run", "refused"}]
      BY <1>1, <2>1, <3>1
    <3> QED BY <1>2, <2>2, <3>2, TakenToHand DEF Spawn
  <2>3. CASE bg[Head(stdin).turn] # "none"
    BY <1>1, <1>2, <2>3, ReplyToRead DEF Spawn
  <2> QED BY <2>2, <2>3
<1>3. CASE SpawnReply
  <2>1. arg \in Turns
    BY <1>3 DEF SpawnReply, McpInv
  <2>2. known' \subseteq Turns
    BY <1>1, <1>3, <2>1 DEF SpawnReply
  <2> QED BY <1>1, <1>3, <2>2, ReplyToHeld DEF SpawnReply, turnVars
<1>4. CASE SpawnTimeout
  <2>1. bg' \in [Turns -> {"none", "admitting", "late", "run", "refused"}]
    BY <1>1, <1>4 DEF SpawnTimeout
  <2> QED BY <1>1, <1>4, <2>1, ReplyToHeld DEF SpawnTimeout
<1>5. CASE BeginWait
  <2>1. PICK tool \in {"await", "wait"} :
          /\ ReadLine(tool) /\ loop' = tool /\ arg' = Head(stdin).turn
          /\ UNCHANGED <<turnVars, replies, known>>
    BY <1>5 DEF BeginWait
  <2> QED BY <1>1, <2>1, TakenToHand DEF turnVars
<1>6. CASE WaitReturns
  <2>1. arg \in Turns
    BY <1>6 DEF WaitReturns, McpInv
  <2>2. status' \in [Turns -> Statuses]
    BY <1>1, <1>6, <2>1, ObservedType DEF WaitReturns
  <2> QED BY <1>1, <1>6, <2>2, ReplyToHeld DEF WaitReturns
<1>7. CASE WaitTimeout
  BY <1>1, <1>7, ReplyToHeld DEF WaitTimeout, turnVars
<1>8. CASE Status
  <2>1. Head(stdin).turn \in Turns
    BY <1>1, <1>8, Reading DEF Status, ReadLine
  <2>2. status' \in [Turns -> Statuses]
    BY <1>1, <1>8, <2>1, ObservedType DEF Status
  <2> QED BY <1>1, <1>8, <2>2, ReplyToRead DEF Status
<1>9. CASE Respond
  <2>1. pend' \subseteq Turns
    BY <1>1, <1>9 DEF Respond
  <2> QED BY <1>1, <1>9, <2>1, ReplyToRead DEF Respond
<1>10. CASE Cancel
  <2> DEFINE t == Head(stdin).turn
  <2>1. t \in Turns
    BY <1>1, <1>10, Reading DEF Cancel, ReadLine
  <2>2. Observed(t) \in [Turns -> Statuses]
    BY <1>1, <2>1, ObservedType
  <2>3. /\ status' = IF Observed(t)[t] = "inProgress"
                     THEN [status EXCEPT ![t] = "interrupted"] ELSE Observed(t)
        /\ agent' = [agent EXCEPT ![t] = "dead"] /\ pend' = pend \ {t}
    BY <1>10 DEF Cancel
  <2> HIDE DEF t
  <2>4. /\ status' \in [Turns -> Statuses] /\ agent' \in [Turns -> {"none", "alive", "dead"}]
        /\ pend' \subseteq Turns
    BY <1>1, <2>1, <2>2, <2>3 DEF Statuses
  <2> QED BY <1>1, <1>10, <2>4, ReplyToRead DEF Cancel
<1>11. CASE Eof
  <2>1. /\ loop = "read" /\ loop' = "exited"
        /\ UNCHANGED <<stdin, calls, closed, arg, bg, status, pend, replies, known>>
    BY <1>11 DEF Eof, callVars
  <2>2. agent' \in [Turns -> {"none", "alive", "dead"}]
    BY <1>1, <1>11 DEF Eof
  <2> QED BY <2>1, <2>2 DEF McpInv, TypeOK, Account, Busy
<1> QED BY <1>2, <1>3, <1>4, <1>5, <1>6, <1>7, <1>8, <1>9, <1>10, <1>11 DEF LoopStep

\* Every step.
LEMMA McpNext == McpInv /\ [Next]_vars => McpInv'
<1> SUFFICES ASSUME McpInv, [Next]_vars PROVE McpInv'
  OBVIOUS
<1>1. /\ bg \in [Turns -> {"none", "admitting", "late", "run", "refused"}]
      /\ status \in [Turns -> Statuses] /\ agent \in [Turns -> {"none", "alive", "dead"}]
      /\ pend \subseteq Turns
  BY DEF McpInv, TypeOK, Statuses
<1>2. CASE UNCHANGED vars
  BY <1>2 DEF vars, McpInv, TypeOK, Account, Busy
<1>3. ASSUME NEW c \in Call, ParentCalls(c) PROVE McpInv'
  <2>1. /\ calls < MaxCalls /\ stdin' = Append(stdin, c) /\ calls' = calls + 1
        /\ UNCHANGED <<closed, loop, arg, bg, status, agent, pend, replies, known>>
    BY <1>3 DEF ParentCalls, turnVars
  <2>2. stdin \in Seq(Call) /\ calls \in 0..MaxCalls /\ replies \in 0..MaxCalls /\ Account
    BY DEF McpInv, TypeOK
  <2>3. stdin' \in Seq(Call) /\ Len(stdin') = Len(stdin) + 1 /\ Len(stdin) \in Nat
    BY <2>1, <2>2, Asking
  <2>4. calls' \in 0..MaxCalls /\ Account'
    BY <2>1, <2>2, <2>3, MaxCallsAssumption DEF Account, Busy
  <2> QED BY <2>1, <2>3, <2>4 DEF McpInv, TypeOK
<1>4. CASE ParentCloses
  BY <1>4 DEF ParentCloses, turnVars, McpInv, TypeOK, Account, Busy
<1>5. ASSUME NEW t \in Turns, Admit(t) PROVE McpInv'
  <2>1. /\ bg' \in [Turns -> {"none", "admitting", "late", "run", "refused"}]
        /\ status' \in [Turns -> Statuses] /\ agent' \in [Turns -> {"none", "alive", "dead"}]
    BY <1>1, <1>5 DEF Admit, Statuses
  <2> QED BY <1>1, <1>5, <2>1, TurnChanges DEF Admit, callVars
<1>6. ASSUME NEW t \in Turns, TurnEnds(t) \/ AgentDies(t) \/ ParkApproval(t) PROVE McpInv'
  <2>1. /\ status' \in [Turns -> Statuses] /\ agent' \in [Turns -> {"none", "alive", "dead"}]
        /\ pend' \subseteq Turns
    BY <1>1, <1>6 DEF TurnEnds, AgentDies, ParkApproval, Statuses
  <2>2. UNCHANGED <<stdin, calls, closed, loop, arg, bg, replies, known>>
    BY <1>6 DEF TurnEnds, AgentDies, ParkApproval, callVars
  <2> QED BY <1>1, <2>1, <2>2, TurnChanges
<1> QED BY <1>2, <1>3, <1>4, <1>5, <1>6, LoopKeeps DEF Next

-----------------------------------------------------------------------------
\* Every request is in the pipe, in the hands of run_mcp or answered once, and
\* what the loop waits for is a turn.
THEOREM McpInvariant == Spec => []McpInv
<1> QED BY McpInit, McpNext, PTL DEF Spec

\* The state of run_mcp, of the pipe and of the turns stays in its types: there
\* are never more replies than requests.
THEOREM McpTypes == Spec => []TypeOK
<1>1. McpInv => TypeOK
  BY DEF McpInv
<1> QED BY <1>1, McpInvariant, PTL

\* The loop ends at end of file with nothing unanswered: all that a parent wrote
\* before it closed stdin has had its one reply.
THEOREM NothingIsLeftUnanswered == Spec => [](loop = "exited" => replies = calls)
<1> DEFINE Over == loop = "exited" => replies = calls /\ stdin = <<>>
<1>1. McpInv /\ Over /\ [Next]_vars => Over'
  <2> SUFFICES ASSUME McpInv, Over, [Next]_vars, loop' = "exited"
               PROVE  replies' = calls' /\ stdin' = <<>>
    OBVIOUS
  <2>1. CASE loop = "exited"
    <3>1. UNCHANGED <<replies, calls, stdin>>
      BY <2>1 DEF Next, LoopStep, Spawn, SpawnReply, SpawnTimeout, BeginWait, WaitReturns,
                  WaitTimeout, Status, Respond, Cancel, Eof, ParentCalls, ParentCloses, Admit,
                  TurnEnds, AgentDies, ParkApproval, ReadLine, callVars, vars
    <3> QED BY <2>1, <3>1
  <2>2. CASE loop # "exited"
    <3>1. Eof
      BY <2>2 DEF Next, LoopStep, Spawn, SpawnReply, SpawnTimeout, BeginWait, WaitReturns,
                  WaitTimeout, Status, Respond, Cancel, Reply, ParentCalls, ParentCloses, Admit,
                  TurnEnds, AgentDies, ParkApproval, ReadLine, callVars, vars
    <3>2. /\ loop = "read" /\ stdin = <<>> /\ UNCHANGED <<replies, calls, stdin>>
      BY <3>1 DEF Eof, callVars
    <3>3. calls = replies + Len(stdin) /\ replies \in Nat
      BY <3>2 DEF McpInv, TypeOK, Account, Busy
    <3>4. Len(<<>>) = 0
      OBVIOUS
    <3> QED BY <3>2, <3>3, <3>4
  <2> QED BY <2>1, <2>2
<1>2. Init => Over
  BY DEF Init
<1>3. Over => (loop = "exited" => replies = calls)
  OBVIOUS
<1> HIDE DEF Over
<1> QED BY <1>1, <1>2, <1>3, McpInvariant, PTL DEF Spec
=============================================================================
