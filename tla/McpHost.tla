------------------------------ MODULE McpHost ------------------------------
(***************************************************************************)
(* The MCP server (crates/gamchi/src/mcp.rs with admit_in_background of    *)
(* ops.rs): one loop that reads a request from stdin, runs the tool to its *)
(* end, writes the reply and reads again; stdin EOF ends it.  Turns run on *)
(* threads of their own, so what a parent can get done depends on what the *)
(* loop is waiting for.                                                    *)
(*                                                                         *)
(* Turns and their agents are reduced to what the tools see; modules       *)
(* Ledger and TurnRunner have the rest.                                    *)
(***************************************************************************)
EXTENDS Naturals, Sequences, SequencesExt, FiniteSets

CONSTANTS Turns,          \* turns grok_spawn or grok_followup may admit
          MaxCalls,       \* bound on the requests of the parent
          Tools,          \* the tools the parent uses
          SlowAdmission,  \* whether an admission may take over 30 s
          None

ASSUME ToolsAssumption ==
  Tools \subseteq {"spawn", "await", "wait", "status", "respond", "cancel"}
ASSUME MaxCallsAssumption == MaxCalls \in Nat
ASSUME SlowAssumption == SlowAdmission \in BOOLEAN
ASSUME McpNoneAssumption == None \notin Turns

VARIABLES stdin,    \* requests written and not read
          calls,    \* how many the parent has written
          closed,   \* the parent has closed stdin
          loop,     \* what run_mcp is doing
          arg,      \* the turn it is doing it for
          bg,       \* the background thread of a turn
          status,   \* of a turn
          agent,    \* its child
          pend,     \* turns with a pending approval
          replies,  \* how many replies were written
          known     \* turns whose ids the parent was given

callVars == <<stdin, calls, closed>>
turnVars == <<bg, status, agent, pend>>
vars == <<stdin, calls, closed, loop, arg, bg, status, agent, pend, replies,
          known>>

Call == [tool : Tools, turn : Turns]

TypeOK ==
  /\ stdin \in Seq(Call) /\ calls \in 0..MaxCalls /\ closed \in BOOLEAN
  /\ loop \in {"read", "spawn", "await", "wait", "exited"}
  /\ arg \in Turns \cup {None}
  /\ bg \in [Turns -> {"none", "admitting", "late", "run", "refused"}]
  /\ status \in [Turns -> {"absent", "inProgress", "completed", "interrupted",
                           "failed"}]
  /\ agent \in [Turns -> {"none", "alive", "dead"}]
  /\ pend \subseteq Turns
  /\ replies \in 0..MaxCalls
  /\ known \subseteq Turns

Init ==
  /\ stdin = <<>> /\ calls = 0 /\ closed = FALSE
  /\ loop = "read" /\ arg = None
  /\ bg = [t \in Turns |-> "none"]
  /\ status = [t \in Turns |-> "absent"]
  /\ agent = [t \in Turns |-> "none"]
  /\ pend = {} /\ replies = 0 /\ known = {}

InProgress(t) == status[t] = "inProgress"
Terminal(t) == status[t] \in {"completed", "interrupted", "failed"}

\* ledger.observe: a turn whose child is dead converges to worker_gone.
Observed(t) == IF InProgress(t) /\ agent[t] = "dead"
               THEN [status EXCEPT ![t] = "failed"] ELSE status

-----------------------------------------------------------------------------
(***************************************************************************)
(* External: the parent                                                    *)
(***************************************************************************)
\* A request is written without waiting for earlier replies.
ParentCalls(c) ==
  /\ ~closed /\ calls < MaxCalls /\ loop # "exited"
  /\ c.tool # "spawn" => c.turn \in known
  /\ stdin' = Append(stdin, c)
  /\ calls' = calls + 1
  /\ UNCHANGED <<closed, loop, arg, turnVars, replies, known>>

ParentCloses ==
  /\ ~closed
  /\ closed' = TRUE
  /\ UNCHANGED <<stdin, calls, loop, arg, turnVars, replies, known>>

-----------------------------------------------------------------------------
(***************************************************************************)
(* run_mcp                                                                 *)
(***************************************************************************)
ReadLine(tool) == /\ loop = "read" /\ stdin # <<>>
               /\ Head(stdin).tool = tool
               /\ stdin' = Tail(stdin)
               /\ UNCHANGED <<calls, closed>>

Reply == /\ loop' = "read" /\ arg' = None
         /\ replies' = replies + 1

\* grok_spawn: run_turn goes to a thread of its own, the loop waits for the
\* admission.  A turn id is used once.
Spawn ==
  /\ ReadLine("spawn")
  /\ LET t == Head(stdin).turn
     IN IF bg[t] = "none"
        THEN /\ bg' = [bg EXCEPT ![t] = "admitting"]
             /\ loop' = "spawn" /\ arg' = t
             /\ UNCHANGED replies
        ELSE Reply /\ UNCHANGED bg
  /\ UNCHANGED <<status, agent, pend, known>>

\* on_admit, then the agent is spawned; or an error before it.
Admit(t) ==
  /\ bg[t] \in {"admitting", "late"} /\ loop # "exited"
  /\ \/ /\ bg' = [bg EXCEPT ![t] = "run"]
        /\ status' = [status EXCEPT ![t] = "inProgress"]
        /\ agent' = [agent EXCEPT ![t] = "alive"]
     \/ /\ bg' = [bg EXCEPT ![t] = "refused"]
        /\ UNCHANGED <<status, agent>>
  /\ UNCHANGED <<callVars, loop, arg, pend, replies, known>>

SpawnReply ==
  /\ loop = "spawn" /\ bg[arg] \in {"run", "refused"}
  /\ Reply
  /\ known' = IF bg[arg] = "run" THEN known \cup {arg} ELSE known
  /\ UNCHANGED <<callVars, turnVars>>

\* recv_timeout: the parent gets an error, the admission goes on behind it.
SpawnTimeout ==
  /\ SlowAdmission /\ loop = "spawn" /\ bg[arg] = "admitting"
  /\ bg' = [bg EXCEPT ![arg] = "late"]
  /\ Reply
  /\ UNCHANGED <<callVars, status, agent, pend, known>>

\* grok_await and grok_wait enter ledger.wait.
BeginWait ==
  \E tool \in {"await", "wait"} :
    /\ ReadLine(tool)
    /\ loop' = tool /\ arg' = Head(stdin).turn
    /\ UNCHANGED <<turnVars, replies, known>>

\* Mutant: the wait reads the turn without observing it.
WaitReturnsUnobserved ==
  /\ loop \in {"await", "wait"}
  /\ Terminal(arg) \/ arg \in pend
  /\ Reply
  /\ UNCHANGED <<callVars, turnVars, known>>

WaitReturns ==
  /\ loop \in {"await", "wait"}
  /\ status' = Observed(arg)
  /\ status'[arg] # "inProgress" \/ arg \in pend
  /\ Reply
  /\ UNCHANGED <<callVars, bg, agent, pend, known>>

\* Mutant: the timeout of grok_wait is never reached.
WaitForever == FALSE /\ UNCHANGED vars

\* Mutant: the snapshot is written and the wait goes on.
WaitTimeoutStays ==
  /\ loop = "wait" /\ InProgress(arg)
  /\ replies' = replies + 1
  /\ UNCHANGED <<callVars, loop, arg, turnVars, known>>

\* timeout_ms has passed: a snapshot is the reply.
WaitTimeout ==
  /\ loop = "wait" /\ InProgress(arg)
  /\ Reply
  /\ UNCHANGED <<callVars, turnVars, known>>

\* grok_status, grok_result and grok_list observe.
Status ==
  /\ ReadLine("status")
  /\ status' = Observed(Head(stdin).turn)
  /\ Reply
  /\ UNCHANGED <<bg, agent, pend, known>>

Respond ==
  /\ ReadLine("respond")
  /\ pend' = pend \ {Head(stdin).turn}
  /\ Reply
  /\ UNCHANGED <<bg, status, agent, known>>

\* cancel_turn: interrupted, and the child is torn down.
Cancel ==
  /\ ReadLine("cancel")
  /\ LET t == Head(stdin).turn
     IN /\ status' = IF Observed(t)[t] = "inProgress"
                     THEN [status EXCEPT ![t] = "interrupted"] ELSE Observed(t)
        /\ agent' = [agent EXCEPT ![t] = "dead"]
        /\ pend' = pend \ {t}
  /\ Reply
  /\ UNCHANGED <<bg, known>>

\* Mutant: the loop ends and the agents go on.
EofLeaves ==
  /\ loop = "read" /\ stdin = <<>> /\ closed
  /\ loop' = "exited"
  /\ UNCHANGED <<callVars, arg, turnVars, replies, known>>

\* read_line returns 0: parent_exit_teardown, and the process ends.
Eof ==
  /\ loop = "read" /\ stdin = <<>> /\ closed
  /\ loop' = "exited"
  /\ agent' = [t \in Turns |-> IF agent[t] = "alive" THEN "dead" ELSE agent[t]]
  /\ UNCHANGED <<callVars, arg, bg, status, pend, replies, known>>

-----------------------------------------------------------------------------
(***************************************************************************)
(* The turns                                                               *)
(***************************************************************************)
\* The agent stops and the run publishes; its child is reaped.
TurnEnds(t) ==
  /\ InProgress(t) /\ agent[t] = "alive"
  /\ \E s \in {"completed", "failed"} : status' = [status EXCEPT ![t] = s]
  /\ agent' = [agent EXCEPT ![t] = "dead"]
  /\ pend' = pend \ {t}
  /\ UNCHANGED <<callVars, loop, arg, bg, replies, known>>

AgentDies(t) ==
  /\ agent[t] = "alive"
  /\ agent' = [agent EXCEPT ![t] = "dead"]
  /\ pend' = pend \ {t}
  /\ UNCHANGED <<callVars, loop, arg, bg, status, replies, known>>

ParkApproval(t) ==
  /\ InProgress(t) /\ agent[t] = "alive" /\ t \notin pend
  /\ pend' = pend \cup {t}
  /\ UNCHANGED <<callVars, loop, arg, bg, status, agent, replies, known>>

-----------------------------------------------------------------------------
LoopStep == \/ Spawn \/ SpawnReply \/ SpawnTimeout \/ BeginWait \/ WaitReturns
            \/ WaitTimeout \/ Status \/ Respond \/ Cancel \/ Eof

Next ==
  \/ LoopStep
  \/ \E c \in Call : ParentCalls(c)
  \/ ParentCloses
  \/ \E t \in Turns : Admit(t) \/ TurnEnds(t) \/ AgentDies(t) \/ ParkApproval(t)

Spec == Init /\ [][Next]_vars

\* The loop runs and admissions end.  Nobody else owes anything: an agent may
\* work forever and a parent may never close stdin.
FairSpec == /\ Spec
            /\ WF_vars(LoopStep)
            /\ \A t \in Turns : WF_vars(Admit(t))

-----------------------------------------------------------------------------
\* What the loop does promise: whatever requests the parent has left in the
\* pipe, also late admissions and waits, the agents are gone in the end unless
\* the loop is in a grok_await.
EofTearsDownUnlessAwaiting ==
  closed ~> loop = "await" \/ \A t \in Turns : agent[t] # "alive"

\* "Infinite wait is forbidden": every request gets its reply, whatever was sent
\* before it and whatever the agents do, unless the loop is in a grok_await; and
\* one on a turn whose agent has died is answered too, although nobody else
\* looks at the turn.
CallsAreAnswered ==
  /\ \A n \in 1..MaxCalls : calls >= n ~> replies >= n \/ loop = "await"
  /\ \A t \in Turns :
       loop = "await" /\ arg = t /\ agent[t] # "alive" ~> loop # "await"
=============================================================================
