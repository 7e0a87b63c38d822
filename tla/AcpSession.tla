----------------------------- MODULE AcpSession -----------------------------
(***************************************************************************)
(* The turns of one thread as conversations with an agent: run_turn_async, *)
(* drive_prompt, apply_update and the permission handler of                *)
(* crates/adapter-grok/src/turn.rs.  A run decides whether it loads the    *)
(* session stored on the thread or opens a new one, talks to an agent of   *)
(* its own over an ordered stream, and turns what it hears into items,     *)
(* permission outcomes and the end of its turn.                            *)
(*                                                                         *)
(* Spawning and killing the agent is module TurnRunner; the ledger's       *)
(* operations are atomic, as module Ledger shows they look to callers.     *)
(***************************************************************************)
EXTENDS Naturals, Sequences, SequencesExt, FiniteSets

CONSTANTS Runs,          \* calls of run_turn on the thread
          Sessions,      \* ids an agent may give to a new session
          StoredSessions,\* what the thread may have at first
          OptionSets,    \* the options a permission request may come with
          MaxSent,       \* bound on the unsolicited messages of an agent
          None

ASSUME SessionsAssumption == StoredSessions \subseteq Sessions \cup {None}
ASSUME SessionNoneAssumption == None \notin Sessions
ASSUME MaxSentAssumption == MaxSent \in Nat

Allow == {"allowOnce", "allowAlways"}
Reject == {"rejectOnce", "rejectAlways"}
Decisions == {"accept", "acceptForSession", "decline", "cancel"}

ASSUME OptionsAssumption == OptionSets \subseteq SUBSET (Allow \cup Reject)

VARIABLES sid,      \* acp_session_id of the thread
          status,   \* of the turn of a run
          pc,       \* where a run is
          path,     \* the request of a run: "followUp" or "reuse"
          gated,    \* runs whose policy is untrusted or on-request
          load,     \* its load_session_id
          history,  \* Shared.history
          fatal,    \* Shared.fatal
          items,    \* updates that reached the turn record
          ready,    \* a response the run has not taken up yet
          agent,    \* what an agent is doing
          opened,   \* the session an agent has loaded or created
          prompted, \* the session a run has sent its prompt to
          sent,     \* all an agent has sent to its run, with live: not a replay
          seen,     \* how much of it was dispatched
          gate,     \* messages with a finish_gated_permission under way
          outcome,  \* what the agent was told about a permission request
          decided   \* history: the decision for a gated one

runVars   == <<pc, path, gated, load, history, fatal, ready, prompted>>
agentVars == <<agent, opened, sent>>
askVars   == <<gate, outcome, decided>>
vars == <<sid, status, pc, path, gated, load, history, fatal, items, ready,
          agent, opened, prompted, sent, seen, gate, outcome, decided>>

\* What an agent may send of its own accord, and its responses.
Unsolicited == {"update", "permission"}
Responses == {"ok", "error"}

MaxLen == MaxSent + 2
Positions == 1..MaxLen

Init ==
  /\ sid \in StoredSessions
  /\ status = [r \in Runs |-> "absent"]
  /\ pc = [r \in Runs |-> "idle"]
  /\ path = [r \in Runs |-> ""]
  /\ gated = {}
  /\ load = [r \in Runs |-> None]
  /\ history = [r \in Runs |-> FALSE]
  /\ fatal = [r \in Runs |-> FALSE]
  /\ items = [r \in Runs |-> {}]
  /\ ready = [r \in Runs |-> None]
  /\ agent = [r \in Runs |-> "none"]
  /\ opened = [r \in Runs |-> None]
  /\ prompted = [r \in Runs |-> None]
  /\ sent = [r \in Runs |-> <<>>]
  /\ seen = [r \in Runs |-> 0]
  /\ gate = [r \in Runs |-> {}]
  /\ outcome = [r \in Runs |-> [n \in Positions |-> ""]]
  /\ decided = [r \in Runs |-> [n \in Positions |-> None]]

InProgress(r) == status[r] = "inProgress"
Goto(r, label) == pc' = [pc EXCEPT ![r] = label]

\* publish_terminal: the first terminal status of a turn stays.
Publish(r, s) ==
  status' = IF InProgress(r) THEN [status EXCEPT ![r] = s] ELSE status

-----------------------------------------------------------------------------
(***************************************************************************)
(* The beginning of a turn                                                 *)
(***************************************************************************)
\* A request names its own policy, or takes that of the thread.
Request(r, p) ==
  /\ pc[r] = "idle"
  /\ path' = [path EXCEPT ![r] = p]
  /\ gated' \in {gated, gated \cup {r}}
  /\ Goto(r, "preamble")
  /\ UNCHANGED <<sid, status, load, history, fatal, items, ready, prompted,
                 agentVars, seen, askVars>>

\* turn/start reads the thread and asks for a follow-up if it has a session.
TurnStart(r) == Request(r, IF sid = None THEN "reuse" ELSE "followUp")

\* grok_followup and worker followup refuse a thread without a session.
Followup(r) == sid # None /\ Request(r, "followUp")

\* run_turn_async reads the thread again; only a follow-up looks at the id.
Preamble(r) ==
  /\ pc[r] = "preamble"
  /\ load' = [load EXCEPT ![r] = IF path[r] = "followUp" THEN sid ELSE None]
  /\ Goto(r, "admit")
  /\ UNCHANGED <<sid, status, path, gated, history, fatal, items, ready,
                 prompted, agentVars, seen, askVars>>

\* admit_turn refuses a thread with a turn in progress.
Admit(r) ==
  /\ pc[r] = "admit"
  /\ IF \E u \in Runs : InProgress(u)
     THEN Goto(r, "done") /\ UNCHANGED status
     ELSE Goto(r, "init") /\ status' = [status EXCEPT ![r] = "inProgress"]
  /\ UNCHANGED <<sid, path, gated, load, history, fatal, items, ready, prompted,
                 agentVars, seen, askVars>>

\* Mutant: the flag goes up when the answer comes.
StartSessionUnflagged(r) ==
  /\ agent' = [agent EXCEPT ![r] = IF load[r] = None THEN "creating" ELSE "loading"]
  /\ Goto(r, IF load[r] = None THEN "creating" ELSE "loading")
  /\ UNCHANGED <<status, history>>

\* The initialize exchange, then session/load or session/new is sent.  The
\* flag is up before the load request leaves.
StartSession(r) ==
  /\ agent' = [agent EXCEPT ![r] = IF load[r] = None THEN "creating" ELSE "loading"]
  /\ history' = [history EXCEPT ![r] = load[r] # None]
  /\ Goto(r, IF load[r] = None THEN "creating" ELSE "loading")
  /\ UNCHANGED status

\* The agent cannot be started, does not answer initialize, or does not
\* advertise loadSession to a run that needs it.
StartFails(r) ==
  /\ Publish(r, "failed")
  /\ Goto(r, "done")
  /\ UNCHANGED <<agent, history>>

\* A turn that was cancelled meanwhile is left alone.
Initialize(r) ==
  /\ pc[r] = "init"
  /\ \/ InProgress(r) /\ (StartSession(r) \/ StartFails(r))
     \/ ~InProgress(r) /\ Goto(r, "done") /\ UNCHANGED <<status, agent, history>>
  /\ UNCHANGED <<sid, path, gated, load, fatal, items, ready, opened,
                 prompted, sent, seen, askVars>>

-----------------------------------------------------------------------------
(***************************************************************************)
(* External: the agent                                                     *)
(***************************************************************************)
Send(r, m) == sent' = [sent EXCEPT ![r] = Append(@, m)]

\* During session/load it replays the conversation, permission requests
\* included; during session/prompt it works.
AgentSends(r) ==
  /\ agent[r] \in {"loading", "working"}
  /\ Cardinality({n \in DOMAIN sent[r] : sent[r][n].kind \in Unsolicited})
       < MaxSent
  /\ \E kind \in Unsolicited :
       \E options \in IF kind = "permission" THEN OptionSets ELSE {{}} :
         Send(r, [kind |-> kind, live |-> agent[r] = "working",
                  options |-> options, value |-> None])
  /\ UNCHANGED <<sid, status, runVars, items, agent, opened, seen, askVars>>

\* session/load is answered for the session asked for, session/new with an id
\* that no session has; either may fail.
AgentOpens(r) ==
  /\ agent[r] \in {"loading", "creating"}
  /\ \/ \E s \in IF agent[r] = "loading" THEN {load[r]}
                 ELSE Sessions \ ({sid} \cup {opened[u] : u \in Runs}) :
          /\ Send(r, [kind |-> "ok", live |-> TRUE, options |-> {}, value |-> s])
          /\ opened' = [opened EXCEPT ![r] = s]
     \/ /\ Send(r, [kind |-> "error", live |-> TRUE, options |-> {},
                     value |-> None])
        /\ UNCHANGED opened
  /\ agent' = [agent EXCEPT ![r] = "ready"]
  /\ UNCHANGED <<sid, status, runVars, items, seen, askVars>>

\* session/prompt ends with a stop reason, or with an error.
AgentAnswers(r) ==
  /\ agent[r] = "working"
  /\ \E s \in {"completed", "interrupted", "failed", None} :
       Send(r, [kind |-> IF s = None THEN "error" ELSE "ok", live |-> TRUE,
                options |-> {}, value |-> s])
  /\ agent' = [agent EXCEPT ![r] = "ready"]
  /\ UNCHANGED <<sid, status, runVars, items, opened, seen, askVars>>

AgentDies(r) ==
  /\ agent[r] \notin {"none", "dead"}
  /\ agent' = [agent EXCEPT ![r] = "dead"]
  /\ UNCHANGED <<sid, status, runVars, items, opened, sent, seen, askVars>>

-----------------------------------------------------------------------------
(***************************************************************************)
(* The connection: messages are dispatched in the order they were sent     *)
(***************************************************************************)
Outcome(r, n, o) == outcome' = [outcome EXCEPT ![r][n] = o]

\* upsert_item refuses a terminal turn, and the error is dropped.  (The mapper
\* maps no kind of tool to an excluded type, so it never sets fatal.)
ApplyUpdate(r, n) ==
  /\ items' = IF ~history[r] /\ InProgress(r)
              THEN [items EXCEPT ![r] = @ \cup {n}] ELSE items
  /\ UNCHANGED <<fatal, askVars>>

\* Mutant: a request that cannot be allowed is cancelled, and that is all.
AutoAllowSilently(r, n) ==
  /\ \/ \E o \in sent[r][n].options \cap Allow : Outcome(r, n, o)
     \/ sent[r][n].options \cap Allow = {} /\ Outcome(r, n, "cancelled")
  /\ UNCHANGED <<fatal, gate, decided>>

\* policy never: any allow option, or the turn is doomed.
AutoAllow(r, n) ==
  /\ \/ /\ sent[r][n].options \cap Allow # {}
        /\ \E o \in sent[r][n].options \cap Allow : Outcome(r, n, o)
        /\ UNCHANGED fatal
     \/ /\ sent[r][n].options \cap Allow = {}
        /\ Outcome(r, n, "cancelled")
        /\ fatal' = [fatal EXCEPT ![r] = TRUE]
  /\ UNCHANGED <<gate, decided>>

\* park_approval, for one request at a time.
ParkApproval(r, n) ==
  /\ IF InProgress(r) /\ gate[r] = {}
     THEN gate' = [gate EXCEPT ![r] = @ \cup {n}] /\ UNCHANGED outcome
     ELSE Outcome(r, n, "cancelled") /\ UNCHANGED gate
  /\ UNCHANGED <<fatal, decided>>

RequestPermission(r, n) ==
  /\ \/ /\ history[r] /\ Outcome(r, n, "cancelled")
        /\ UNCHANGED <<fatal, gate, decided>>
     \/ ~history[r] /\ r \notin gated /\ AutoAllow(r, n)
     \/ ~history[r] /\ r \in gated /\ ParkApproval(r, n)
  /\ UNCHANGED items

Dispatch(r) ==
  LET n == seen[r] + 1
  IN /\ pc[r] \in {"loading", "creating", "prompt"} /\ n \in DOMAIN sent[r]
     /\ seen' = [seen EXCEPT ![r] = n]
     /\ \/ /\ sent[r][n].kind = "update"
           /\ ApplyUpdate(r, n) /\ UNCHANGED ready
        \/ /\ sent[r][n].kind = "permission"
           /\ RequestPermission(r, n) /\ UNCHANGED ready
        \/ /\ sent[r][n].kind \in Responses
           /\ ready' = [ready EXCEPT ![r] = sent[r][n]]
           /\ UNCHANGED <<items, fatal, askVars>>
     /\ UNCHANGED <<sid, status, pc, path, gated, load, history, prompted,
                    agentVars>>

\* Mutant: an answer that no option fits selects some option.
DecisionAnyOption(options, d) ==
  IF d \notin {"cancel"} /\ options # {} THEN CHOOSE o \in options : TRUE
  ELSE "cancelled"

\* decision_option: the first preferred kind that was offered.
DecisionOption(options, d) ==
  LET preferred == CASE d = "accept" -> <<"allowOnce", "allowAlways">>
                     [] d = "acceptForSession" -> <<"allowAlways", "allowOnce">>
                     [] d = "decline" -> <<"rejectOnce", "rejectAlways">>
                     [] d = "cancel" -> <<>>
      offered == {i \in DOMAIN preferred : preferred[i] \in options}
  IN IF offered = {} THEN "cancelled" ELSE preferred[Min(offered)]

\* finish_gated_permission: a decision of the parent, or the end of the turn.
FinishGatedPermission(r) ==
  /\ pc[r] = "prompt"
  /\ \E n \in gate[r] :
       /\ \/ /\ InProgress(r)
             /\ \E d \in Decisions :
                  /\ decided' = [decided EXCEPT ![r][n] = d]
                  /\ Outcome(r, n, DecisionOption(sent[r][n].options, d))
          \/ ~InProgress(r) /\ Outcome(r, n, "cancelled") /\ UNCHANGED decided
       /\ gate' = [gate EXCEPT ![r] = @ \ {n}]
  /\ UNCHANGED <<sid, status, runVars, items, agentVars, seen>>

-----------------------------------------------------------------------------
(***************************************************************************)
(* drive_prompt, from one response to the next                             *)
(***************************************************************************)
\* The connection is closed and ChildReap kills the agent.
Close(r) == /\ agent' = [agent EXCEPT ![r] = "dead"]
            /\ gate' = [gate EXCEPT ![r] = {}]
            /\ Goto(r, "done")

\* The connection ends with an error, which is published last.
End(r) == Publish(r, "failed") /\ Close(r) /\ UNCHANGED prompted

SendPrompt(r, s) == /\ prompted' = [prompted EXCEPT ![r] = s]
                    /\ agent' = [agent EXCEPT ![r] =
                                   IF @ = "dead" THEN @ ELSE "working"]
                    /\ Goto(r, "prompt")
                    /\ UNCHANGED <<status, gate>>

\* Mutant: a failed load does not stop the run.
LoadedAnyway(r) ==
  /\ pc[r] = "loading" /\ ready[r] # None
  /\ ready' = [ready EXCEPT ![r] = None]
  /\ history' = [history EXCEPT ![r] = FALSE]
  /\ SendPrompt(r, load[r])
  /\ UNCHANGED <<sid, path, gated, load, fatal, items, opened, sent, seen,
                 outcome, decided>>

\* Mutant: the history phase has no end.
LoadedForever(r) ==
  /\ pc[r] = "loading" /\ ready[r] # None
  /\ ready' = [ready EXCEPT ![r] = None]
  /\ IF ready[r].kind = "ok" THEN SendPrompt(r, load[r]) ELSE End(r)
  /\ UNCHANGED <<sid, path, gated, load, history, fatal, items, opened, sent,
                 seen, outcome, decided>>

\* session/load has been answered.
Loaded(r) ==
  /\ pc[r] = "loading" /\ ready[r] # None
  /\ ready' = [ready EXCEPT ![r] = None]
  /\ history' = [history EXCEPT ![r] = FALSE]
  /\ IF ready[r].kind = "ok" THEN SendPrompt(r, load[r]) ELSE End(r)
  /\ UNCHANGED <<sid, path, gated, load, fatal, items, opened, sent, seen,
                 outcome, decided>>

\* session/new has been answered: the id is stored before the prompt leaves,
\* and a turn whose id cannot be stored fails.
Created(r) ==
  /\ pc[r] = "creating" /\ ready[r] # None
  /\ ready' = [ready EXCEPT ![r] = None]
  /\ \/ /\ ready[r].kind = "ok"
        /\ \/ sid' = ready[r].value /\ SendPrompt(r, ready[r].value)
           \/ UNCHANGED sid /\ End(r)
     \/ ready[r].kind = "error" /\ End(r) /\ UNCHANGED sid
  /\ UNCHANGED <<path, gated, load, history, fatal, items, opened, sent,
                 seen, outcome, decided>>

\* session/prompt has been answered: publish_stop, while the agent is up.
Answered(r) ==
  /\ pc[r] = "prompt" /\ ready[r] # None
  /\ ready' = [ready EXCEPT ![r] = None]
  /\ Publish(r, IF fatal[r] \/ ready[r].kind = "error" THEN "failed"
                ELSE ready[r].value)
  /\ Close(r)
  /\ UNCHANGED <<sid, path, gated, load, history, fatal, items, opened,
                 prompted, sent, seen, outcome, decided>>

\* The stream of a dead agent is at its end.
Disconnected(r) ==
  /\ pc[r] \in {"loading", "creating", "prompt"} /\ ready[r] = None
  /\ agent[r] = "dead" /\ seen[r] = Len(sent[r])
  /\ End(r)
  /\ UNCHANGED <<sid, path, gated, load, history, fatal, items, ready,
                 opened, sent, seen, outcome, decided>>

\* cancel, or an observer that finds the worker gone, from anywhere.
PublishElsewhere(r) ==
  /\ InProgress(r)
  /\ \E s \in {"interrupted", "failed"} : Publish(r, s)
  /\ UNCHANGED <<sid, runVars, items, agentVars, seen, askVars>>

-----------------------------------------------------------------------------
Next ==
  \E r \in Runs :
    \/ TurnStart(r) \/ Followup(r) \/ Preamble(r) \/ Admit(r) \/ Initialize(r)
    \/ AgentSends(r) \/ AgentOpens(r) \/ AgentAnswers(r) \/ AgentDies(r)
    \/ Dispatch(r) \/ FinishGatedPermission(r)
    \/ Loaded(r) \/ Created(r) \/ Answered(r) \/ Disconnected(r)
    \/ PublishElsewhere(r)

Spec == Init /\ [][Next]_vars

-----------------------------------------------------------------------------
Sent(r, kind) == {n \in DOMAIN sent[r] : sent[r][n].kind = kind}

\* acp-item-mapping.md, "session/load history": what a load replays is neither
\* an item of the new turn, nor a reason for it to fail, nor a permission
\* request anybody is asked about or that is allowed; and a completed turn has
\* every update its agent sent after that and before the answer, although the
\* history phase is left by another task than the dispatcher.
TurnHasItsOwnUpdates ==
  \A r \in Runs :
    /\ \A n \in DOMAIN sent[r] :
         ~sent[r][n].live =>
           /\ n \notin items[r] /\ n \notin gate[r]
           /\ outcome[r][n] \in {"", "cancelled"}
           /\ fatal[r] => \E k \in Sent(r, "permission") :
                            sent[r][k].live /\ sent[r][k].options \cap Allow = {}
    /\ status[r] = "completed" =>
         {n \in Sent(r, "update") : sent[r][n].live} \subseteq items[r]

\* TASK-013, "untrusted does not run a shell without grok_respond", and turn.rs,
\* "session/request_permission without allow option": a gated run allows a
\* request only if the parent accepted that very request, and then only with
\* an option that was offered; an ungated turn in which the agent could not be
\* allowed what it asked for is never recorded as completed, whatever the agent
\* answers later and whichever task publishes first.
PermissionsAreObeyed ==
  /\ \A r \in gated, n \in Positions :
       outcome[r][n] \in Allow =>
         /\ decided[r][n] \in {"accept", "acceptForSession"}
         /\ outcome[r][n] \in sent[r][n].options
  /\ \A r \in Runs \ gated :
       status[r] = "completed" =>
         ~ \E n \in Sent(r, "permission") :
             sent[r][n].live /\ sent[r][n].options \cap Allow = {}

\* ADR-0002 and grok-launch.md, "fail closed": a prompt is only ever sent to a
\* session its own agent has opened, and a turn that is completed leaves a
\* session on the thread for the next one to load.
PromptInOpenSession ==
  \A r \in Runs :
    /\ prompted[r] # None => prompted[r] = opened[r]
    /\ status[r] = "completed" => sid # None
=============================================================================
