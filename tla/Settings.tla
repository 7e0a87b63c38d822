------------------------------ MODULE Settings ------------------------------
(***************************************************************************)
(* The settings of a thread and what its agents are started with.  The CLI *)
(* (worker.rs), the MCP server (mcp.rs) and the app-server (app_server.rs) *)
(* start threads and turns in processes of their own over one home, while  *)
(* the user edits config.yaml and the clock moves: a read of either gives  *)
(* any value it can have.  A call is one command, tool call or RPC;        *)
(* run_turn_async (turn.rs) is followed to the session of its agent.       *)
(* Module Launch has the functions, Ledger the operations that are atomic  *)
(* here, AcpSession the conversation.                                      *)
(***************************************************************************)
EXTENDS Launch, Functions

CONSTANTS Calls,        \* each may create the thread and the turn of its name
          Pid,          \* the process that admits a turn; its id begins with it
          MaxPid,       \* what the id of a process is at most
          Stored,       \* threads there are at first
          StoredThread, \* their records
          StoredEffort, \* the effort of a turn they have had, or Absent
          Params,       \* what parents send
          ConfigFiles,  \* what config.yaml may say when it is read
          Sessions,     \* ids an agent may give to a new session
          Home, EnvHome,\* the home of this ledger, and GAMCHI_HOME
          MaxNow,       \* bound on the clock, in seconds
          None

Threads == Stored \cup Calls
HadTurn == {th \in Stored : StoredEffort[th] # Absent}

\* What a parent sends, its records, and those of turns and requests.
Param == [model : Texts, effort : Texts, approval : Texts, sandbox : Texts,
          instr : Texts, extra : BOOLEAN, cwd : Texts, home : Texts,
          key : Texts, prompt : Texts]

Thread == [cwd : Texts, model : Texts, approval : Policies,
           sandbox : Sandboxes, instr : Texts, sid : Sessions \cup Texts]

Turn == [thread : Threads, model : Texts, effort : Texts, epoch : 0..MaxNow,
         key : Texts]

TurnFields == {"path", "cwd", "approval", "sandbox", "model", "effort", "key"}

\* What is on disk was written by the same code: an effort is one that was
\* resolved, or the empty one of a record from before there were any.
ASSUME SettingsPidAssumption == MaxPid \in Nat /\ Pid \in [Threads -> 0..MaxPid]
ASSUME SettingsNamesAssumption ==
  Calls \cap Stored = {} /\ Absent \notin Sessions
ASSUME SettingsNoneAssumption ==
  /\ None \notin Threads \cup Sessions \cup Texts
  /\ None \notin Thread /\ None \notin Turn
  /\ \A S \in SUBSET (TurnFields \cup {"instr"}) : None \notin [S -> Texts]
ASSUME SettingsStoredAssumption ==
  /\ StoredThread \in [Stored -> Thread]
  /\ StoredEffort \in [Stored -> Texts]
  /\ \A th \in Stored : /\ StoredThread[th].sid \notin Sessions \cup {Bad}
                        /\ StoredEffort[th] \notin {" ", Alias, Bad}
ASSUME SettingsParamsAssumption == Params \subseteq Param
ASSUME SettingsFilesAssumption == ConfigFiles \subseteq Seq(Line)
ASSUME SettingsBoundsAssumption == MaxNow \in Nat

VARIABLES thread,  \* thread records
          turn,    \* turn records, with started_epoch of the generation
          live,    \* turns in progress
          order,   \* history: turns in the order of their admission
          call,    \* what a call is doing
          asked,   \* history: what a turn/start or a thread/resume was sent
          argv,    \* the command line of the agent of a run
          rules,   \* _meta.rules of the session/new of a session
          stored   \* history: the runs that stored a session id on a thread

vars == <<thread, turn, live, order, call, asked, argv, rules, stored>>

PcLabels == {"idle", "preamble", "admit", "launch", "new", "store", "prompt",
             "done"}

TypeOK ==
  /\ \A th \in Threads : thread[th] = None \/ thread[th] \in Thread
  /\ \A t \in Threads : turn[t] = None \/ turn[t] \in Turn
  /\ live \subseteq {t \in Calls : turn[t] # None}
  /\ \A c \in Calls :
       /\ call[c].pc \in PcLabels
       /\ call[c].thread \in Threads \cup {None}
       /\ call[c].job \in Calls \cup {None}
       /\ call[c].pc \in {"launch", "new", "store", "prompt"} =>
            turn[call[c].job] # None
       /\ argv[c] # None => argv[c].model # Bad /\ argv[c].effort # Bad
  /\ \A t \in Calls : turn[t] # None => thread[turn[t].thread] # None

Idle == [pc |-> "idle", req |-> None, thread |-> None, model |-> "",
         effort |-> "", load |-> Absent, instr |-> "", job |-> None,
         sid |-> Absent, saw |-> {}, known |-> Absent]

Init ==
  /\ thread = [th \in Threads |-> IF th \in Stored THEN StoredThread[th] ELSE None]
  /\ turn = [t \in Threads |->
               IF t \in HadTurn
               THEN [thread |-> t, model |-> StoredThread[t].model,
                     effort |-> StoredEffort[t], epoch |-> 0, key |-> Absent]
               ELSE None]
  /\ live = {} /\ order = <<>>
  /\ call = [c \in Calls |-> Idle]
  /\ asked = [c \in Calls |-> None]
  /\ argv = [c \in Calls |-> None]
  /\ rules = [s \in Sessions |-> None]
  /\ stored = [th \in Threads |-> {}]

-----------------------------------------------------------------------------
(***************************************************************************)
(* The facades                                                             *)
(***************************************************************************)
HomeOf(explicit) == ResolveHome(explicit, EnvHome, Home)

Done(c) == call' = [call EXCEPT ![c] = [Idle EXCEPT !.pc = "done"]]

\* A refused call has written nothing and is forgotten; any other goes on with
\* the TurnRequest it has built from the thread it has read.
Receive(c, th, request) ==
  /\ call[c].pc = "idle"
  /\ IF Refused(request) THEN Done(c)
     ELSE call' = [call EXCEPT ![c].pc = "preamble",
                               ![c].req = Restrict(request, TurnFields),
                               ![c].thread = th,
                               ![c].known = IF th = None THEN Absent
                                            ELSE thread[th].sid]
  /\ UNCHANGED <<thread, turn, live, order, argv, rules, stored>>

Hear(c, p, fields, granted) ==
  asked' = IF granted THEN [asked EXCEPT ![c] = Restrict(p, fields)] ELSE asked

WorkerStart(c, p) ==
  Receive(c, None, WorkerStartRequest(p, HomeOf(p.home))) /\ UNCHANGED asked

GrokSpawn(c, p) ==
  Receive(c, None, SpawnRequest(p, HomeOf(p.home))) /\ UNCHANGED asked

WorkerFollowup(c, p, th) ==
  /\ thread[th] # None
  /\ Receive(c, th, FollowupRequest(p, thread[th], TRUE, HomeOf(p.home)))
  /\ UNCHANGED asked

GrokFollowup(c, p, th) ==
  /\ thread[th] # None
  /\ Receive(c, th, FollowupRequest(p, thread[th], FALSE, HomeOf(p.home)))
  /\ UNCHANGED asked

TurnStart(c, p, th) ==
  /\ thread[th] # None
  /\ Receive(c, th, TurnRequest(p, thread[th]))
  /\ Hear(c, p, {"approval", "sandbox"}, ~Refused(TurnRequest(p, thread[th])))

NewThread(r) == [cwd |-> r.cwd, model |-> r.model, approval |-> r.approval,
                 sandbox |-> r.sandbox, instr |-> r.instr, sid |-> Absent]

ThreadStart(c, p) ==
  /\ call[c].pc = "idle"
  /\ \E config \in ConfigFiles :
       LET r == ThreadRequest(p, config)
       IN IF Refused(r) THEN UNCHANGED thread
          ELSE thread' = [thread EXCEPT ![c] = NewThread(r)]
  /\ Done(c)
  /\ UNCHANGED <<turn, live, order, asked, argv, rules, stored>>

\* thread/resume answers for a thread it leaves as it is, or refuses.
ThreadResume(c, p, th) ==
  /\ call[c].pc = "idle" /\ thread[th] # None
  /\ LET granted == ~p.extra /\ ResumeInstructions(p.instr, thread[th].instr)
     IN /\ Hear(c, p, {"instr"}, granted)
        /\ call' = [call EXCEPT ![c] = [Idle EXCEPT !.pc = "done",
                                         !.thread = IF granted THEN th ELSE None]]
  /\ UNCHANGED <<thread, turn, live, order, argv, rules, stored>>

-----------------------------------------------------------------------------
(***************************************************************************)
(* run_turn_async, up to the session of the agent                          *)
(***************************************************************************)
TurnsOf(th) == {t \in Threads : turn[t] # None /\ turn[t].thread = th}

Position(t) == IF t \in Stored THEN 0
               ELSE CHOOSE n \in DOMAIN order : order[n] = t

\* Turn ids sort by pid, and within a process by the time of day.
IdLess(t, u) ==
  Pid[t] < Pid[u] \/ (Pid[t] = Pid[u] /\ Position(t) < Position(u))

Later(t, u) == \/ turn[t].epoch > turn[u].epoch
               \/ turn[t].epoch = turn[u].epoch /\ IdLess(u, t)

\* Mutant: the turn with the greatest id.
PreviousEffortById(th) ==
  IF TurnsOf(th) = {} THEN ""
  ELSE turn[CHOOSE t \in TurnsOf(th) : \A u \in TurnsOf(th) \ {t} : IdLess(u, t)].effort

PreviousEffort(th) ==
  IF TurnsOf(th) = {} THEN ""
  ELSE turn[CHOOSE t \in TurnsOf(th) : \A u \in TurnsOf(th) \ {t} : Later(t, u)].effort

\* A first turn: the thread is on disk before the launch is planned.
PreambleFirst(c, config) ==
  LET req == call[c].req
      r == ResolveFirstTurn(req.model, req.effort, config)
  IN IF Malformed(config) \/ Refused(r) THEN Done(c) /\ UNCHANGED thread
     ELSE /\ thread' = [thread EXCEPT ![c] =
                          [cwd |-> req.cwd, model |-> r.model,
                           approval |-> req.approval, sandbox |-> req.sandbox,
                           instr |-> "", sid |-> Absent]]
          /\ call' = [call EXCEPT
                        ![c].pc = IF PlanRefuses(req) THEN "done" ELSE "admit",
                        ![c].thread = c, ![c].model = r.model,
                        ![c].effort = r.effort]

\* Mutant: a later turn opens a session of its own.
LoadIdNever(req, th) == Absent

\* ThreadPath::FollowUp loads the session, ThreadPath::Reuse has none to load.
LoadId(req, th) == IF req.path = "followUp" THEN thread[th].sid ELSE Absent

\* A later turn: the thread is read again, but only for what it has frozen.
PreambleLater(c, config) ==
  LET req == call[c].req
      th == call[c].thread
      r == ResolveFollowUp(req.model, req.effort, thread[th].model,
                           PreviousEffort(th), config)
  IN IF \/ Malformed(config) \/ Refused(r) \/ PlanRefuses(req)
        \/ req.path = "followUp" /\ thread[th].sid = Absent
     THEN Done(c)
     ELSE call' = [call EXCEPT
                     ![c].pc = "admit", ![c].model = r.model,
                     ![c].effort = r.effort, ![c].instr = thread[th].instr,
                     ![c].load = LoadId(req, th),
                     ![c].saw = TurnsOf(th)]

Preamble(c) ==
  /\ call[c].pc = "preamble"
  /\ \E config \in ConfigFiles :
       \/ call[c].req.path = "first" /\ PreambleFirst(c, config)
       \/ call[c].req.path # "first" /\ PreambleLater(c, config) /\ UNCHANGED thread
  /\ UNCHANGED <<turn, live, order, asked, argv, rules, stored>>

InFlight(key) == {t \in live : turn[t].key = key /\ key # Absent}

\* admit_turn: the turn in flight for the key, a refusal, or a new turn.
Admit(c) ==
  /\ call[c].pc = "admit"
  /\ LET known == InFlight(call[c].req.key)
     IN \/ /\ known # {}
           /\ \E t \in known :
                call' = [call EXCEPT ![c].pc = "launch", ![c].job = t]
           /\ UNCHANGED <<turn, live, order>>
        \/ /\ known = {} /\ TurnsOf(call[c].thread) \cap live # {}
           /\ Done(c) /\ UNCHANGED <<turn, live, order>>
        \/ /\ known = {} /\ TurnsOf(call[c].thread) \cap live = {}
           /\ \E now \in 0..MaxNow :
                turn' = [turn EXCEPT ![c] =
                           [thread |-> call[c].thread, model |-> call[c].model,
                            effort |-> call[c].effort, epoch |-> now,
                            key |-> call[c].req.key]]
           /\ live' = live \cup {c}
           /\ order' = Append(order, c)
           /\ call' = [call EXCEPT ![c].pc = "launch", ![c].job = c]
  /\ UNCHANGED <<thread, asked, argv, rules, stored>>

\* The agent is spawned, and killed again if the turn is over by then.
Spawn(c) ==
  /\ call[c].pc = "launch"
  /\ argv' = [argv EXCEPT ![c] = PlanLaunch(call[c].req, call[c].model,
                                            call[c].effort)]
  /\ call' = [call EXCEPT ![c].pc = IF call[c].job \notin live THEN "done"
                                    ELSE IF call[c].load = Absent THEN "new"
                                    ELSE "prompt"]
  /\ UNCHANGED <<thread, turn, live, order, asked, rules, stored>>

\* Mutant: the rules are those of the thread of the turn.
SessionNewPlain(c) ==
  /\ call[c].pc = "new"
  /\ \E s \in {x \in Sessions : rules[x] = None} :
       /\ rules' = [rules EXCEPT ![s] = ""]
       /\ call' = [call EXCEPT ![c].pc = "store", ![c].sid = s]
  /\ UNCHANGED <<thread, turn, live, order, asked, argv, stored>>

\* session/new carries the instructions the run has read with the thread.
SessionNew(c) ==
  /\ call[c].pc = "new"
  /\ \E s \in {x \in Sessions : rules[x] = None} :
       /\ rules' = [rules EXCEPT ![s] = call[c].instr]
       /\ call' = [call EXCEPT ![c].pc = "store", ![c].sid = s]
  /\ UNCHANGED <<thread, turn, live, order, asked, argv, stored>>

\* set_acp_session_id on the thread of the turn, which after a duplicate spawn
\* is not the thread the run has made.
StoreSession(c) ==
  /\ call[c].pc = "store"
  /\ LET th == turn[call[c].job].thread
     IN /\ thread' = [thread EXCEPT ![th].sid = call[c].sid]
        /\ stored' = [stored EXCEPT ![th] = @ \cup {c}]
  /\ call' = [call EXCEPT ![c].pc = "prompt"]
  /\ UNCHANGED <<turn, live, order, asked, argv, rules>>

\* The end of a run: its turn is over (TurnEnds), an error on the way has made
\* it so, or the process is killed and the turn is left to an observer.
RunEnds(c) ==
  /\ call[c].pc \in {"launch", "new", "store", "prompt"}
  /\ call' = [call EXCEPT ![c].pc = "done"]
  /\ UNCHANGED <<thread, turn, live, order, asked, argv, rules, stored>>

\* The answer of the agent or an error is published, cancel, or an observer
\* that finds the worker gone.
TurnEnds(t) ==
  /\ t \in live
  /\ live' = live \ {t}
  /\ UNCHANGED <<thread, turn, order, call, asked, argv, rules, stored>>

-----------------------------------------------------------------------------
Next ==
  \/ \E c \in Calls, p \in Params :
       \/ WorkerStart(c, p) \/ GrokSpawn(c, p) \/ ThreadStart(c, p)
       \/ \E th \in Threads :
            \/ WorkerFollowup(c, p, th) \/ GrokFollowup(c, p, th)
            \/ TurnStart(c, p, th) \/ ThreadResume(c, p, th)
  \/ \E c \in Calls :
       \/ Preamble(c) \/ Admit(c) \/ Spawn(c) \/ SessionNew(c)
       \/ StoreSession(c) \/ RunEnds(c) \/ TurnEnds(c)

Spec == Init /\ [][Next]_vars

-----------------------------------------------------------------------------
\* A run that admit_turn has given the turn of another spawn.
Duplicate(c) == call[c].job \notin {None, c}

\* grok-launch.md, "Thread lock": "A samchi thread freezes `model`": the agent
\* that drives a turn has the model that the turn's thread was created with,
\* whatever config.yaml says by then and whichever facade starts the turn; and
\* neither a blank text, nor the stub alias or the empty effort of an old
\* record, reaches a command line.  The exception, which the document does not
\* make: the agent of a duplicate spawn has the model of the thread its own call
\* has made, though the turn it drives is on another thread.
ModelIsFrozen ==
  \A c \in Calls :
    argv[c] # None =>
      LET own == IF Duplicate(c) THEN c ELSE turn[call[c].job].thread
      IN /\ {argv[c].model, argv[c].effort} \cap {"", " ", Alias, Bad} = {}
         /\ argv[c].model = NormalizePresent(thread[own].model)
         /\ ~Duplicate(c) => turn[c].model = argv[c].model

\* What a parent has asked a call to use.
InForce(said, own) == IF said \in {Absent, Null, Json} THEN own ELSE said

\* "Do not accept the name and hope", and no yolo unless asked for: an agent is
\* started only where the sandbox named last, on the turn or else on its thread,
\* is one that can be enforced, and approves by itself only if the policy named
\* last is never.  A thread of the app-server that names neither has neither.
\* The agent of a duplicate spawn is judged by what its own call has asked for,
\* not by the thread whose turn it drives.
PolicyIsInForce ==
  \A c \in Calls :
    argv[c] # None =>
      LET th == thread[call[c].thread]
          turnStart == asked[c] # None
      IN /\ argv[c].always <=>
              "never" = IF turnStart THEN InForce(asked[c].approval, th.approval)
                        ELSE th.approval
         /\ IF turnStart /\ asked[c].sandbox # Absent
            THEN asked[c].sandbox = "workspaceWrite"
            ELSE th.sandbox = "workspace-write"

\* "one Gamchi thread keeps one instruction string", "install the frozen
\* non-empty string": the session a thread has was opened with the rules that
\* thread/start froze, whoever opened it and in whatever order runs stored
\* theirs, and a thread/resume that was granted named no others.
RulesAreFrozen ==
  \A th \in Threads :
    thread[th] # None =>
      /\ thread[th].sid \in Sessions => rules[thread[th].sid] = thread[th].instr
      /\ \A c \in Calls :
           asked[c] # None /\ call[c].pc = "done" /\ call[c].req = None
             /\ call[c].thread = th /\ asked[c].instr \notin {Absent, Null}
             => asked[c].instr = thread[th].instr

\* The turn of a thread that was admitted last before that of c.
Before(c) == {t \in TurnsOf(turn[c].thread) \ {c} : Position(t) < Position(c)}

LastBefore(c) == CHOOSE t \in Before(c) :
                   \A u \in Before(c) : Position(u) <= Position(t)

\* "Later-turn omitted effort uses the previous turn's effort": a turn that
\* names no effort has that of the turn admitted before it, if its run had read
\* the turns of the thread after that admission, and if the seconds of the
\* clock, or the ids of one process, tell the order of the turns.
EffortIsPrevious ==
  \A c \in Calls :
    /\ turn[c] # None /\ ~Duplicate(c) /\ Before(c) # {}
    /\ call[c].req # None /\ call[c].req.effort = ""
    => LET last == LastBefore(c)
           told == \A u \in Before(c) \ {last} :
                     \/ turn[u].epoch < turn[last].epoch
                     \/ /\ turn[u].epoch = turn[last].epoch
                        /\ Pid[u] = Pid[last]
       IN last \in call[c].saw /\ told /\ turn[last].effort # ""
            => turn[c].effort = turn[last].effort

\* "The next turn ... session/loads the stored ACP session": a session a thread
\* has is replaced only by a run whose call had read the thread before it had
\* one, or by the run of a duplicate spawn.
SessionIsKept ==
  \A th \in Threads : \A c \in stored[th] :
    call[c].known = Absent \/ Duplicate(c)
=============================================================================
