---------------------------- MODULE SettingsProofs ----------------------------
(***************************************************************************)
(* Proofs about module Settings for any number of calls, threads, sessions *)
(* and config files, any process ids and whatever the parents send.        *)
(***************************************************************************)
EXTENDS Settings, WellFoundedInduction, TLAPS

Request == [TurnFields -> Texts]

CallState == [pc : PcLabels, req : Request \cup {None}, thread : Threads \cup {None},
              model : Texts, effort : Texts, load : Sessions \cup Texts,
              instr : Texts, job : Calls \cup {None}, sid : Sessions \cup Texts,
              saw : SUBSET Threads, known : Sessions \cup Texts]

Asked == [{"approval", "sandbox"} -> Texts] \cup [{"instr"} -> Texts]
Argv == [always : BOOLEAN, sandbox : {"workspace"}, model : Texts, effort : Texts]

SettingsType ==
  /\ thread \in [Threads -> Thread \cup {None}]
  /\ turn \in [Threads -> Turn \cup {None}]
  /\ live \subseteq Calls /\ order \in Seq(Calls)
  /\ call \in [Calls -> CallState]
  /\ asked \in [Calls -> Asked \cup {None}]
  /\ argv \in [Calls -> Argv \cup {None}]
  /\ rules \in [Sessions -> Texts \cup {None}]
  /\ stored \in [Threads -> SUBSET Calls]

\* A text that may be on the command line of an agent.
Clean(v) == v \notin {"", " ", Alias, Bad}

\* The record of a turn is that of the call of its name, whose place in the
\* order of admissions is its own.
TurnInv ==
  /\ live \subseteq {t \in Calls : turn[t] # None}
  /\ \A t \in Threads :
       turn[t] # None => /\ thread[turn[t].thread] # None
                         /\ turn[t].effort \notin {" ", Alias, Bad}
  /\ \A t \in Stored : turn[t] # None => turn[t].thread = t /\ turn[t].key = Absent
  /\ \A t \in Calls :
       turn[t] # None => /\ call[t].job = t /\ turn[t].thread = call[t].thread
                         /\ turn[t].model = call[t].model
                         /\ turn[t].effort = call[t].effort
                         /\ turn[t].key = call[t].req.key
  /\ \A t \in Calls : turn[t] # None <=> \E n \in DOMAIN order : order[n] = t
  /\ \A m, n \in DOMAIN order : order[m] = order[n] => m = n

\* The session of a thread was opened with the instructions of the thread.
ThreadInv ==
  \A th \in Threads :
    thread[th] # None /\ thread[th].sid \in Sessions =>
      rules[thread[th].sid] = thread[th].instr

\* What a TurnRequest says of policies is what was said last.
Told(q, said, record) ==
  IF said = None
  THEN q.approval = record.approval /\ q.sandbox = record.sandbox
  ELSE /\ said \in [{"approval", "sandbox"} -> Texts]
       /\ q.approval = InForce(said.approval, record.approval)
       /\ IF said.sandbox = Absent THEN q.sandbox = record.sandbox
          ELSE /\ q.sandbox \in Sandboxes
               /\ q.sandbox = "workspace-write" <=> said.sandbox = "workspaceWrite"

\* What a run has seen of the turns of its thread before it was admitted, and
\* the effort it has from there.
SawInv(k, c) ==
  /\ k.saw \subseteq {t \in Threads \ {c} : turn[t] # None /\ turn[t].thread = k.thread}
  /\ turn[c] # None => \A x \in k.saw : Position(x) < Position(c)
  /\ k.req.effort = "" =>
       \A x \in k.saw :
         (\A u \in k.saw \ {x} : Later(x, u)) /\ turn[x].effort # "" =>
           k.effort = turn[x].effort

\* A run that was given a plan: what it has read and resolved.
PlanInv(k, c) ==
  /\ k.req # None /\ ~PlanRefuses(k.req)
  /\ k.thread # None /\ thread[k.thread] # None
  /\ Told(k.req, asked[c], thread[k.thread])
  /\ Clean(k.model) /\ Clean(k.effort)
  /\ k.model = NormalizePresent(thread[k.thread].model)
  /\ k.instr = thread[k.thread].instr
  /\ k.req.path = "first" => k.thread = c /\ k.instr = "" /\ k.saw = {}
  /\ k.req.path = "followUp" => k.load # Absent

\* A request that has come in.
ReceivedInv(k, c) ==
  /\ k.req # None /\ k.load = Absent /\ k.instr = "" /\ k.saw = {} /\ k.effort = ""
  /\ IF k.req.path = "first"
     THEN /\ thread[c] = None /\ k.thread = None /\ asked[c] = None
          /\ k.req.approval \in Policies /\ k.req.sandbox \in Sandboxes
     ELSE /\ k.thread # None /\ thread[k.thread] # None
          /\ Told(k.req, asked[c], thread[k.thread])

\* The turn and the agent of a run.
JobInv(k, c) ==
  /\ k.pc \in {"idle", "preamble", "admit"} => k.job = None
  /\ k.pc \in {"launch", "new", "store", "prompt"} => k.job # None
  /\ k.job # None =>
       /\ turn[k.job] # None
       /\ k.job # c => k.req.path = "first" /\ turn[k.job].key # Absent
  /\ argv[c] # None => k.job # None /\ argv[c] = PlanLaunch(k.req, k.model, k.effort)

\* The session of a run: it opens one only if its thread had none when its call
\* came in.
OpenInv(k, c) ==
  /\ k.req # None /\ k.req.path # "first" => k.req.key = Absent
  /\ k.known # Absent => k.req # None /\ k.req.path = "followUp"
  /\ k.pc = "new" => k.load = Absent
  /\ k.pc \in {"new", "store"} => k.known = Absent
  /\ k.pc = "store" => k.sid \in Sessions /\ rules[k.sid] = k.instr
  /\ \A th \in Threads : c \in stored[th] => k.known = Absent /\ k.pc # "idle"

\* A thread/resume that was granted named the instructions of its thread.
ResumeInv(k, c) ==
  asked[c] # None /\ k.req = None /\ k.thread # None =>
    /\ thread[k.thread] # None /\ asked[c] \in [{"instr"} -> Texts]
    /\ asked[c].instr \in {Absent, Null, thread[k.thread].instr}

CallInv(c) ==
  /\ call[c].pc = "idle" => call[c] = Idle /\ asked[c] = None /\ thread[c] = None
  /\ call[c].pc = "preamble" => ReceivedInv(call[c], c)
  /\ call[c].pc = "admit" \/ call[c].job # None =>
       PlanInv(call[c], c) /\ SawInv(call[c], c)
  /\ JobInv(call[c], c) /\ OpenInv(call[c], c) /\ ResumeInv(call[c], c)

SettingsInv == SettingsType /\ TurnInv /\ ThreadInv /\ \A c \in Calls : CallInv(c)

-----------------------------------------------------------------------------
(***************************************************************************)
(* Texts, models and efforts                                               *)
(***************************************************************************)
\* A text that was normalized is clean, and normalized again it is the same.
LEMMA Normalized ==
  ASSUME NEW v \in Texts
  PROVE  /\ NormalizePresent(v) \in Texts
         /\ NormalizePresent(v) # Bad =>
              /\ Clean(NormalizePresent(v))
              /\ NormalizePresent(NormalizePresent(v)) = NormalizePresent(v)
BY LaunchTextsAssumption DEF NormalizePresent, Trim, Clean, Alias, BuiltinModel, Bad

\* The same of a layer, if the builtin one is such a text.
LEMMA LayerNormalized ==
  ASSUME NEW e \in Texts, NEW d \in Texts, NEW b \in Texts,
         Clean(b), NormalizePresent(b) = b
  PROVE  /\ ResolveLayer(e, d, b) \in Texts
         /\ ResolveLayer(e, d, b) # Bad =>
              /\ Clean(ResolveLayer(e, d, b))
              /\ NormalizePresent(ResolveLayer(e, d, b)) = ResolveLayer(e, d, b)
BY Normalized DEF ResolveLayer

\* The builtin model and effort are.
LEMMA Builtins ==
  /\ BuiltinModel \in Texts /\ BuiltinEffort \in Texts
  /\ Clean(BuiltinModel) /\ Clean(BuiltinEffort)
  /\ NormalizePresent(BuiltinModel) = BuiltinModel
  /\ NormalizePresent(BuiltinEffort) = BuiltinEffort
BY LaunchTextsAssumption
   DEF NormalizePresent, Trim, Clean, Alias, BuiltinModel, BuiltinEffort, Bad

\* A default is a text.
LEMMA DefaultIsText ==
  ASSUME NEW file \in Seq(Line), NEW key
  PROVE  DefaultOf(file, key) \in Texts
<1>1. CASE \E i \in DOMAIN file : file[i].key = key
  <2> DEFINE i == CHOOSE i \in DOMAIN file : file[i].key = key
  <2>1. i \in DOMAIN file
    BY <1>1
  <2>2. file[i].value \in Texts
    <3>1. file[i] \in Line
      BY <2>1
    <3> QED BY <3>1 DEF Line
  <2>3. DefaultOf(file, key) = Unquote(Trim(file[i].value))
    BY <1>1 DEF DefaultOf
  <2> HIDE DEF i
  <2> QED BY <2>2, <2>3, LaunchTextsAssumption DEF Unquote, Trim
<1>2. CASE ~\E i \in DOMAIN file : file[i].key = key
  BY <1>2, LaunchTextsAssumption DEF DefaultOf
<1> QED BY <1>1, <1>2

\* The model and the effort of a first turn that is not refused.
LEMMA FirstResolved ==
  ASSUME NEW m \in Texts, NEW e \in Texts, NEW file \in Seq(Line)
  PROVE  LET r == ResolveFirstTurn(m, e, file)
         IN /\ r.model \in Texts /\ r.effort \in Texts
            /\ r.model # Bad => Clean(r.model) /\ NormalizePresent(r.model) = r.model
            /\ r.effort # Bad => Clean(r.effort)
            /\ ~Refused(r) => r.model # Bad /\ r.effort # Bad
<1> DEFINE r == ResolveFirstTurn(m, e, file)
<1>1. PresentField(m) \in Texts /\ PresentField(e) \in Texts
  BY LaunchTextsAssumption DEF PresentField
<1>2. /\ r.model = ResolveLayer(PresentField(m), DefaultOf(file, "default_model"), BuiltinModel)
      /\ r.effort = ResolveLayer(PresentField(e), DefaultOf(file, "default_effort"), BuiltinEffort)
      /\ DOMAIN r = {"model", "effort"}
  BY DEF ResolveFirstTurn
<1>3. DefaultOf(file, "default_model") \in Texts /\ DefaultOf(file, "default_effort") \in Texts
  BY DefaultIsText
<1>4. ~Refused(r) => r.model # Bad /\ r.effort # Bad
  BY <1>2 DEF Refused
<1> HIDE DEF r
<1>5. /\ r.model \in Texts
      /\ r.model # Bad => Clean(r.model) /\ NormalizePresent(r.model) = r.model
  BY <1>1, <1>2, <1>3, Builtins, LayerNormalized
<1>6. r.effort \in Texts /\ (r.effort # Bad => Clean(r.effort))
  BY <1>1, <1>2, <1>3, Builtins, LayerNormalized
<1> QED BY <1>4, <1>5, <1>6 DEF r

\* Those of a later turn: the model its thread has frozen, and the effort of the
\* turn before, if it names none.
GoesOn(r, frozen, e, previous) ==
  /\ r.model \in Texts /\ r.effort \in Texts /\ Clean(r.model) /\ Clean(r.effort)
  /\ r.model = NormalizePresent(frozen)
  /\ e = "" /\ previous # "" => r.effort = previous

LEMMA FollowUpResolved ==
  ASSUME NEW m \in Texts, NEW e \in Texts, NEW frozen \in Texts, NEW previous \in Texts,
         NEW file \in Seq(Line), previous \notin {" ", Alias, Bad}, NEW r,
         r = ResolveFollowUp(m, e, frozen, previous, file), ~Refused(r)
  PROVE  GoesOn(r, frozen, e, previous)
<1> DEFINE l == ResolveLayer(PresentField(e), DefaultOf(file, "default_effort"), BuiltinEffort)
           n == NormalizePresent(frozen)
<1>1. r.model # Bad /\ r.effort # Bad
  <2>1. DOMAIN r = {"model", "effort"}
    BY DEF ResolveFollowUp
  <2> QED BY <2>1 DEF Refused
<1>2. /\ r.model \in {n, Bad}
      /\ r.effort = IF PresentField(e) = Absent /\ previous # "" THEN previous ELSE l
  BY DEF ResolveFollowUp
<1>3. PresentField(e) \in Texts /\ DefaultOf(file, "default_effort") \in Texts
  BY DefaultIsText, LaunchTextsAssumption DEF PresentField
<1>4. l \in Texts /\ (l # Bad => Clean(l))
  BY <1>3, Builtins, LayerNormalized
<1>5. e = "" => PresentField(e) = Absent
  BY DEF PresentField
<1>6. n \in Texts /\ (n # Bad => Clean(n))
  BY Normalized
<1> HIDE DEF l, n
<1>7. r.model = n /\ Clean(r.model) /\ r.model \in Texts
  BY <1>1, <1>2, <1>6
<1>8. r.effort \in Texts /\ Clean(r.effort)
  BY <1>1, <1>2, <1>4 DEF Clean
<1>9. e = "" /\ previous # "" => r.effort = previous
  BY <1>2, <1>5
<1> QED BY <1>7, <1>8, <1>9 DEF n, GoesOn

-----------------------------------------------------------------------------
(***************************************************************************)
(* Requests                                                                *)
(***************************************************************************)
\* What a text that is not refused was parsed to.
LEMMA Parsed ==
  ASSUME NEW v, NEW S, NEW own \in S, Parse(v, S, own) # Bad
  PROVE  Parse(v, S, own) \in S /\ Parse(v, S, own) = InForce(v, own)
BY DEF Parse, InForce

\* The fields of a request that is not refused are there and are texts.
LEMMA FieldsTaken ==
  ASSUME NEW r, TurnFields \subseteq DOMAIN r, ~Refused(r), \A f \in TurnFields : r[f] \in Texts
  PROVE  /\ Restrict(r, TurnFields) \in Request
         /\ \A f \in TurnFields : Restrict(r, TurnFields)[f] = r[f] /\ r[f] # Bad
BY DEF Restrict, Request, Refused

\* A request that makes a thread.
FirstRequest(q) ==
  /\ q \in Request /\ q.path = "first"
  /\ q.approval \in Policies /\ q.sandbox \in Sandboxes

\* A request for a thread that was read.
LaterRequest(q, record) ==
  /\ q \in Request /\ q.path \in {"followUp", "reuse"} /\ q.key = Absent
  /\ record.sid # Absent => q.path = "followUp"

\* The texts of a parent stay texts.
LEMMA TextFields ==
  ASSUME NEW v \in Texts
  PROVE  TextField(v) \in Texts /\ Cwd(v) \in Texts /\ RequireAbsolute(v) \in Texts
BY LaunchTextsAssumption DEF TextField, Cwd, RequireAbsolute

\* worker start.
LEMMA WorkerStartTaken ==
  ASSUME NEW p \in Param, NEW home, ~Refused(WorkerStartRequest(p, home))
  PROVE  FirstRequest(Restrict(WorkerStartRequest(p, home), TurnFields))
<1> DEFINE r == WorkerStartRequest(p, home)
           q == Restrict(r, TurnFields)
<1>1. /\ DOMAIN r = {"path", "home", "flags", "cwd", "prompt", "approval", "sandbox", "model",
                     "effort", "key"}
      /\ r.path = "first" /\ r.cwd = Cwd(p.cwd) /\ r.approval = Parse(p.approval, Policies, "never")
      /\ r.sandbox = "workspace-write" /\ r.model = TextField(p.model)
      /\ r.effort = TextField(p.effort) /\ r.key = Absent
  BY DEF WorkerStartRequest
<1>2. p.cwd \in Texts /\ p.approval \in Texts /\ p.model \in Texts /\ p.effort \in Texts
  BY DEF Param
<1> HIDE DEF r
<1>3. r.approval \in Policies
  <2>1. r.approval # Bad
    BY <1>1 DEF Refused, r
  <2> QED BY <1>1, <1>2, <2>1, Parsed DEF Policies
<1>4. \A f \in TurnFields : r[f] \in Texts
  <2>1. /\ r.path \in Texts /\ r.cwd \in Texts /\ r.approval \in Texts /\ r.sandbox \in Texts
        /\ r.model \in Texts /\ r.effort \in Texts /\ r.key \in Texts
    BY <1>1, <1>2, <1>3, TextFields, LaunchTextsAssumption DEF Sandboxes
  <2> QED BY <2>1 DEF TurnFields
<1>5. q \in Request /\ \A f \in TurnFields : q[f] = r[f]
  BY <1>1, <1>4, FieldsTaken DEF TurnFields, r
<1>6. q.path = r.path /\ q.approval = r.approval /\ q.sandbox = r.sandbox
  BY <1>5 DEF TurnFields
<1> QED BY <1>1, <1>3, <1>5, <1>6 DEF FirstRequest, Sandboxes, r

\* grok_spawn.
LEMMA SpawnTaken ==
  ASSUME NEW p \in Param, NEW home, ~Refused(SpawnRequest(p, home))
  PROVE  FirstRequest(Restrict(SpawnRequest(p, home), TurnFields))
<1> DEFINE r == SpawnRequest(p, home)
           q == Restrict(r, TurnFields)
<1>1. /\ DOMAIN r = {"path", "home", "extra", "cwd", "prompt", "approval", "sandbox", "model",
                     "effort", "key"}
      /\ r.path = "first" /\ r.cwd = RequireAbsolute(Cwd(p.cwd))
      /\ r.approval = Parse(p.approval, Policies, "never")
      /\ r.sandbox = Parse(p.sandbox, Sandboxes, "workspace-write")
      /\ r.model = TextField(p.model) /\ r.effort = TextField(p.effort) /\ r.key = p.key
  BY DEF SpawnRequest
<1>2. /\ p.cwd \in Texts /\ p.approval \in Texts /\ p.sandbox \in Texts
      /\ p.model \in Texts /\ p.effort \in Texts /\ p.key \in Texts
  BY DEF Param
<1> HIDE DEF r
<1>3. r.approval \in Policies /\ r.sandbox \in Sandboxes
  <2>1. r.approval # Bad /\ r.sandbox # Bad
    BY <1>1 DEF Refused, r
  <2>2. r.approval \in Policies
    BY <1>1, <1>2, <2>1, Parsed DEF Policies
  <2>3. r.sandbox \in Sandboxes
    BY <1>1, <1>2, <2>1, Parsed DEF Sandboxes
  <2> QED BY <2>2, <2>3
<1>4. \A f \in TurnFields : r[f] \in Texts
  <2>1. /\ r.path \in Texts /\ r.cwd \in Texts /\ r.approval \in Texts /\ r.sandbox \in Texts
        /\ r.model \in Texts /\ r.effort \in Texts /\ r.key \in Texts
    BY <1>1, <1>2, <1>3, TextFields, LaunchTextsAssumption DEF Sandboxes
  <2> QED BY <2>1 DEF TurnFields
<1>5. q \in Request /\ \A f \in TurnFields : q[f] = r[f]
  BY <1>1, <1>4, FieldsTaken DEF TurnFields, r
<1>6. q.path = r.path /\ q.approval = r.approval /\ q.sandbox = r.sandbox
  BY <1>5 DEF TurnFields
<1> QED BY <1>1, <1>3, <1>5, <1>6 DEF FirstRequest, r

\* worker followup and grok_followup: the policies are the thread's.
LEMMA FollowupTaken ==
  ASSUME NEW p \in Param, NEW home, NEW th \in Thread, NEW cli \in BOOLEAN,
         ~Refused(FollowupRequest(p, th, cli, home))
  PROVE  LET q == Restrict(FollowupRequest(p, th, cli, home), TurnFields)
         IN LaterRequest(q, th) /\ Told(q, None, th)
<1> DEFINE r == FollowupRequest(p, th, cli, home)
           q == Restrict(r, TurnFields)
<1>1. /\ DOMAIN r = {"path", "home", "flags", "cwd", "prompt", "approval", "sandbox", "model",
                     "effort", "key"}
      /\ r.path \in {"followUp", Bad} /\ r.cwd \in {p.cwd, th.cwd}
      /\ r.approval \in {th.approval, Bad}
      /\ r.sandbox = th.sandbox /\ r.model = TextField(p.model)
      /\ r.effort = TextField(p.effort) /\ r.key = Absent
  BY DEF FollowupRequest
<1>2. /\ p.cwd \in Texts /\ p.model \in Texts /\ p.effort \in Texts
      /\ th.cwd \in Texts /\ th.approval \in Policies /\ th.sandbox \in Sandboxes
  BY DEF Param, Thread
<1> HIDE DEF r
<1>3. r.path = "followUp" /\ r.approval = th.approval
  <2>1. r.approval # Bad /\ r.path # Bad
    BY <1>1 DEF Refused, r
  <2> QED BY <1>1, <2>1
<1>4. \A f \in TurnFields : r[f] \in Texts
  <2>1. /\ r.path \in Texts /\ r.cwd \in Texts /\ r.approval \in Texts /\ r.sandbox \in Texts
        /\ r.model \in Texts /\ r.effort \in Texts /\ r.key \in Texts
    BY <1>1, <1>2, <1>3, TextFields, LaunchTextsAssumption DEF Sandboxes
  <2> QED BY <2>1 DEF TurnFields
<1>5. q \in Request /\ \A f \in TurnFields : q[f] = r[f]
  BY <1>1, <1>4, FieldsTaken DEF TurnFields, r
<1>6. q.path = r.path /\ q.approval = r.approval /\ q.sandbox = r.sandbox /\ q.key = r.key
  BY <1>5 DEF TurnFields
<1> QED BY <1>1, <1>3, <1>5, <1>6 DEF LaterRequest, Told, r

\* turn/start: what it names is in force, and what it does not is the thread's.
LEMMA TurnStartTaken ==
  ASSUME NEW p \in Param, NEW th \in Thread, ~Refused(TurnRequest(p, th))
  PROVE  LET q == Restrict(TurnRequest(p, th), TurnFields)
             said == Restrict(p, {"approval", "sandbox"})
         IN LaterRequest(q, th) /\ said # None /\ Told(q, said, th)
<1> DEFINE r == TurnRequest(p, th)
           q == Restrict(r, TurnFields)
           said == Restrict(p, {"approval", "sandbox"})
<1>1. /\ DOMAIN r = {"path", "extra", "cwd", "prompt", "instr", "approval", "sandbox", "model",
                     "effort", "key"}
      /\ r.path = (IF th.sid = Absent THEN "reuse" ELSE "followUp") /\ r.cwd = th.cwd
      /\ r.approval = Parse(p.approval, Policies, th.approval)
      /\ r.sandbox = (IF p.sandbox = Absent THEN th.sandbox ELSE ToThreadSandbox(p.sandbox))
      /\ r.model = TextField(p.model) /\ r.effort = TextField(p.effort) /\ r.key = Absent
  BY DEF TurnRequest
<1>2. /\ p.approval \in Texts /\ p.sandbox \in Texts /\ p.model \in Texts /\ p.effort \in Texts
      /\ th.cwd \in Texts /\ th.approval \in Policies /\ th.sandbox \in Sandboxes
  BY DEF Param, Thread
<1>3. /\ said \in [{"approval", "sandbox"} -> Texts]
      /\ said.approval = p.approval /\ said.sandbox = p.sandbox
  BY <1>2 DEF Restrict
<1>4. said # None
  <2>1. {"approval", "sandbox"} \in SUBSET (TurnFields \cup {"instr"})
    BY DEF TurnFields
  <2> QED BY <1>3, <2>1, SettingsNoneAssumption
<1> HIDE DEF r, said
<1>5. /\ r.approval \in Policies /\ r.approval = InForce(p.approval, th.approval)
      /\ r.sandbox \in Sandboxes
      /\ IF p.sandbox = Absent THEN r.sandbox = th.sandbox
         ELSE r.sandbox = "workspace-write" <=> p.sandbox = "workspaceWrite"
  <2>1. r.approval # Bad /\ r.sandbox # Bad
    BY <1>1 DEF Refused, r
  <2>2. r.approval \in Policies /\ r.approval = InForce(p.approval, th.approval)
    BY <1>1, <1>2, <2>1, Parsed DEF Policies
  <2>3. CASE p.sandbox = Absent
    BY <1>1, <1>2, <2>2, <2>3
  <2>4. CASE p.sandbox # Absent
    BY <1>1, <2>1, <2>2, <2>4 DEF ToThreadSandbox, Sandboxes
  <2> QED BY <2>3, <2>4
<1>6. \A f \in TurnFields : r[f] \in Texts
  <2>1. /\ r.path \in Texts /\ r.cwd \in Texts /\ r.approval \in Texts /\ r.sandbox \in Texts
        /\ r.model \in Texts /\ r.effort \in Texts /\ r.key \in Texts
    BY <1>1, <1>2, <1>5, TextFields, LaunchTextsAssumption
  <2> QED BY <2>1 DEF TurnFields
<1>7. q \in Request /\ \A f \in TurnFields : q[f] = r[f]
  BY <1>1, <1>6, FieldsTaken DEF TurnFields, r
<1>8. q.path = r.path /\ q.approval = r.approval /\ q.sandbox = r.sandbox /\ q.key = r.key
  BY <1>7 DEF TurnFields
<1>9. LaterRequest(q, th)
  BY <1>1, <1>7, <1>8 DEF LaterRequest
<1>10. Told(q, said, th)
  BY <1>3, <1>4, <1>5, <1>8 DEF Told
<1> QED BY <1>4, <1>9, <1>10 DEF r, said

-----------------------------------------------------------------------------
(***************************************************************************)
(* The order of the turns                                                  *)
(***************************************************************************)
\* The position of a turn is its place in the order of admissions.
LEMMA PositionIs ==
  ASSUME TurnInv, NEW t \in Calls, NEW n \in DOMAIN order, order[n] = t
  PROVE  Position(t) = n
<1>1. t \notin Stored
  BY SettingsNamesAssumption
<1>2. \A m \in DOMAIN order : order[m] = t => m = n
  BY DEF TurnInv
<1> QED BY <1>1, <1>2 DEF Position

\* A stored turn comes before the others, which have places of their own.
LEMMA Positions ==
  ASSUME SettingsType, TurnInv, NEW t \in Threads, turn[t] # None
  PROVE  /\ t \in Stored => Position(t) = 0
         /\ t \in Calls => /\ Position(t) \in DOMAIN order /\ order[Position(t)] = t
                            /\ Position(t) >= 1 /\ Position(t) <= Len(order)
         /\ Position(t) \in Nat
<1>1. CASE t \in Stored
  <2>1. t \notin Calls
    BY <1>1, SettingsNamesAssumption
  <2> QED BY <1>1, <2>1 DEF Position
<1>2. CASE t \in Calls
  <2>1. PICK n \in DOMAIN order : order[n] = t
    BY <1>2 DEF TurnInv
  <2>2. Position(t) = n /\ t \notin Stored
    BY <1>2, <2>1, PositionIs, SettingsNamesAssumption
  <2>3. n \in Nat /\ n >= 1 /\ n <= Len(order)
    BY <2>1 DEF SettingsType
  <2> QED BY <2>1, <2>2, <2>3
<1> QED BY <1>1, <1>2 DEF Threads

\* Of two turns of a thread at most one is later than the other.
LEMMA LaterIsStrict ==
  ASSUME SettingsType, TurnInv, NEW t \in Threads, NEW u \in Threads,
         turn[t] # None, turn[u] # None, Later(t, u)
  PROVE  ~Later(u, t)
<1>1. turn[t].epoch \in Nat /\ turn[u].epoch \in Nat
  <2>1. turn[t] \in Turn /\ turn[u] \in Turn
    BY DEF SettingsType
  <2> QED BY <2>1, SettingsBoundsAssumption DEF Turn
<1>2. Pid[t] \in Nat /\ Pid[u] \in Nat
  BY SettingsPidAssumption
<1>3. Position(t) \in Nat /\ Position(u) \in Nat
  BY Positions
<1> HIDE DEF Position
<1> QED BY <1>1, <1>2, <1>3 DEF Later, IdLess

\* Some member of a set of numbers below a bound is the greatest.
LEMMA Greatest ==
  ASSUME NEW T, T # {}, NEW n \in Nat, \A x \in T : x \in Nat /\ x <= n
  PROVE  \E x \in T : \A y \in T : y <= x
<1> DEFINE Below == {n - x : x \in T}
           R == OpToRel(<, Nat)
<1>1. Below \subseteq Nat /\ Below # {}
  OBVIOUS
<1>2. IsWellFoundedOn(R, Nat)
  BY NatLessThanWellFounded
<1>3. \A a, b \in Nat : <<a, b>> \in R <=> a < b
  BY DEF OpToRel
<1> HIDE DEF Below, R
<1>4. PICK m \in Below : \A k \in Below : ~(<<k, m>> \in R)
  BY <1>1, <1>2, WFMin
<1>5. \A k \in Below : ~(k < m)
  BY <1>1, <1>3, <1>4
<1>6. PICK x \in T : m = n - x
  BY <1>4 DEF Below
<1>7. ASSUME NEW y \in T PROVE y <= x
  <2>1. n - y \in Below
    BY DEF Below
  <2>2. ~(n - y < n - x)
    BY <1>5, <1>6, <2>1
  <2> QED BY <2>2
<1> QED BY <1>7

\* Two turns of a thread have two places.
LEMMA PositionsDiffer ==
  ASSUME SettingsType, TurnInv, NEW th, NEW t \in TurnsOf(th), NEW u \in TurnsOf(th), t # u
  PROVE  Position(t) # Position(u)
<1>1. /\ t \in Threads /\ turn[t] # None /\ turn[t].thread = th
      /\ u \in Threads /\ turn[u] # None /\ turn[u].thread = th
  BY DEF TurnsOf
<1>2. ~(t \in Stored /\ u \in Stored)
  <2>1. \A x \in Stored : turn[x] # None => turn[x].thread = x
    BY DEF TurnInv
  <2> QED BY <1>1, <2>1
<1>3. t \in Calls \/ u \in Calls
  BY <1>1, <1>2 DEF Threads
<1>4. /\ t \in Stored => Position(t) = 0
      /\ t \in Calls => order[Position(t)] = t /\ Position(t) >= 1 /\ Position(t) \in Nat
      /\ u \in Stored => Position(u) = 0
      /\ u \in Calls => order[Position(u)] = u /\ Position(u) >= 1 /\ Position(u) \in Nat
  BY <1>1, Positions
<1>5. CASE t \in Calls /\ u \in Calls
  BY <1>4, <1>5
<1>6. CASE t \in Stored \/ u \in Stored
  <2>1. CASE t \in Stored /\ u \in Calls
    BY <1>4, <2>1
  <2>2. CASE u \in Stored /\ t \in Calls
    BY <1>4, <2>2
  <2> QED BY <1>1, <1>2, <1>6, <2>1, <2>2 DEF Threads
<1> QED BY <1>1, <1>5, <1>6 DEF Threads

\* A thread that has had a turn has a latest one.
LEMMA LatestTurn ==
  ASSUME SettingsType, TurnInv, NEW th, TurnsOf(th) # {}
  PROVE  \E t \in TurnsOf(th) : \A u \in TurnsOf(th) \ {t} : Later(t, u)
<1> DEFINE T == TurnsOf(th)
<1>1. \A t \in T : /\ turn[t].epoch \in Nat /\ turn[t].epoch <= MaxNow
                   /\ Pid[t] \in Nat /\ Pid[t] <= MaxPid
  <2> SUFFICES ASSUME NEW t \in T
               PROVE  /\ turn[t].epoch \in Nat /\ turn[t].epoch <= MaxNow
                      /\ Pid[t] \in Nat /\ Pid[t] <= MaxPid
    OBVIOUS
  <2>1. t \in Threads /\ turn[t] # None
    BY DEF TurnsOf
  <2>2. turn[t] \in Turn
    BY <2>1 DEF SettingsType
  <2>3. turn[t].epoch \in 0..MaxNow
    BY <2>2 DEF Turn
  <2>4. Pid[t] \in 0..MaxPid
    BY <2>1, SettingsPidAssumption
  <2> QED BY <2>3, <2>4, SettingsBoundsAssumption, SettingsPidAssumption
<1>2. \A t \in T : Position(t) \in Nat /\ Position(t) <= Len(order)
  <2> SUFFICES ASSUME NEW t \in T PROVE Position(t) \in Nat /\ Position(t) <= Len(order)
    OBVIOUS
  <2>1. t \in Threads /\ turn[t] # None
    BY DEF TurnsOf
  <2>2. /\ Position(t) \in Nat /\ (t \in Stored => Position(t) = 0)
        /\ (t \in Calls => Position(t) <= Len(order))
    BY <2>1, Positions
  <2>3. Len(order) \in Nat
    BY DEF SettingsType
  <2> QED BY <2>1, <2>2, <2>3 DEF Threads
<1>3. \A t, u \in T : t # u => Position(t) # Position(u)
  BY PositionsDiffer
<1>4. T # {} /\ Len(order) \in Nat /\ MaxNow \in Nat /\ MaxPid \in Nat
  BY SettingsBoundsAssumption, SettingsPidAssumption DEF SettingsType
<1> HIDE DEF T
<1>5. PICK e \in {turn[t].epoch : t \in T} : \A y \in {turn[t].epoch : t \in T} : y <= e
  <2> DEFINE E == {turn[t].epoch : t \in T}
  <2>1. E # {} /\ \A x \in E : x \in Nat /\ x <= MaxNow
    BY <1>1, <1>4
  <2> HIDE DEF E
  <2>2. \E x \in E : \A y \in E : y <= x
    BY <1>4, <2>1, Greatest
  <2> QED BY <2>2 DEF E
<1> DEFINE A == {t \in T : turn[t].epoch = e}
<1>6. PICK p \in {Pid[t] : t \in A} : \A y \in {Pid[t] : t \in A} : y <= p
  <2> DEFINE E == {Pid[t] : t \in A}
  <2>1. E # {} /\ \A x \in E : x \in Nat /\ x <= MaxPid
    BY <1>1, <1>5
  <2> HIDE DEF E
  <2>2. \E x \in E : \A y \in E : y <= x
    BY <1>4, <2>1, Greatest
  <2> QED BY <2>2 DEF E
<1> DEFINE B == {t \in A : Pid[t] = p}
<1>7. PICK n \in {Position(t) : t \in B} : \A y \in {Position(t) : t \in B} : y <= n
  <2> DEFINE E == {Position(t) : t \in B}
  <2>1. E # {} /\ \A x \in E : x \in Nat /\ x <= Len(order)
    BY <1>2, <1>6
  <2> HIDE DEF E
  <2>2. \E x \in E : \A y \in E : y <= x
    BY <1>4, <2>1, Greatest
  <2> QED BY <2>2 DEF E
<1>8. PICK t \in B : Position(t) = n
  BY <1>7
<1>9. t \in T /\ turn[t].epoch = e /\ Pid[t] = p
  BY <1>8
<1>10. ASSUME NEW u \in T, u # t PROVE Later(t, u)
  <2>1. turn[u].epoch <= e /\ turn[u].epoch \in Nat /\ e \in Nat
    BY <1>1, <1>5, <1>9
  <2>2. turn[u].epoch = e => Pid[u] <= p /\ Pid[u] \in Nat /\ p \in Nat
    BY <1>1, <1>6, <1>9
  <2>3. turn[u].epoch = e /\ Pid[u] = p =>
          Position(u) <= n /\ Position(u) # n /\ Position(u) \in Nat /\ n \in Nat
    <3> SUFFICES ASSUME turn[u].epoch = e, Pid[u] = p
                 PROVE  Position(u) <= n /\ Position(u) # n /\ Position(u) \in Nat /\ n \in Nat
      OBVIOUS
    <3>1. u \in B
      OBVIOUS
    <3>2. Position(u) \in {Position(x) : x \in B}
      BY <3>1
    <3> QED BY <1>2, <1>3, <1>7, <1>8, <1>9, <1>10, <3>2
  <2> QED BY <1>8, <1>9, <2>1, <2>2, <2>3 DEF Later, IdLess
<1> QED BY <1>9, <1>10 DEF T

\* The effort a later turn goes on with: it is one that was resolved, and that of
\* the latest turn.
LEMMA PreviousIs ==
  ASSUME SettingsType, TurnInv, NEW th
  PROVE  /\ PreviousEffort(th) \in Texts /\ PreviousEffort(th) \notin {" ", Alias, Bad}
         /\ \A x \in TurnsOf(th) :
              (\A u \in TurnsOf(th) \ {x} : Later(x, u)) => PreviousEffort(th) = turn[x].effort
<1>1. CASE TurnsOf(th) = {}
  BY <1>1, LaunchTextsAssumption DEF PreviousEffort, Alias, Bad
<1>2. CASE TurnsOf(th) # {}
  <2> DEFINE l == CHOOSE t \in TurnsOf(th) : \A u \in TurnsOf(th) \ {t} : Later(t, u)
  <2>1. l \in TurnsOf(th) /\ \A u \in TurnsOf(th) \ {l} : Later(l, u)
    <3>1. \E t \in TurnsOf(th) : \A u \in TurnsOf(th) \ {t} : Later(t, u)
      BY <1>2, LatestTurn
    <3> QED BY <3>1, Zenon
  <2>2. PreviousEffort(th) = turn[l].effort
    BY <1>2 DEF PreviousEffort
  <2> HIDE DEF l
  <2>3. l \in Threads /\ turn[l] # None /\ turn[l] \in Turn
    BY <2>1 DEF TurnsOf, SettingsType
  <2>4. turn[l].effort \in Texts /\ turn[l].effort \notin {" ", Alias, Bad}
    BY <2>3 DEF Turn, TurnInv
  <2>5. ASSUME NEW x \in TurnsOf(th), \A u \in TurnsOf(th) \ {x} : Later(x, u)
        PROVE  x = l
    <3>1. x \in Threads /\ turn[x] # None
      BY DEF TurnsOf
    <3>2. x # l => Later(x, l) /\ Later(l, x)
      BY <2>1, <2>5
    <3>3. Later(x, l) => ~Later(l, x)
      BY <2>3, <3>1, LaterIsStrict
    <3> QED BY <3>2, <3>3
  <2> QED BY <2>2, <2>4, <2>5
<1> QED BY <1>1, <1>2

-----------------------------------------------------------------------------
(***************************************************************************)
(* What a step leaves alone                                                *)
(***************************************************************************)
\* Threads keep what they were made with, turns their record and place, and
\* sessions their rules.
Grows ==
  /\ \A th \in Threads :
       thread[th] # None =>
         /\ thread'[th] # None /\ thread'[th].model = thread[th].model
         /\ thread'[th].approval = thread[th].approval
         /\ thread'[th].sandbox = thread[th].sandbox /\ thread'[th].instr = thread[th].instr
  /\ \A t \in Threads :
       turn[t] # None => turn'[t] = turn[t] /\ Position(t)' = Position(t)
  /\ \A s \in Sessions : rules[s] # None => rules'[s] = rules[s]

\* A call another call's step does not touch.
Apart(c) ==
  /\ call'[c] = call[c] /\ asked'[c] = asked[c] /\ argv'[c] = argv[c]
  /\ turn'[c] = turn[c] /\ (thread[c] = None => thread'[c] = None)
  /\ \A th \in Threads : c \in stored'[th] => c \in stored[th]

\* What a run has seen stays so.
LEMMA SawStays ==
  ASSUME SettingsType, NEW c \in Calls, NEW k, SawInv(k, c), Grows,
         turn'[c] = turn[c]
  PROVE  SawInv(k, c)'
<1>1. c \in Threads
  BY DEF Threads
<1>2. \A x \in k.saw : x \in Threads \ {c} /\ turn[x] # None /\ turn[x].thread = k.thread
  BY DEF SawInv
<1>3. \A x \in k.saw : turn'[x] = turn[x] /\ Position(x)' = Position(x)
  BY <1>2 DEF Grows
<1>4. turn[c] # None => Position(c)' = Position(c)
  BY <1>1 DEF Grows
<1>5. \A x, u \in k.saw : Later(x, u)' = Later(x, u)
  BY <1>3 DEF Later, IdLess
<1>6. turn'[c] # None => \A x \in k.saw : Position(x)' < Position(c)'
  BY <1>3, <1>4 DEF SawInv
<1>7. k.req.effort = "" =>
        \A x \in k.saw :
          (\A u \in k.saw \ {x} : Later(x, u)') /\ turn'[x].effort # "" =>
            k.effort = turn'[x].effort
  BY <1>3, <1>5 DEF SawInv
<1>8. k.saw \subseteq {t \in Threads \ {c} : turn'[t] # None /\ turn'[t].thread = k.thread}
  BY <1>2, <1>3
<1> QED BY <1>6, <1>7, <1>8 DEF SawInv

\* What a plan was made from stays so.
LEMMA PlanStays ==
  ASSUME SettingsType, NEW c \in Calls, NEW k \in CallState, PlanInv(k, c), Grows,
         asked'[c] = asked[c]
  PROVE  PlanInv(k, c)'
<1>1. k.thread \in Threads
  BY DEF PlanInv, CallState
<1>2. /\ thread'[k.thread] # None /\ thread'[k.thread].model = thread[k.thread].model
      /\ thread'[k.thread].approval = thread[k.thread].approval
      /\ thread'[k.thread].sandbox = thread[k.thread].sandbox
      /\ thread'[k.thread].instr = thread[k.thread].instr
  BY <1>1 DEF PlanInv, Grows
<1>3. Told(k.req, asked[c], thread[k.thread])'
  BY <1>2 DEF PlanInv, Told
<1> QED BY <1>2, <1>3 DEF PlanInv

\* A call keeps its invariant through the steps of others.
LEMMA CallStays ==
  ASSUME SettingsType, NEW c \in Calls, CallInv(c), Grows, Apart(c)
  PROVE  CallInv(c)'
<1>0. PICK k : k = call[c]
  OBVIOUS
<1>1. /\ call'[c] = k /\ asked'[c] = asked[c] /\ argv'[c] = argv[c] /\ turn'[c] = turn[c]
      /\ k \in CallState /\ c \in Threads
  BY <1>0 DEF Apart, SettingsType, Threads
<1>2. /\ k.pc = "idle" => k = Idle /\ asked[c] = None /\ thread[c] = None
      /\ k.pc = "preamble" => ReceivedInv(k, c)
      /\ k.pc = "admit" \/ k.job # None => PlanInv(k, c) /\ SawInv(k, c)
      /\ JobInv(k, c) /\ OpenInv(k, c) /\ ResumeInv(k, c)
  BY <1>0 DEF CallInv
<1>3. k.thread # None => k.thread \in Threads
  BY <1>1 DEF CallState
<1>4. k.pc = "idle" => k = Idle /\ asked[c] = None /\ thread'[c] = None
  BY <1>2 DEF Apart
<1>5. k.pc = "preamble" => ReceivedInv(k, c)'
  <2> SUFFICES ASSUME ReceivedInv(k, c) PROVE ReceivedInv(k, c)'
    BY <1>2
  <2>1. CASE k.req.path = "first"
    BY <1>1, <2>1 DEF ReceivedInv, Apart
  <2>2. CASE k.req.path # "first"
    <3>1. /\ thread'[k.thread] # None
          /\ thread'[k.thread].approval = thread[k.thread].approval
          /\ thread'[k.thread].sandbox = thread[k.thread].sandbox
      BY <1>3, <2>2 DEF ReceivedInv, Grows
    <3>2. Told(k.req, asked[c], thread[k.thread])'
      BY <1>1, <2>2, <3>1 DEF ReceivedInv, Told
    <3> QED BY <2>2, <3>1, <3>2 DEF ReceivedInv
  <2> QED BY <2>1, <2>2
<1>6. k.pc = "admit" \/ k.job # None => PlanInv(k, c)' /\ SawInv(k, c)'
  <2> SUFFICES ASSUME PlanInv(k, c), SawInv(k, c) PROVE PlanInv(k, c)' /\ SawInv(k, c)'
    BY <1>2
  <2> QED BY <1>1, PlanStays, SawStays
<1>7. JobInv(k, c)'
  <2>1. JobInv(k, c)
    BY <1>2
  <2>2. k.job # None => k.job \in Threads
    BY <1>1 DEF CallState, Threads
  <2>3. k.job # None => turn'[k.job] = turn[k.job]
    BY <2>1, <2>2 DEF JobInv, Grows
  <2> QED BY <1>1, <2>1, <2>3 DEF JobInv
<1>8. OpenInv(k, c)'
  <2>1. OpenInv(k, c)
    BY <1>2
  <2>2. k.pc = "store" => rules'[k.sid] = k.instr
    <3>1. k.instr # None
      BY <1>1, SettingsNoneAssumption DEF CallState
    <3> QED BY <2>1, <3>1 DEF OpenInv, Grows
  <2> QED BY <2>1, <2>2 DEF OpenInv, Apart
<1>9. ResumeInv(k, c)'
  <2>1. ResumeInv(k, c)
    BY <1>2
  <2> QED BY <1>1, <1>3, <2>1 DEF ResumeInv, Grows
<1> QED BY <1>1, <1>4, <1>5, <1>6, <1>7, <1>8, <1>9 DEF CallInv

\* A step of one call keeps the invariant if it keeps that of the call.
LEMMA Stepping ==
  ASSUME SettingsInv, SettingsType', TurnInv', ThreadInv', NEW c \in Calls, CallInv(c)',
         Grows, \A d \in Calls \ {c} : Apart(d)
  PROVE  SettingsInv'
<1>1. ASSUME NEW d \in Calls, d # c PROVE CallInv(d)'
  BY <1>1, CallStays DEF SettingsInv
<1> QED BY <1>1 DEF SettingsInv

\* Records that stay.
LEMMA NothingGrows ==
  ASSUME UNCHANGED <<thread, turn, order, rules>>
  PROVE  Grows
BY DEF Grows, Position

-----------------------------------------------------------------------------
(***************************************************************************)
(* Steps that keep the records of turns                                    *)
(***************************************************************************)
\* Turns that stay, of calls that keep what their turn has from them.
LEMMA TurnInvStays ==
  ASSUME SettingsType, TurnInv, UNCHANGED <<turn, order>>, live' \subseteq live,
         \A th \in Threads : thread[th] # None => thread'[th] # None,
         \A d \in Calls :
           \/ turn[d] = None
           \/ /\ call'[d].job = call[d].job /\ call'[d].thread = call[d].thread
              /\ call'[d].model = call[d].model /\ call'[d].effort = call[d].effort
              /\ call'[d].req = call[d].req
  PROVE  TurnInv'
<1>1. \A t \in Threads : turn[t] # None => turn[t].thread \in Threads
  BY DEF SettingsType, Turn
<1>2. \A t \in Threads : turn[t] # None => thread'[turn[t].thread] # None
  BY <1>1 DEF TurnInv
<1>3. turn' = turn /\ order' = order
  OBVIOUS
<1>4. ASSUME NEW t \in Calls, turn'[t] # None
      PROVE  /\ call'[t].job = t /\ turn'[t].thread = call'[t].thread
             /\ turn'[t].model = call'[t].model /\ turn'[t].effort = call'[t].effort
             /\ turn'[t].key = call'[t].req.key
  <2>1. turn[t] # None
    BY <1>3, <1>4
  <2>2. /\ call[t].job = t /\ turn[t].thread = call[t].thread
        /\ turn[t].model = call[t].model /\ turn[t].effort = call[t].effort
        /\ turn[t].key = call[t].req.key
    BY <2>1 DEF TurnInv
  <2>3. /\ call'[t].job = call[t].job /\ call'[t].thread = call[t].thread
        /\ call'[t].model = call[t].model /\ call'[t].effort = call[t].effort
        /\ call'[t].req = call[t].req
    BY <2>1
  <2> QED BY <1>3, <2>2, <2>3
<1>5. live' \subseteq {t \in Calls : turn'[t] # None}
  BY <1>3 DEF TurnInv
<1>6. \A t \in Threads :
        turn'[t] # None => /\ thread'[turn'[t].thread] # None
                           /\ turn'[t].effort \notin {" ", Alias, Bad}
  BY <1>2, <1>3 DEF TurnInv
<1>7. \A t \in Stored : turn'[t] # None => turn'[t].thread = t /\ turn'[t].key = Absent
  <2>1. \A t \in Stored : turn[t] # None => turn[t].thread = t /\ turn[t].key = Absent
    BY DEF TurnInv
  <2> QED BY <1>3, <2>1
<1>8. \A t \in Calls : turn'[t] # None <=> \E n \in DOMAIN order' : order'[n] = t
  <2>1. \A t \in Calls : turn[t] # None <=> \E n \in DOMAIN order : order[n] = t
    BY DEF TurnInv
  <2> QED BY <1>3, <2>1
<1>9. \A m, n \in DOMAIN order' : order'[m] = order'[n] => m = n
  BY <1>3, Zenon DEF TurnInv
<1> QED BY <1>4, <1>5, <1>6, <1>7, <1>8, <1>9 DEF TurnInv

\* A call without a turn of its own has neither an agent nor a turn.
LEMMA WithoutJob ==
  ASSUME SettingsInv, NEW c \in Calls, call[c].job = None
  PROVE  argv[c] = None /\ turn[c] = None
<1>1. argv[c] = None
  BY DEF SettingsInv, CallInv, JobInv
<1>2. c # None
  BY SettingsNoneAssumption DEF Threads
<1> QED BY <1>1, <1>2 DEF SettingsInv, TurnInv

\* The end of a call that has no turn.
LEMMA DoneKeeps ==
  ASSUME SettingsInv, NEW c \in Calls, call[c].job = None, Done(c), Grows,
         \A d \in Calls \ {c} : thread[d] = None => thread'[d] = None,
         thread' \in [Threads -> Thread \cup {None}], ThreadInv',
         UNCHANGED <<turn, live, order, asked, argv, rules, stored>>
  PROVE  SettingsInv'
<1> DEFINE n == [Idle EXCEPT !.pc = "done"]
<1>1. /\ n.pc = "done" /\ n.req = None /\ n.thread = None /\ n.job = None
      /\ n.known = Absent /\ n \in CallState
  BY LaunchTextsAssumption DEF Idle, CallState, PcLabels
<1> HIDE DEF n
<1>2. call' = [call EXCEPT ![c] = n]
  BY DEF Done, n
<1>3. SettingsType /\ TurnInv /\ CallInv(c)
  BY DEF SettingsInv
<1>4. call \in [Calls -> CallState]
  BY <1>3 DEF SettingsType
<1>5. /\ call'[c] = n /\ call' \in [Calls -> CallState]
      /\ \A d \in Calls \ {c} : call'[d] = call[d]
  BY <1>1, <1>2, <1>4
<1>6. SettingsType'
  BY <1>3, <1>5 DEF SettingsType
<1>7. argv[c] = None /\ turn[c] = None
  BY WithoutJob
<1>8. TurnInv'
  <2>1. \A th \in Threads : thread[th] # None => thread'[th] # None
    BY DEF Grows
  <2>2. live' \subseteq live /\ UNCHANGED <<turn, order>>
    OBVIOUS
  <2>3. \A d \in Calls :
          \/ turn[d] = None
          \/ /\ call'[d].job = call[d].job /\ call'[d].thread = call[d].thread
             /\ call'[d].model = call[d].model /\ call'[d].effort = call[d].effort
             /\ call'[d].req = call[d].req
    BY <1>5, <1>7
  <2>4. SettingsType /\ TurnInv
    BY <1>3
  <2> HIDE DEF SettingsType, TurnInv
  <2> QED BY <2>1, <2>2, <2>3, <2>4, TurnInvStays
<1>9. CallInv(c)'
  <2>1. JobInv(call[c], c)'
    BY <1>1, <1>5, <1>7 DEF JobInv
  <2>2. OpenInv(call[c], c)'
    BY <1>1, <1>5 DEF OpenInv
  <2>3. ResumeInv(call[c], c)'
    BY <1>1, <1>5 DEF ResumeInv
  <2> QED BY <1>1, <1>5, <2>1, <2>2, <2>3 DEF CallInv
<1>10. \A d \in Calls \ {c} : Apart(d)
  BY <1>5 DEF Apart
<1> QED BY <1>6, <1>8, <1>9, <1>10, Stepping

\* A call comes in: it makes a thread, or it is for one that was read, and what
\* it was told of the policies is in the request.
LEMMA ReceiveKeeps ==
  ASSUME SettingsInv, NEW c \in Calls, NEW th \in Threads \cup {None}, NEW request,
         Receive(c, th, request),
         \A d \in Calls \ {c} : asked'[d] = asked[d],
         asked' \in [Calls -> Asked \cup {None}],
         Refused(request) => asked' = asked,
         ~Refused(request) =>
           LET q == Restrict(request, TurnFields)
           IN IF th = None THEN FirstRequest(q) /\ asked' = asked
              ELSE /\ thread[th] # None /\ LaterRequest(q, thread[th])
                   /\ Told(q, asked'[c], thread[th])
  PROVE  SettingsInv'
<1>1. /\ call[c].pc = "idle" /\ SettingsType /\ TurnInv /\ ThreadInv /\ CallInv(c)
      /\ UNCHANGED <<thread, turn, live, order, argv, rules, stored>>
  BY DEF Receive, SettingsInv
<1>2. /\ call[c] = Idle /\ asked[c] = None /\ thread[c] = None
      /\ \A x \in Threads : c \notin stored[x]
  BY <1>1 DEF CallInv, OpenInv
<1>3. call[c].job = None
  <2>1. Idle.job = None
    BY DEF Idle
  <2> QED BY <1>2, <2>1
<1>4. Grows
  BY <1>1, NothingGrows
<1>5. ThreadInv'
  BY <1>1 DEF ThreadInv
<1>6. CASE Refused(request)
  BY <1>1, <1>3, <1>4, <1>5, <1>6, DoneKeeps DEF Receive, SettingsType
<1>7. CASE ~Refused(request)
  <2> DEFINE q == Restrict(request, TurnFields)
             kn == IF th = None THEN Absent ELSE thread[th].sid
  <2>0. PICK n : n = [Idle EXCEPT !.pc = "preamble", !.req = q, !.thread = th, !.known = kn]
    OBVIOUS
  <2>1. call' = [call EXCEPT ![c].pc = "preamble", ![c].req = q, ![c].thread = th, ![c].known = kn]
    BY <1>7 DEF Receive
  <2>2. /\ q \in Request /\ q # None
    <3>1. q \in Request
      BY <1>7 DEF FirstRequest, LaterRequest
    <3>2. TurnFields \in SUBSET (TurnFields \cup {"instr"})
      OBVIOUS
    <3> QED BY <3>1, <3>2, SettingsNoneAssumption DEF Request
  <2>3. kn \in Sessions \cup Texts
    <3>1. CASE th = None
      BY <3>1, LaunchTextsAssumption
    <3>2. CASE th # None
      <4>1. thread[th] \in Thread
        BY <1>1, <1>7, <3>2 DEF SettingsType
      <4> QED BY <3>2, <4>1 DEF Thread
    <3> QED BY <3>1, <3>2
  <2> HIDE DEF q, kn
  <2>4. call'[c] = n /\ \A d \in Calls \ {c} : call'[d] = call[d]
    BY <1>1, <1>2, <2>0, <2>1 DEF SettingsType, Idle
  <2>5. /\ n.pc = "preamble" /\ n.req = q /\ n.thread = th /\ n.job = None
        /\ n.known = kn /\ n.load = Absent /\ n.instr = "" /\ n.saw = {} /\ n.effort = ""
        /\ n \in CallState
    BY <2>0, <2>2, <2>3, LaunchTextsAssumption DEF Idle, CallState, PcLabels
  <2>6. call' \in [Calls -> CallState]
    BY <1>1, <2>1, <2>4, <2>5 DEF SettingsType
  <2>7. SettingsType'
    BY <1>1, <2>6 DEF SettingsType
  <2>8. argv[c] = None /\ turn[c] = None
    BY <1>3, WithoutJob
  <2>9. TurnInv'
    BY <1>1, <2>4, <2>8, TurnInvStays
  <2>10. ReceivedInv(n, c)'
    <3>1. CASE th = None
      BY <1>1, <1>2, <1>7, <2>2, <2>5, <3>1 DEF ReceivedInv, FirstRequest, q
    <3>2. CASE th # None
      <4>1. thread[th] # None /\ LaterRequest(q, thread[th]) /\ Told(q, asked'[c], thread[th])
        BY <1>7, <3>2 DEF q
      <4>2. Told(n.req, asked[c], thread[n.thread])'
        BY <1>1, <2>5, <4>1 DEF Told
      <4> QED BY <1>1, <2>2, <2>5, <3>2, <4>1, <4>2 DEF ReceivedInv, LaterRequest
    <3> QED BY <3>1, <3>2
  <2>11. OpenInv(n, c)'
    <3>1. q.path # "first" => q.key = Absent
      BY <1>7 DEF FirstRequest, LaterRequest, q
    <3>2. kn # Absent => q.path = "followUp"
      BY <1>7 DEF LaterRequest, q, kn
    <3> QED BY <1>1, <1>2, <2>2, <2>5, <3>1, <3>2 DEF OpenInv
  <2>12. JobInv(n, c)' /\ ResumeInv(n, c)'
    BY <1>1, <2>2, <2>5, <2>8 DEF JobInv, ResumeInv
  <2>13. CallInv(c)'
    BY <2>4, <2>5, <2>10, <2>11, <2>12 DEF CallInv
  <2>14. \A d \in Calls \ {c} : Apart(d)
    BY <1>1, <2>4 DEF Apart
  <2> QED BY <1>4, <1>5, <2>7, <2>9, <2>13, <2>14, Stepping
<1> QED BY <1>6, <1>7

\* worker start and grok_spawn.
LEMMA StartKeeps ==
  ASSUME SettingsInv, NEW c \in Calls, NEW p \in Params, WorkerStart(c, p) \/ GrokSpawn(c, p)
  PROVE  SettingsInv'
<1>1. p \in Param
  BY SettingsParamsAssumption
<1>2. PICK home : home = HomeOf(p.home)
  OBVIOUS
<1>3. PICK r : /\ r \in {WorkerStartRequest(p, home), SpawnRequest(p, home)}
               /\ Receive(c, None, r) /\ asked' = asked
  BY <1>2, Zenon DEF WorkerStart, GrokSpawn
<1>4. ~Refused(r) => FirstRequest(Restrict(r, TurnFields))
  BY <1>1, <1>3, WorkerStartTaken, SpawnTaken
<1>5. asked' \in [Calls -> Asked \cup {None}]
  BY <1>3 DEF SettingsInv, SettingsType
<1>6. ~Refused(r) =>
        LET q == Restrict(r, TurnFields)
        IN IF None = None THEN FirstRequest(q) /\ asked' = asked
           ELSE /\ thread[None] # None /\ LaterRequest(q, thread[None])
                /\ Told(q, asked'[c], thread[None])
  BY <1>3, <1>4
<1>7. None \in Threads \cup {None}
  OBVIOUS
<1> QED BY <1>3, <1>5, <1>6, <1>7, ReceiveKeeps

\* What was asked of a call that has not come in.
LEMMA IdleIs ==
  ASSUME SettingsInv, NEW c \in Calls, call[c].pc = "idle"
  PROVE  /\ call[c] = Idle /\ asked[c] = None /\ thread[c] = None /\ call[c].job = None
         /\ argv[c] = None /\ turn[c] = None /\ \A th \in Threads : c \notin stored[th]
<1>1. CallInv(c)
  BY DEF SettingsInv
<1>2. /\ call[c] = Idle /\ asked[c] = None /\ thread[c] = None
      /\ \A th \in Threads : c \notin stored[th]
  BY <1>1 DEF CallInv, OpenInv
<1>3. Idle.job = None
  BY DEF Idle
<1>4. call[c].job = None
  BY <1>2, <1>3
<1> QED BY <1>2, <1>4, WithoutJob

\* worker followup and grok_followup.
LEMMA FollowupKeeps ==
  ASSUME SettingsInv, NEW c \in Calls, NEW p \in Params, NEW th \in Threads,
         WorkerFollowup(c, p, th) \/ GrokFollowup(c, p, th)
  PROVE  SettingsInv'
<1>1. p \in Param
  BY SettingsParamsAssumption
<1>2. PICK home : home = HomeOf(p.home)
  OBVIOUS
<1>3. PICK rec : rec = thread[th]
  OBVIOUS
<1>4. rec # None /\ rec \in Thread
  BY <1>3 DEF WorkerFollowup, GrokFollowup, SettingsInv, SettingsType
<1>5. PICK cli \in BOOLEAN :
        Receive(c, th, FollowupRequest(p, rec, cli, home)) /\ asked' = asked
  <2>1. CASE WorkerFollowup(c, p, th)
    BY <1>2, <1>3, <2>1, Zenon DEF WorkerFollowup
  <2>2. CASE GrokFollowup(c, p, th)
    BY <1>2, <1>3, <2>2, Zenon DEF GrokFollowup
  <2> QED BY <2>1, <2>2
<1>6. PICK r : r = FollowupRequest(p, rec, cli, home)
  OBVIOUS
<1>7. Receive(c, th, r)
  BY <1>5, <1>6
<1>8. asked[c] = None
  BY <1>7, IdleIs DEF Receive
<1>9. ~Refused(r) => /\ LaterRequest(Restrict(r, TurnFields), rec)
                     /\ Told(Restrict(r, TurnFields), None, rec)
  BY <1>1, <1>4, <1>6, FollowupTaken
<1>10. asked' \in [Calls -> Asked \cup {None}]
  BY <1>5 DEF SettingsInv, SettingsType
<1>11. th # None
  BY SettingsNoneAssumption
<1>12. ~Refused(r) =>
         LET q == Restrict(r, TurnFields)
         IN IF th = None THEN FirstRequest(q) /\ asked' = asked
            ELSE /\ thread[th] # None /\ LaterRequest(q, thread[th])
                 /\ Told(q, asked'[c], thread[th])
  BY <1>3, <1>4, <1>5, <1>8, <1>9, <1>11
<1> QED BY <1>5, <1>7, <1>10, <1>12, ReceiveKeeps

\* turn/start.
LEMMA TurnStartKeeps ==
  ASSUME SettingsInv, NEW c \in Calls, NEW p \in Params, NEW th \in Threads,
         TurnStart(c, p, th)
  PROVE  SettingsInv'
<1>1. p \in Param
  BY SettingsParamsAssumption
<1>2. PICK rec : rec = thread[th]
  OBVIOUS
<1>3. rec # None /\ rec \in Thread
  BY <1>2 DEF TurnStart, SettingsInv, SettingsType
<1>4. PICK r : r = TurnRequest(p, rec)
  OBVIOUS
<1>5. PICK said : said = Restrict(p, {"approval", "sandbox"})
  OBVIOUS
<1>6. /\ Receive(c, th, r)
      /\ asked' = IF ~Refused(r) THEN [asked EXCEPT ![c] = said] ELSE asked
  BY <1>2, <1>4, <1>5 DEF TurnStart, Hear
<1>7. ~Refused(r) => /\ LaterRequest(Restrict(r, TurnFields), rec) /\ said # None
                     /\ Told(Restrict(r, TurnFields), said, rec)
  BY <1>1, <1>3, <1>4, <1>5, TurnStartTaken
<1>8. asked \in [Calls -> Asked \cup {None}]
  BY DEF SettingsInv, SettingsType
<1>9. ~Refused(r) => said \in Asked
  BY <1>7 DEF Told, Asked
<1>10. asked' \in [Calls -> Asked \cup {None}]
  BY <1>6, <1>8, <1>9
<1>11. th # None
  BY SettingsNoneAssumption
<1>12. ~Refused(r) =>
         LET q == Restrict(r, TurnFields)
         IN IF th = None THEN FirstRequest(q) /\ asked' = asked
            ELSE /\ thread[th] # None /\ LaterRequest(q, thread[th])
                 /\ Told(q, asked'[c], thread[th])
  BY <1>2, <1>3, <1>6, <1>7, <1>8, <1>11
<1>13. \A d \in Calls \ {c} : asked'[d] = asked[d]
  BY <1>6, <1>8
<1>14. Refused(r) => asked' = asked
  BY <1>6
<1> QED BY <1>6, <1>10, <1>12, <1>13, <1>14, ReceiveKeeps

\* What thread/start stores.
LEMMA ThreadRequestTaken ==
  ASSUME NEW p \in Param, NEW config \in Seq(Line), ~Refused(ThreadRequest(p, config))
  PROVE  NewThread(ThreadRequest(p, config)) \in Thread
<1>1. PICK r : r = ThreadRequest(p, config)
  OBVIOUS
<1>2. /\ DOMAIN r = {"extra", "cwd", "model", "effort", "sandbox", "approval", "instr"}
      /\ r.cwd = RequireAbsolute(Cwd(p.cwd))
      /\ r.model \in {Bad, ResolveFirstTurn(TextField(p.model), "", config).model}
      /\ r.sandbox = Parse(p.sandbox, Sandboxes, "read-only")
      /\ r.approval = Parse(p.approval, Policies, "untrusted")
      /\ r.instr = StartInstructions(p.instr)
  BY <1>1 DEF ThreadRequest
<1>3. /\ p.cwd \in Texts /\ p.approval \in Texts /\ p.sandbox \in Texts
      /\ p.model \in Texts /\ p.instr \in Texts
  BY DEF Param
<1>4. r.approval # Bad /\ r.sandbox # Bad
  BY <1>1, <1>2 DEF Refused
<1>5. r.approval \in Policies
  BY <1>2, <1>3, <1>4, Parsed DEF Policies
<1>6. r.sandbox \in Sandboxes
  BY <1>2, <1>3, <1>4, Parsed DEF Sandboxes
<1>7. TextField(p.model) \in Texts /\ "" \in Texts /\ Bad \in Texts /\ Absent \in Texts
  BY <1>3, TextFields, LaunchTextsAssumption
<1>8. ResolveFirstTurn(TextField(p.model), "", config).model \in Texts
  BY <1>7, FirstResolved
<1>9. r.cwd \in Texts /\ r.model \in Texts
  BY <1>2, <1>3, <1>7, <1>8, TextFields
<1>10. r.instr \in Texts
  BY <1>2, <1>3, <1>7 DEF StartInstructions
<1> QED BY <1>1, <1>5, <1>6, <1>7, <1>9, <1>10 DEF NewThread, Thread

\* A thread that is made leaves the others as they are.
LEMMA Making ==
  ASSUME SettingsInv, NEW c \in Calls, thread[c] = None, NEW new \in Thread,
         new.sid = Absent, thread' = [thread EXCEPT ![c] = new],
         UNCHANGED <<turn, order, rules>>
  PROVE  /\ Grows /\ ThreadInv' /\ thread' \in [Threads -> Thread \cup {None}]
         /\ thread'[c] = new /\ \A d \in Threads \ {c} : thread'[d] = thread[d]
<1>1. thread \in [Threads -> Thread \cup {None}] /\ c \in Threads /\ ThreadInv
  BY DEF SettingsInv, SettingsType, Threads
<1>2. /\ thread' \in [Threads -> Thread \cup {None}]
      /\ thread'[c] = new /\ \A d \in Threads \ {c} : thread'[d] = thread[d]
  BY <1>1
<1>3. \A th \in Threads : thread[th] # None => thread'[th] = thread[th]
  BY <1>2
<1>4. Grows
  <2>1. \A t \in Threads : Position(t)' = Position(t)
    BY DEF Position
  <2> QED BY <1>3, <2>1 DEF Grows
<1>5. ThreadInv'
  BY <1>1, <1>2, SettingsNamesAssumption DEF ThreadInv
<1> QED BY <1>2, <1>4, <1>5

\* thread/start.
LEMMA ThreadStartKeeps ==
  ASSUME SettingsInv, NEW c \in Calls, NEW p \in Params, ThreadStart(c, p)
  PROVE  SettingsInv'
<1>1. PICK config \in ConfigFiles :
        LET r == ThreadRequest(p, config)
        IN IF Refused(r) THEN UNCHANGED thread
           ELSE thread' = [thread EXCEPT ![c] = NewThread(r)]
  BY DEF ThreadStart
<1>2. /\ Done(c) /\ call[c].pc = "idle" /\ ThreadInv
      /\ UNCHANGED <<turn, live, order, asked, argv, rules, stored>>
  BY DEF ThreadStart, SettingsInv
<1>3. call[c].job = None /\ thread[c] = None
  BY <1>2, IdleIs
<1>4. PICK r : r = ThreadRequest(p, config)
  OBVIOUS
<1>5. p \in Param /\ config \in Seq(Line)
  BY SettingsParamsAssumption, SettingsFilesAssumption
<1>6. CASE Refused(r)
  <2>1. thread' = thread
    BY <1>1, <1>4, <1>6
  <2>2. Grows /\ ThreadInv' /\ thread' \in [Threads -> Thread \cup {None}]
    BY <1>2, <2>1, NothingGrows DEF ThreadInv, SettingsInv, SettingsType
  <2> QED BY <1>2, <1>3, <2>1, <2>2, DoneKeeps
<1>7. CASE ~Refused(r)
  <2>0. PICK new : new = NewThread(r)
    OBVIOUS
  <2>1. thread' = [thread EXCEPT ![c] = new]
    BY <1>1, <1>4, <1>7, <2>0
  <2>2. new \in Thread /\ new.sid = Absent
    BY <1>4, <1>5, <1>7, <2>0, ThreadRequestTaken DEF NewThread
  <2>3. /\ Grows /\ ThreadInv' /\ thread' \in [Threads -> Thread \cup {None}]
        /\ \A d \in Threads \ {c} : thread'[d] = thread[d]
    BY <1>2, <1>3, <2>1, <2>2, Making
  <2>4. \A d \in Calls \ {c} : thread[d] = None => thread'[d] = None
    BY <2>3 DEF Threads
  <2> QED BY <1>2, <1>3, <2>3, <2>4, DoneKeeps
<1> QED BY <1>6, <1>7

\* thread/resume.
LEMMA ThreadResumeKeeps ==
  ASSUME SettingsInv, NEW c \in Calls, NEW p \in Params, NEW th \in Threads,
         ThreadResume(c, p, th)
  PROVE  SettingsInv'
<1>1. /\ call[c].pc = "idle" /\ thread[th] # None
      /\ UNCHANGED <<thread, turn, live, order, argv, rules, stored>>
      /\ SettingsType /\ TurnInv /\ ThreadInv
  BY DEF ThreadResume, SettingsInv
<1>2. PICK granted \in BOOLEAN :
        /\ granted => ResumeInstructions(p.instr, thread[th].instr)
        /\ Hear(c, p, {"instr"}, granted)
        /\ call' = [call EXCEPT ![c] = [Idle EXCEPT !.pc = "done",
                                         !.thread = IF granted THEN th ELSE None]]
  <2> DEFINE g == ~p.extra /\ ResumeInstructions(p.instr, thread[th].instr)
  <2>1. /\ g \in BOOLEAN /\ (g => ResumeInstructions(p.instr, thread[th].instr))
        /\ Hear(c, p, {"instr"}, g)
        /\ call' = [call EXCEPT ![c] = [Idle EXCEPT !.pc = "done",
                                         !.thread = IF g THEN th ELSE None]]
    BY Zenon DEF ThreadResume
  <2> HIDE DEF g
  <2> QED BY <2>1, Zenon
<1>3. PICK n : n = [Idle EXCEPT !.pc = "done", !.thread = IF granted THEN th ELSE None]
  OBVIOUS
<1>4. PICK said : said = Restrict(p, {"instr"})
  OBVIOUS
<1>5. /\ said \in [{"instr"} -> Texts] /\ said.instr = p.instr
  <2>1. p.instr \in Texts
    BY SettingsParamsAssumption DEF Param
  <2> QED BY <1>4, <2>1 DEF Restrict
<1>6. said \in Asked
  BY <1>5 DEF Asked
<1>7. /\ n.pc = "done" /\ n.req = None /\ n.job = None /\ n.known = Absent /\ n \in CallState
      /\ n.thread = IF granted THEN th ELSE None
  BY <1>3, LaunchTextsAssumption DEF Idle, CallState, PcLabels
<1>8. /\ call' \in [Calls -> CallState] /\ call'[c] = n
      /\ \A d \in Calls \ {c} : call'[d] = call[d]
  BY <1>1, <1>2, <1>3, <1>7 DEF SettingsType
<1>9. /\ asked' \in [Calls -> Asked \cup {None}]
      /\ asked'[c] = IF granted THEN said ELSE asked[c]
      /\ \A d \in Calls \ {c} : asked'[d] = asked[d]
  BY <1>1, <1>2, <1>4, <1>6 DEF SettingsType, Hear
<1>10. SettingsType'
  BY <1>1, <1>8, <1>9 DEF SettingsType
<1>11. argv[c] = None /\ turn[c] = None /\ \A x \in Threads : c \notin stored[x]
  BY <1>1, IdleIs
<1>12. TurnInv'
  BY <1>1, <1>8, <1>11, TurnInvStays
<1>13. CallInv(c)'
  <2>1. JobInv(n, c)' /\ OpenInv(n, c)'
    BY <1>1, <1>7, <1>11 DEF JobInv, OpenInv
  <2>2. ResumeInv(n, c)'
    <3>1. CASE granted
      <4>1. p.instr \in {Absent, Null, thread[th].instr}
        BY <1>2, <3>1 DEF ResumeInstructions
      <4> QED BY <1>1, <1>5, <1>7, <1>9, <3>1, <4>1 DEF ResumeInv
    <3>2. CASE ~granted
      BY <1>7, <3>2 DEF ResumeInv
    <3> QED BY <3>1, <3>2
  <2> QED BY <1>7, <1>8, <2>1, <2>2 DEF CallInv
<1>14. Grows /\ ThreadInv' /\ \A d \in Calls \ {c} : Apart(d)
  BY <1>1, <1>8, <1>9, NothingGrows DEF ThreadInv, Apart
<1> QED BY <1>10, <1>12, <1>13, <1>14, Stepping

-----------------------------------------------------------------------------
(***************************************************************************)
(* The steps of a run                                                      *)
(***************************************************************************)
\* A step that admits no turn.
LEMMA RunStep ==
  ASSUME SettingsInv, NEW c \in Calls, SettingsType', ThreadInv', CallInv(c)', Grows,
         \A d \in Calls \ {c} : Apart(d), UNCHANGED <<turn, live, order>>,
         \/ turn[c] = None
         \/ /\ call'[c].job = call[c].job /\ call'[c].thread = call[c].thread
            /\ call'[c].model = call[c].model /\ call'[c].effort = call[c].effort
            /\ call'[c].req = call[c].req
  PROVE  SettingsInv'
<1>1. \A th \in Threads : thread[th] # None => thread'[th] # None
  BY DEF Grows
<1>2. \A d \in Calls :
        \/ turn[d] = None
        \/ /\ call'[d].job = call[d].job /\ call'[d].thread = call[d].thread
           /\ call'[d].model = call[d].model /\ call'[d].effort = call[d].effort
           /\ call'[d].req = call[d].req
  BY DEF Apart
<1>3. SettingsType /\ TurnInv
  BY DEF SettingsInv
<1>4. TurnInv'
  BY <1>1, <1>2, <1>3, TurnInvStays
<1> QED BY <1>4, Stepping

\* What a call has read before its preamble.
LEMMA PreambleIs ==
  ASSUME SettingsInv, NEW c \in Calls, NEW k, k = call[c], k.pc = "preamble"
  PROVE  /\ ReceivedInv(k, c) /\ k \in CallState /\ k.req \in Request /\ k.job = None
         /\ OpenInv(k, c) /\ argv[c] = None /\ turn[c] = None
<1>1. CallInv(c) /\ k \in CallState
  BY DEF SettingsInv, SettingsType
<1>2. ReceivedInv(k, c) /\ JobInv(k, c) /\ OpenInv(k, c)
  BY <1>1 DEF CallInv
<1>3. k.job = None
  BY <1>2 DEF JobInv
<1>4. k.req \in Request
  BY <1>1, <1>2 DEF ReceivedInv, CallState
<1> QED BY <1>1, <1>2, <1>3, <1>4, WithoutJob

\* The fields of a request are texts.
LEMMA RequestTexts ==
  ASSUME NEW q \in Request
  PROVE  /\ q.path \in Texts /\ q.cwd \in Texts /\ q.model \in Texts /\ q.effort \in Texts
         /\ q.key \in Texts
BY DEF Request, TurnFields

\* The preamble of a first turn.
LEMMA PreambleFirstKeeps ==
  ASSUME SettingsInv, NEW c \in Calls, call[c].pc = "preamble", NEW config \in ConfigFiles,
         call[c].req.path = "first", PreambleFirst(c, config),
         UNCHANGED <<turn, live, order, asked, argv, rules, stored>>
  PROVE  SettingsInv'
<1>0. PICK k : k = call[c]
  OBVIOUS
<1>1. /\ ReceivedInv(k, c) /\ k \in CallState /\ k.req \in Request /\ k.job = None
      /\ OpenInv(k, c) /\ argv[c] = None /\ turn[c] = None
  BY <1>0, PreambleIs
<1>2. PICK q : q = k.req
  OBVIOUS
<1>3. PICK r : r = ResolveFirstTurn(q.model, q.effort, config)
  OBVIOUS
<1>4. /\ q \in Request /\ q # None /\ q.path = "first" /\ thread[c] = None /\ asked[c] = None
      /\ q.approval \in Policies /\ q.sandbox \in Sandboxes /\ k.instr = "" /\ k.saw = {}
  BY <1>0, <1>1, <1>2 DEF ReceivedInv
<1>5. SettingsType /\ ThreadInv
  BY DEF SettingsInv
<1>6. CASE Malformed(config) \/ Refused(r)
  <2>1. Done(c) /\ thread' = thread
    BY <1>0, <1>2, <1>3, <1>6 DEF PreambleFirst
  <2>2. Grows /\ ThreadInv' /\ thread' \in [Threads -> Thread \cup {None}]
    BY <1>5, <2>1, NothingGrows DEF ThreadInv, SettingsType
  <2> QED BY <1>0, <1>1, <2>1, <2>2, DoneKeeps
<1>7. CASE ~(Malformed(config) \/ Refused(r))
  <2>1. PICK new : new = [cwd |-> q.cwd, model |-> r.model, approval |-> q.approval,
                          sandbox |-> q.sandbox, instr |-> "", sid |-> Absent]
    OBVIOUS
  <2>2. PICK pc : pc = IF PlanRefuses(q) THEN "done" ELSE "admit"
    OBVIOUS
  <2>3. PICK n : n = [k EXCEPT !.pc = pc, !.thread = c, !.model = r.model, !.effort = r.effort]
    OBVIOUS
  <2>4. /\ thread' = [thread EXCEPT ![c] = new]
        /\ call' = [call EXCEPT ![c].pc = pc, ![c].thread = c, ![c].model = r.model,
                                ![c].effort = r.effort]
    BY <1>0, <1>2, <1>3, <1>7, <2>1, <2>2 DEF PreambleFirst
  <2>5. /\ r.model \in Texts /\ r.effort \in Texts /\ Clean(r.model) /\ Clean(r.effort)
        /\ NormalizePresent(r.model) = r.model
    <3>1. config \in Seq(Line) /\ q.model \in Texts /\ q.effort \in Texts
      BY <1>4, RequestTexts, SettingsFilesAssumption
    <3> QED BY <1>3, <1>7, <3>1, FirstResolved
  <2>6. /\ new \in Thread /\ new.sid = Absent /\ new.model = r.model /\ new.instr = ""
        /\ new.approval = q.approval /\ new.sandbox = q.sandbox /\ new # None
    <3>1. q.cwd \in Texts /\ "" \in Texts /\ Absent \in Texts
      BY <1>4, RequestTexts, LaunchTextsAssumption
    <3>2. new \in Thread
      BY <1>4, <2>1, <2>5, <3>1 DEF Thread
    <3> QED BY <2>1, <3>2, SettingsNoneAssumption
  <2>7. /\ Grows /\ ThreadInv' /\ thread' \in [Threads -> Thread \cup {None}]
        /\ thread'[c] = new /\ \A d \in Threads \ {c} : thread'[d] = thread[d]
    BY <1>4, <2>4, <2>6, Making
  <2>8. call'[c] = n /\ \A d \in Calls \ {c} : call'[d] = call[d]
    BY <1>0, <1>5, <2>3, <2>4 DEF SettingsType
  <2>9. c \in Threads /\ c # None
    BY SettingsNoneAssumption DEF Threads
  <2>10. /\ n.pc = pc /\ n.thread = c /\ n.model = r.model /\ n.effort = r.effort
         /\ n.req = q /\ n.load = k.load /\ n.instr = "" /\ n.job = None /\ n.saw = {}
         /\ n.known = k.known /\ n.sid = k.sid
    BY <1>1, <1>2, <1>4, <2>3 DEF CallState
  <2>11. n \in CallState
    BY <1>1, <2>2, <2>3, <2>5, <2>9 DEF CallState, PcLabels
  <2>12. SettingsType'
    <3>1. call' \in [Calls -> CallState]
      BY <1>5, <2>4, <2>8, <2>11 DEF SettingsType
    <3> QED BY <1>5, <2>7, <3>1 DEF SettingsType
  <2>13. n.pc = "admit" => PlanInv(n, c)' /\ SawInv(n, c)'
    <3>1. Told(n.req, asked[c], thread[n.thread])'
      BY <1>4, <2>6, <2>7, <2>10 DEF Told
    <3>2. n.pc = "admit" => ~PlanRefuses(n.req)
      BY <2>2, <2>10
    <3>3. n.pc = "admit" => PlanInv(n, c)'
      BY <1>4, <2>5, <2>6, <2>7, <2>9, <2>10, <3>1, <3>2 DEF PlanInv
    <3>4. SawInv(n, c)'
      BY <2>10 DEF SawInv
    <3> QED BY <3>3, <3>4
  <2>14. JobInv(n, c)'
    BY <1>1, <2>2, <2>10 DEF JobInv
  <2>15. OpenInv(n, c)'
    BY <1>0, <1>1, <1>2, <1>4, <2>2, <2>10 DEF OpenInv
  <2>16. ResumeInv(n, c)'
    BY <1>4, <2>10 DEF ResumeInv
  <2>17. CallInv(c)'
    BY <2>2, <2>8, <2>10, <2>13, <2>14, <2>15, <2>16 DEF CallInv
  <2>18. \A d \in Calls \ {c} : Apart(d)
    BY <2>7, <2>8 DEF Apart, Threads
  <2> QED BY <1>1, <2>7, <2>12, <2>17, <2>18, RunStep
<1> QED BY <1>6, <1>7

\* The preamble of a later turn.
LEMMA PreambleLaterKeeps ==
  ASSUME SettingsInv, NEW c \in Calls, call[c].pc = "preamble", NEW config \in ConfigFiles,
         call[c].req.path # "first", PreambleLater(c, config),
         UNCHANGED <<thread, turn, live, order, asked, argv, rules, stored>>
  PROVE  SettingsInv'
<1>0. PICK k : k = call[c]
  OBVIOUS
<1>1. /\ ReceivedInv(k, c) /\ k \in CallState /\ k.req \in Request /\ k.job = None
      /\ OpenInv(k, c) /\ argv[c] = None /\ turn[c] = None
  BY <1>0, PreambleIs
<1>2. PICK q : q = k.req
  OBVIOUS
<1>3. PICK th : th = k.thread
  OBVIOUS
<1>4. PICK rec : rec = thread[th]
  OBVIOUS
<1>5. PICK previous : previous = PreviousEffort(th)
  OBVIOUS
<1>6. PICK r : r = ResolveFollowUp(q.model, q.effort, rec.model, previous, config)
  OBVIOUS
<1>7. SettingsType /\ ThreadInv /\ TurnInv
  BY DEF SettingsInv
<1>8. /\ q \in Request /\ q # None /\ q.path # "first" /\ th # None /\ rec # None
      /\ Told(q, asked[c], rec)
  BY <1>0, <1>1, <1>2, <1>3, <1>4 DEF ReceivedInv
<1>9. th \in Threads
  BY <1>1, <1>3, <1>8 DEF CallState
<1>10. rec \in Thread
  BY <1>4, <1>7, <1>8, <1>9 DEF SettingsType
<1>11. Grows /\ ThreadInv'
  BY <1>7, NothingGrows DEF ThreadInv
<1> DEFINE no == \/ Malformed(config) \/ Refused(r) \/ PlanRefuses(q)
                 \/ q.path = "followUp" /\ rec.sid = Absent
<1>12. CASE no
  <2>1. Done(c)
    BY <1>0, <1>2, <1>3, <1>4, <1>5, <1>6, <1>12 DEF PreambleLater
  <2> QED BY <1>0, <1>1, <1>7, <1>11, <2>1, DoneKeeps DEF SettingsType
<1>13. CASE ~no
  <2>1. PICK load : load = IF q.path = "followUp" THEN rec.sid ELSE Absent
    OBVIOUS
  <2>2. PICK seen : seen = TurnsOf(th)
    OBVIOUS
  <2>3. PICK n : n = [k EXCEPT !.pc = "admit", !.model = r.model, !.effort = r.effort,
                               !.instr = rec.instr, !.load = load, !.saw = seen]
    OBVIOUS
  <2>4. call' = [call EXCEPT ![c].pc = "admit", ![c].model = r.model, ![c].effort = r.effort,
                             ![c].instr = rec.instr, ![c].load = load, ![c].saw = seen]
    BY <1>0, <1>2, <1>3, <1>4, <1>5, <1>6, <1>13, <2>1, <2>2 DEF PreambleLater, LoadId
  <2>5. /\ previous \in Texts /\ previous \notin {" ", Alias, Bad}
        /\ \A x \in seen : (\A u \in seen \ {x} : Later(x, u)) => previous = turn[x].effort
    BY <1>5, <1>7, <2>2, PreviousIs
  <2>6. /\ r.model \in Texts /\ r.effort \in Texts /\ Clean(r.model) /\ Clean(r.effort)
        /\ r.model = NormalizePresent(rec.model)
        /\ q.effort = "" /\ previous # "" => r.effort = previous
    <3>1. config \in Seq(Line) /\ q.model \in Texts /\ q.effort \in Texts
      BY <1>8, RequestTexts, SettingsFilesAssumption
    <3>2. rec.model \in Texts
      BY <1>10 DEF Thread
    <3>3. ~Refused(r)
      BY <1>13
    <3>4. previous \in Texts /\ previous \notin {" ", Alias, Bad}
      BY <2>5
    <3>5. GoesOn(r, rec.model, q.effort, previous)
      BY <1>6, <3>1, <3>2, <3>3, <3>4, FollowUpResolved
    <3> QED BY <3>5 DEF GoesOn
  <2>7. call'[c] = n /\ \A d \in Calls \ {c} : call'[d] = call[d]
    BY <1>0, <1>7, <2>3, <2>4 DEF SettingsType
  <2>8. /\ n.pc = "admit" /\ n.thread = th /\ n.model = r.model /\ n.effort = r.effort
        /\ n.req = q /\ n.load = load /\ n.instr = rec.instr /\ n.job = None
        /\ n.saw = seen /\ n.known = k.known /\ n.sid = k.sid
    BY <1>1, <1>2, <1>3, <2>3 DEF CallState
  <2>9. load \in Sessions \cup Texts /\ rec.instr \in Texts /\ seen \subseteq Threads
    BY <1>10, <2>1, <2>2, LaunchTextsAssumption DEF Thread, TurnsOf
  <2>10. n \in CallState
    BY <1>1, <2>3, <2>6, <2>9 DEF CallState, PcLabels
  <2>11. SettingsType'
    <3>1. call' \in [Calls -> CallState]
      BY <1>7, <2>4, <2>7, <2>10 DEF SettingsType
    <3> QED BY <1>7, <3>1 DEF SettingsType
  <2>12. PlanInv(n, c)
    <3>1. Told(n.req, asked[c], thread[n.thread])
      BY <1>4, <1>8, <2>8
    <3>2. n.req # None /\ ~PlanRefuses(n.req) /\ n.thread # None /\ thread[n.thread] # None
      BY <1>4, <1>8, <1>13, <2>8
    <3>3. /\ n.model = NormalizePresent(thread[n.thread].model)
          /\ n.instr = thread[n.thread].instr
      BY <1>4, <2>6, <2>8
    <3>4. n.req.path = "followUp" => n.load # Absent
      BY <1>13, <2>1, <2>8
    <3> QED BY <1>8, <2>6, <2>8, <3>1, <3>2, <3>3, <3>4 DEF PlanInv
  <2>13. SawInv(n, c)
    <3>1. n.saw \subseteq {t \in Threads \ {c} : turn[t] # None /\ turn[t].thread = n.thread}
      BY <1>1, <2>2, <2>8 DEF TurnsOf
    <3>2. n.req.effort = "" =>
            \A x \in n.saw :
              (\A u \in n.saw \ {x} : Later(x, u)) /\ turn[x].effort # "" =>
                n.effort = turn[x].effort
      BY <2>5, <2>6, <2>8
    <3> QED BY <1>1, <3>1, <3>2 DEF SawInv
  <2>14. PlanInv(n, c)' /\ SawInv(n, c)'
    BY <1>7, <1>11, <2>10, <2>12, <2>13, PlanStays, SawStays
  <2>15. JobInv(n, c)' /\ ResumeInv(n, c)'
    BY <1>1, <1>8, <2>8 DEF JobInv, ResumeInv
  <2>16. OpenInv(n, c)'
    BY <1>0, <1>1, <1>2, <2>8 DEF OpenInv
  <2>17. CallInv(c)'
    BY <2>7, <2>8, <2>14, <2>15, <2>16 DEF CallInv
  <2>18. \A d \in Calls \ {c} : Apart(d)
    BY <2>7 DEF Apart
  <2> QED BY <1>1, <1>11, <2>11, <2>17, <2>18, RunStep
<1> QED BY <1>12, <1>13

\* The preamble.
LEMMA PreambleKeeps ==
  ASSUME SettingsInv, NEW c \in Calls, Preamble(c)
  PROVE  SettingsInv'
<1>1. PICK config \in ConfigFiles :
        \/ call[c].req.path = "first" /\ PreambleFirst(c, config)
        \/ call[c].req.path # "first" /\ PreambleLater(c, config) /\ UNCHANGED thread
  BY DEF Preamble
<1>2. call[c].pc = "preamble" /\ UNCHANGED <<turn, live, order, asked, argv, rules, stored>>
  BY DEF Preamble
<1>3. CASE call[c].req.path = "first" /\ PreambleFirst(c, config)
  BY <1>2, <1>3, PreambleFirstKeeps
<1>4. CASE call[c].req.path # "first" /\ PreambleLater(c, config) /\ UNCHANGED thread
  BY <1>2, <1>4, PreambleLaterKeeps
<1> QED BY <1>1, <1>3, <1>4

\* What a call has resolved before it is admitted.
LEMMA AdmitIs ==
  ASSUME SettingsInv, NEW c \in Calls, NEW k, k = call[c], k.pc = "admit"
  PROVE  /\ PlanInv(k, c) /\ SawInv(k, c) /\ OpenInv(k, c) /\ k \in CallState
         /\ k.req \in Request /\ k.thread \in Threads /\ k.job = None
         /\ argv[c] = None /\ turn[c] = None
<1>1. CallInv(c) /\ k \in CallState
  BY DEF SettingsInv, SettingsType
<1>2. PlanInv(k, c) /\ SawInv(k, c) /\ JobInv(k, c) /\ OpenInv(k, c)
  BY <1>1 DEF CallInv
<1>3. k.job = None
  BY <1>2 DEF JobInv
<1>4. k.req \in Request /\ k.thread \in Threads
  BY <1>1, <1>2 DEF PlanInv, CallState
<1> QED BY <1>1, <1>2, <1>3, <1>4, WithoutJob

\* A run that is given the turn of another.
LEMMA AdmitDuplicateKeeps ==
  ASSUME SettingsInv, NEW c \in Calls, call[c].pc = "admit",
         NEW t \in InFlight(call[c].req.key),
         call' = [call EXCEPT ![c].pc = "launch", ![c].job = t],
         UNCHANGED <<thread, turn, live, order, asked, argv, rules, stored>>
  PROVE  SettingsInv'
<1>0. PICK k : k = call[c]
  OBVIOUS
<1>1. /\ PlanInv(k, c) /\ SawInv(k, c) /\ OpenInv(k, c) /\ k \in CallState
      /\ k.job = None /\ argv[c] = None /\ turn[c] = None
  BY <1>0, AdmitIs
<1>2. SettingsType /\ TurnInv /\ ThreadInv
  BY DEF SettingsInv
<1>3. t \in live /\ turn[t].key = k.req.key /\ k.req.key # Absent
  BY <1>0 DEF InFlight
<1>4. t \in Calls /\ turn[t] # None /\ t # None
  <2>1. t \in Calls /\ turn[t] # None
    BY <1>2, <1>3 DEF TurnInv
  <2> QED BY <2>1, SettingsNoneAssumption DEF Threads
<1>5. PICK n : n = [k EXCEPT !.pc = "launch", !.job = t]
  OBVIOUS
<1>6. call'[c] = n /\ \A d \in Calls \ {c} : call'[d] = call[d]
  BY <1>0, <1>2, <1>5 DEF SettingsType
<1>7. /\ n.pc = "launch" /\ n.job = t /\ n.req = k.req /\ n.thread = k.thread
      /\ n.model = k.model /\ n.effort = k.effort /\ n.load = k.load /\ n.instr = k.instr
      /\ n.saw = k.saw /\ n.known = k.known
  BY <1>1, <1>5 DEF CallState
<1>8. n \in CallState
  BY <1>1, <1>4, <1>5 DEF CallState, PcLabels
<1>9. SettingsType'
  <2>1. call' \in [Calls -> CallState]
    BY <1>2, <1>6, <1>8 DEF SettingsType
  <2> QED BY <1>2, <2>1 DEF SettingsType
<1>10. Grows /\ ThreadInv' /\ \A d \in Calls \ {c} : Apart(d)
  BY <1>2, <1>6, NothingGrows DEF ThreadInv, Apart
<1>11. PlanInv(n, c)' /\ SawInv(n, c)'
  <2>1. PlanInv(n, c)
    BY <1>1, <1>7 DEF PlanInv
  <2>2. SawInv(n, c)
    BY <1>1, <1>7 DEF SawInv
  <2> QED BY <1>2, <1>8, <1>10, <2>1, <2>2, PlanStays, SawStays
<1>12. JobInv(n, c)'
  <2>1. n.req.path = "first"
    BY <1>1, <1>3, <1>7 DEF OpenInv, PlanInv
  <2> QED BY <1>1, <1>3, <1>4, <1>7, <2>1 DEF JobInv
<1>13. OpenInv(n, c)'
  BY <1>0, <1>1, <1>7 DEF OpenInv
<1>14. ResumeInv(n, c)'
  BY <1>1, <1>7 DEF ResumeInv, PlanInv
<1>15. CallInv(c)'
  BY <1>6, <1>7, <1>11, <1>12, <1>13, <1>14 DEF CallInv
<1> QED BY <1>1, <1>9, <1>10, <1>15, RunStep

\* A turn of its own.
LEMMA AdmitNewKeeps ==
  ASSUME SettingsInv, NEW c \in Calls, call[c].pc = "admit", NEW now \in 0..MaxNow,
         turn' = [turn EXCEPT ![c] =
                    [thread |-> call[c].thread, model |-> call[c].model,
                     effort |-> call[c].effort, epoch |-> now, key |-> call[c].req.key]],
         live' = live \cup {c}, order' = Append(order, c),
         call' = [call EXCEPT ![c].pc = "launch", ![c].job = c],
         UNCHANGED <<thread, asked, argv, rules, stored>>
  PROVE  SettingsInv'
<1>0. PICK k : k = call[c]
  OBVIOUS
<1>1. /\ PlanInv(k, c) /\ SawInv(k, c) /\ OpenInv(k, c) /\ k \in CallState
      /\ k.req \in Request /\ k.thread \in Threads /\ k.job = None
      /\ argv[c] = None /\ turn[c] = None
  BY <1>0, AdmitIs
<1>2. SettingsType /\ TurnInv /\ ThreadInv
  BY DEF SettingsInv
<1>3. c \in Threads /\ c # None /\ c \notin Stored
  BY SettingsNoneAssumption, SettingsNamesAssumption DEF Threads
<1>4. PICK n : n = [k EXCEPT !.pc = "launch", !.job = c]
  OBVIOUS
<1>5. call'[c] = n /\ \A d \in Calls \ {c} : call'[d] = call[d]
  BY <1>0, <1>2, <1>4 DEF SettingsType
<1>6. /\ n.pc = "launch" /\ n.job = c /\ n.req = k.req /\ n.thread = k.thread
      /\ n.model = k.model /\ n.effort = k.effort /\ n.load = k.load /\ n.instr = k.instr
      /\ n.saw = k.saw /\ n.known = k.known
  BY <1>1, <1>4 DEF CallState
<1>7. n \in CallState
  BY <1>1, <1>4 DEF CallState, PcLabels
<1>8. PICK new : new = [thread |-> k.thread, model |-> k.model, effort |-> k.effort,
                        epoch |-> now, key |-> k.req.key]
  OBVIOUS
<1>9. /\ new \in Turn /\ new.thread = k.thread /\ new.model = k.model
      /\ new.effort = k.effort /\ new.key = k.req.key
  <2>1. k.model \in Texts /\ k.effort \in Texts /\ k.req.key \in Texts
    BY <1>1, RequestTexts DEF CallState
  <2> QED BY <1>1, <1>8, <2>1 DEF Turn
<1>10. new # None
  BY <1>9, SettingsNoneAssumption
<1>11. /\ turn' \in [Threads -> Turn \cup {None}] /\ turn'[c] = new
       /\ \A t \in Threads \ {c} : turn'[t] = turn[t]
  BY <1>0, <1>2, <1>3, <1>8, <1>9 DEF SettingsType
<1>12. PICK l \in Nat : l = Len(order)
  BY <1>2 DEF SettingsType
<1>13. /\ order \in Seq(Calls) /\ order' \in Seq(Calls) /\ DOMAIN order = 1..l
       /\ DOMAIN order' = 1..(l + 1) /\ order'[l + 1] = c
       /\ \A m \in 1..l : order'[m] = order[m]
  BY <1>2, <1>12 DEF SettingsType
<1>14. SettingsType'
  <2>1. call' \in [Calls -> CallState]
    BY <1>2, <1>5, <1>7 DEF SettingsType
  <2> QED BY <1>2, <1>11, <1>13, <2>1 DEF SettingsType
<1>15. \A m \in 1..l : order[m] # c
  <2>1. ~\E m \in DOMAIN order : order[m] = c
    BY <1>1, <1>2 DEF TurnInv
  <2> QED BY <1>13, <2>1
<1>16. \A m, j \in DOMAIN order' : order'[m] = order'[j] => m = j
  <2>1. \A m, j \in 1..l : order[m] = order[j] => m = j
    BY <1>2, <1>13 DEF TurnInv
  <2> QED BY <1>13, <1>15, <2>1
<1>17. \A t \in Calls : turn'[t] # None <=> \E m \in DOMAIN order' : order'[m] = t
  <2>1. \A t \in Calls : turn[t] # None <=> \E m \in 1..l : order[m] = t
    BY <1>2, <1>13 DEF TurnInv
  <2> SUFFICES ASSUME NEW t \in Calls
               PROVE  turn'[t] # None <=> \E m \in DOMAIN order' : order'[m] = t
    OBVIOUS
  <2>2. CASE t = c
    BY <1>10, <1>11, <1>13, <2>2
  <2>3. CASE t # c
    <3>1. turn'[t] = turn[t]
      BY <1>11, <2>3 DEF Threads
    <3>2. (\E m \in DOMAIN order' : order'[m] = t) <=> \E m \in 1..l : order[m] = t
      BY <1>13, <2>3
    <3> QED BY <2>1, <3>1, <3>2
  <2> QED BY <2>2, <2>3
<1>18. TurnInv'
  <2>1. live' \subseteq {t \in Calls : turn'[t] # None}
    <3>1. \A t \in live : t \in Calls /\ turn[t] # None
      BY <1>2 DEF TurnInv
    <3> QED BY <1>10, <1>11, <3>1 DEF Threads
  <2>2. \A t \in Threads :
          turn'[t] # None => /\ thread'[turn'[t].thread] # None
                             /\ turn'[t].effort \notin {" ", Alias, Bad}
    <3>1. \A t \in Threads :
            turn[t] # None => /\ thread[turn[t].thread] # None
                              /\ turn[t].effort \notin {" ", Alias, Bad}
      BY <1>2 DEF TurnInv
    <3>2. thread[k.thread] # None /\ k.effort \notin {" ", Alias, Bad}
      BY <1>1 DEF PlanInv, Clean
    <3> QED BY <1>9, <1>11, <3>1, <3>2
  <2>3. \A t \in Stored : turn'[t] # None => turn'[t].thread = t /\ turn'[t].key = Absent
    <3>1. \A t \in Stored : turn[t] # None => turn[t].thread = t /\ turn[t].key = Absent
      BY <1>2 DEF TurnInv
    <3> QED BY <1>3, <1>11, <3>1 DEF Threads
  <2>4. \A t \in Calls :
          turn'[t] # None => /\ call'[t].job = t /\ turn'[t].thread = call'[t].thread
                             /\ turn'[t].model = call'[t].model
                             /\ turn'[t].effort = call'[t].effort
                             /\ turn'[t].key = call'[t].req.key
    <3>1. \A t \in Calls :
            turn[t] # None => /\ call[t].job = t /\ turn[t].thread = call[t].thread
                              /\ turn[t].model = call[t].model
                              /\ turn[t].effort = call[t].effort
                              /\ turn[t].key = call[t].req.key
      BY <1>2 DEF TurnInv
    <3> SUFFICES ASSUME NEW t \in Calls, turn'[t] # None
                 PROVE  /\ call'[t].job = t /\ turn'[t].thread = call'[t].thread
                        /\ turn'[t].model = call'[t].model
                        /\ turn'[t].effort = call'[t].effort
                        /\ turn'[t].key = call'[t].req.key
      OBVIOUS
    <3>2. CASE t = c
      BY <1>5, <1>6, <1>9, <1>11, <3>2
    <3>3. CASE t # c
      <4>1. turn'[t] = turn[t] /\ call'[t] = call[t]
        BY <1>5, <1>11, <3>3 DEF Threads
      <4> QED BY <3>1, <4>1
    <3> QED BY <3>2, <3>3
  <2> QED BY <1>16, <1>17, <2>1, <2>2, <2>3, <2>4 DEF TurnInv
<1>19. \A t \in Threads : turn[t] # None => Position(t)' = Position(t)
  <2> SUFFICES ASSUME NEW t \in Threads, turn[t] # None PROVE Position(t)' = Position(t)
    OBVIOUS
  <2>1. CASE t \in Stored
    BY <2>1 DEF Position
  <2>2. CASE t \in Calls /\ t \notin Stored
    <3>1. PICK m \in 1..l : order[m] = t /\ Position(t) = m
      BY <1>2, <1>13, <2>2, Positions
    <3>2. m \in DOMAIN order' /\ order'[m] = t
      BY <1>13, <3>1
    <3>3. \A j \in DOMAIN order' : order'[j] = t => j = m
      BY <1>16, <3>2
    <3>4. Position(t)' = m
      BY <2>2, <3>2, <3>3 DEF Position
    <3> QED BY <3>1, <3>4
  <2> QED BY <2>1, <2>2 DEF Threads
<1>20. Position(c)' = l + 1
  <2>1. l + 1 \in DOMAIN order'
    BY <1>13
  <2>2. \A j \in DOMAIN order' : order'[j] = c => j = l + 1
    BY <1>13, <1>16, <2>1
  <2> QED BY <1>3, <1>13, <2>1, <2>2 DEF Position
<1>21. Grows
  <2>1. \A t \in Threads : turn[t] # None => turn'[t] = turn[t]
    BY <1>1, <1>11
  <2> QED BY <1>19, <2>1 DEF Grows
<1>22. PlanInv(n, c)'
  <2>1. PlanInv(n, c)
    BY <1>1, <1>6 DEF PlanInv
  <2> QED BY <1>2, <1>7, <1>21, <2>1, PlanStays
<1>23. SawInv(n, c)'
  <2>1. \A x \in k.saw : x \in Threads \ {c} /\ turn[x] # None /\ turn[x].thread = k.thread
    BY <1>1 DEF SawInv
  <2>2. \A x \in k.saw : turn'[x] = turn[x] /\ Position(x)' = Position(x)
    BY <1>11, <1>19, <2>1
  <2>3. \A x, u \in k.saw : Later(x, u)' = Later(x, u)
    BY <2>2 DEF Later, IdLess
  <2>4. \A x \in k.saw : Position(x)' < Position(c)'
    <3> SUFFICES ASSUME NEW x \in k.saw PROVE Position(x)' < Position(c)'
      OBVIOUS
    <3>1. /\ Position(x) \in Nat /\ (x \in Stored => Position(x) = 0)
          /\ (x \in Calls => Position(x) <= l)
      BY <1>2, <1>12, <2>1, Positions
    <3>2. Position(x) <= l
      BY <1>12, <2>1, <3>1 DEF Threads
    <3> QED BY <1>12, <1>20, <2>2, <3>1, <3>2
  <2>5. n.req.effort = "" =>
          \A x \in k.saw :
            (\A u \in k.saw \ {x} : Later(x, u)') /\ turn'[x].effort # "" =>
              n.effort = turn'[x].effort
    BY <1>1, <1>6, <2>2, <2>3 DEF SawInv
  <2>6. k.saw \subseteq {t \in Threads \ {c} : turn'[t] # None /\ turn'[t].thread = n.thread}
    BY <1>6, <2>1, <2>2
  <2> QED BY <1>6, <2>4, <2>5, <2>6 DEF SawInv
<1>24. JobInv(n, c)'
  BY <1>1, <1>3, <1>6, <1>10, <1>11 DEF JobInv
<1>25. OpenInv(n, c)'
  BY <1>0, <1>1, <1>6 DEF OpenInv
<1>26. ResumeInv(n, c)'
  BY <1>1, <1>6 DEF ResumeInv, PlanInv
<1>27. CallInv(c)'
  BY <1>5, <1>6, <1>22, <1>23, <1>24, <1>25, <1>26 DEF CallInv
<1>28. ThreadInv' /\ \A d \in Calls \ {c} : Apart(d)
  BY <1>2, <1>5, <1>11 DEF ThreadInv, Apart, Threads
<1> QED BY <1>14, <1>18, <1>21, <1>27, <1>28, Stepping

\* admit_turn.
LEMMA AdmitKeeps ==
  ASSUME SettingsInv, NEW c \in Calls, Admit(c)
  PROVE  SettingsInv'
<1>1. call[c].pc = "admit" /\ UNCHANGED <<thread, asked, argv, rules, stored>>
  BY DEF Admit
<1>2. \/ /\ \E t \in InFlight(call[c].req.key) :
              call' = [call EXCEPT ![c].pc = "launch", ![c].job = t]
         /\ UNCHANGED <<turn, live, order>>
      \/ Done(c) /\ UNCHANGED <<turn, live, order>>
      \/ /\ \E now \in 0..MaxNow :
              turn' = [turn EXCEPT ![c] =
                         [thread |-> call[c].thread, model |-> call[c].model,
                          effort |-> call[c].effort, epoch |-> now, key |-> call[c].req.key]]
         /\ live' = live \cup {c} /\ order' = Append(order, c)
         /\ call' = [call EXCEPT ![c].pc = "launch", ![c].job = c]
  BY Zenon DEF Admit
<1>3. CASE Done(c) /\ UNCHANGED <<turn, live, order>>
  <2>1. call[c].job = None
    BY <1>1, AdmitIs
  <2>2. Grows /\ ThreadInv' /\ thread' \in [Threads -> Thread \cup {None}]
    BY <1>1, <1>3, NothingGrows DEF SettingsInv, SettingsType, ThreadInv
  <2> QED BY <1>1, <1>3, <2>1, <2>2, DoneKeeps
<1> QED BY <1>1, <1>2, <1>3, AdmitDuplicateKeeps, AdmitNewKeeps

\* What a run has that was admitted.
LEMMA RunIs ==
  ASSUME SettingsInv, NEW c \in Calls, NEW k, k = call[c], k.job # None
  PROVE  /\ PlanInv(k, c) /\ SawInv(k, c) /\ JobInv(k, c) /\ OpenInv(k, c) /\ k \in CallState
         /\ k.job \in Calls /\ turn[k.job] # None /\ k.thread \in Threads /\ k.req # None
<1>1. CallInv(c) /\ k \in CallState
  BY DEF SettingsInv, SettingsType
<1>2. PlanInv(k, c) /\ SawInv(k, c) /\ JobInv(k, c) /\ OpenInv(k, c)
  BY <1>1 DEF CallInv
<1>3. k.job \in Calls /\ k.thread \in Threads /\ k.req # None
  BY <1>1, <1>2 DEF CallState, PlanInv
<1>4. turn[k.job] # None
  BY <1>2 DEF JobInv
<1> QED BY <1>1, <1>2, <1>3, <1>4

\* A run in progress was admitted.
LEMMA RunHasJob ==
  ASSUME SettingsInv, NEW c \in Calls, call[c].pc \in {"launch", "new", "store", "prompt"}
  PROVE  call[c].job # None
BY DEF SettingsInv, CallInv, JobInv

\* A step of a run that changes where it is, its session, and what it leaves behind.
LEMMA RunGoesOn ==
  ASSUME SettingsInv, NEW c \in Calls, NEW k, k = call[c], k.job # None,
         NEW pc \in {"new", "store", "prompt", "done"}, NEW sid \in Sessions \cup Texts,
         call' = [call EXCEPT ![c].pc = pc, ![c].sid = sid],
         UNCHANGED <<turn, live, order, asked>>, Grows, ThreadInv',
         thread' \in [Threads -> Thread \cup {None}], argv' \in [Calls -> Argv \cup {None}],
         rules' \in [Sessions -> Texts \cup {None}], stored' \in [Threads -> SUBSET Calls],
         argv'[c] = None \/ argv'[c] = PlanLaunch(k.req, k.model, k.effort),
         pc = "new" => k.load = Absent, pc \in {"new", "store"} => k.known = Absent,
         pc = "store" => sid \in Sessions /\ rules'[sid] = k.instr,
         \A th \in Threads : c \in stored'[th] => k.known = Absent,
         \A d \in Calls \ {c} :
           /\ argv'[d] = argv[d] /\ (thread[d] = None => thread'[d] = None)
           /\ \A th \in Threads : d \in stored'[th] => d \in stored[th]
  PROVE  SettingsInv'
<1>1. /\ PlanInv(k, c) /\ SawInv(k, c) /\ JobInv(k, c) /\ OpenInv(k, c) /\ k \in CallState
      /\ k.job \in Calls /\ turn[k.job] # None /\ k.req # None
  BY RunIs
<1>2. SettingsType
  BY DEF SettingsInv
<1>3. PICK n : n = [k EXCEPT !.pc = pc, !.sid = sid]
  OBVIOUS
<1>4. call'[c] = n /\ \A d \in Calls \ {c} : call'[d] = call[d]
  BY <1>2, <1>3 DEF SettingsType
<1>5. /\ n.pc = pc /\ n.sid = sid /\ n.job = k.job /\ n.req = k.req /\ n.thread = k.thread
      /\ n.model = k.model /\ n.effort = k.effort /\ n.load = k.load /\ n.instr = k.instr
      /\ n.saw = k.saw /\ n.known = k.known
  BY <1>1, <1>3 DEF CallState
<1>6. n \in CallState
  BY <1>1, <1>3 DEF CallState, PcLabels
<1>7. SettingsType'
  <2>1. call' \in [Calls -> CallState]
    BY <1>2, <1>4, <1>6 DEF SettingsType
  <2> QED BY <1>2, <2>1 DEF SettingsType
<1>8. PlanInv(n, c)' /\ SawInv(n, c)'
  <2>1. PlanInv(n, c)
    BY <1>1, <1>5 DEF PlanInv
  <2>2. SawInv(n, c)
    BY <1>1, <1>5 DEF SawInv
  <2> QED BY <1>2, <1>6, <2>1, <2>2, PlanStays, SawStays
<1>9. JobInv(n, c)'
  BY <1>1, <1>5 DEF JobInv
<1>10. OpenInv(n, c)'
  BY <1>1, <1>5 DEF OpenInv
<1>11. ResumeInv(n, c)'
  BY <1>1, <1>5 DEF ResumeInv
<1>12. CallInv(c)'
  BY <1>4, <1>5, <1>8, <1>9, <1>10, <1>11 DEF CallInv
<1>13. \A d \in Calls \ {c} : Apart(d)
  BY <1>4 DEF Apart
<1> QED BY <1>4, <1>5, <1>7, <1>12, <1>13, RunStep

\* The agent is spawned.
LEMMA SpawnKeeps ==
  ASSUME SettingsInv, NEW c \in Calls, Spawn(c)
  PROVE  SettingsInv'
<1>0. PICK k : k = call[c]
  OBVIOUS
<1>1. PICK pc : pc = IF k.job \notin live THEN "done"
                     ELSE IF k.load = Absent THEN "new" ELSE "prompt"
  OBVIOUS
<1>2. PICK a : a = PlanLaunch(k.req, k.model, k.effort)
  OBVIOUS
<1>3. /\ k.pc = "launch" /\ argv' = [argv EXCEPT ![c] = a]
      /\ call' = [call EXCEPT ![c].pc = pc]
      /\ UNCHANGED <<thread, turn, live, order, asked, rules, stored>>
  BY <1>0, <1>1, <1>2 DEF Spawn
<1>4. k.job # None
  BY <1>0, <1>3, RunHasJob
<1>5. /\ PlanInv(k, c) /\ OpenInv(k, c) /\ k \in CallState
  BY <1>0, <1>4, RunIs
<1>6. SettingsType /\ ThreadInv
  BY DEF SettingsInv
<1>7. a \in Argv
  <2>1. k.model \in Texts /\ k.effort \in Texts
    BY <1>5 DEF CallState
  <2> QED BY <1>2, <2>1 DEF PlanLaunch, Argv
<1>8. /\ argv' \in [Calls -> Argv \cup {None}] /\ argv'[c] = a
      /\ \A d \in Calls \ {c} : argv'[d] = argv[d]
  BY <1>3, <1>6, <1>7 DEF SettingsType
<1>9. call' = [call EXCEPT ![c].pc = pc, ![c].sid = k.sid]
  BY <1>0, <1>3, <1>5, <1>6 DEF SettingsType, CallState
<1>10. Grows /\ ThreadInv'
  BY <1>3, <1>6, NothingGrows DEF ThreadInv
<1>11. pc \in {"new", "store", "prompt", "done"} /\ pc # "store" /\ k.sid \in Sessions \cup Texts
  BY <1>1, <1>5 DEF CallState
<1>12. pc = "new" => k.load = Absent /\ k.known = Absent
  BY <1>1, <1>5 DEF OpenInv, PlanInv
<1>13. \A th \in Threads : c \in stored[th] => k.known = Absent
  BY <1>5 DEF OpenInv
<1>14. /\ thread' \in [Threads -> Thread \cup {None}]
       /\ rules' \in [Sessions -> Texts \cup {None}] /\ stored' \in [Threads -> SUBSET Calls]
  BY <1>3, <1>6 DEF SettingsType
<1>15. /\ pc = "new" => k.load = Absent
       /\ pc \in {"new", "store"} => k.known = Absent
       /\ pc = "store" => k.sid \in Sessions /\ rules'[k.sid] = k.instr
       /\ \A th \in Threads : c \in stored'[th] => k.known = Absent
  BY <1>3, <1>11, <1>12, <1>13
<1>16. \A d \in Calls \ {c} :
         /\ argv'[d] = argv[d] /\ (thread[d] = None => thread'[d] = None)
         /\ \A th \in Threads : d \in stored'[th] => d \in stored[th]
  BY <1>3, <1>8
<1>17. argv'[c] = PlanLaunch(k.req, k.model, k.effort)
  BY <1>2, <1>8
<1>18. pc \in {"new", "store", "prompt", "done"} /\ k.sid \in Sessions \cup Texts
  BY <1>11
<1>19. UNCHANGED <<turn, live, order, asked>>
  BY <1>3
<1>20. argv' \in [Calls -> Argv \cup {None}]
  BY <1>8
<1> QED BY <1>0, <1>4, <1>9, <1>10, <1>14, <1>15, <1>16, <1>17, <1>18, <1>19, <1>20, RunGoesOn

\* The agent opens a session.
LEMMA SessionNewKeeps ==
  ASSUME SettingsInv, NEW c \in Calls, SessionNew(c)
  PROVE  SettingsInv'
<1>0. PICK k : k = call[c]
  OBVIOUS
<1>1. PICK s \in Sessions : /\ rules[s] = None /\ rules' = [rules EXCEPT ![s] = k.instr]
                            /\ call' = [call EXCEPT ![c].pc = "store", ![c].sid = s]
  BY <1>0 DEF SessionNew
<1>2. k.pc = "new" /\ UNCHANGED <<thread, turn, live, order, asked, argv, stored>>
  BY <1>0 DEF SessionNew
<1>3. k.job # None
  BY <1>0, <1>2, RunHasJob
<1>4. OpenInv(k, c) /\ JobInv(k, c) /\ k \in CallState
  BY <1>0, <1>3, RunIs
<1>5. SettingsType /\ ThreadInv
  BY DEF SettingsInv
<1>6. /\ rules' \in [Sessions -> Texts \cup {None}] /\ rules'[s] = k.instr
      /\ \A x \in Sessions \ {s} : rules'[x] = rules[x]
  BY <1>1, <1>4, <1>5 DEF SettingsType, CallState
<1>7. Grows
  <2>1. \A t \in Threads : Position(t)' = Position(t)
    BY <1>2 DEF Position
  <2> QED BY <1>1, <1>2, <1>6, <2>1 DEF Grows
<1>8. ThreadInv'
  <2> SUFFICES ASSUME NEW th \in Threads, thread[th] # None, thread[th].sid \in Sessions
               PROVE  rules'[thread[th].sid] = thread[th].instr
    BY <1>2 DEF ThreadInv
  <2>1. thread[th].instr # None
    <3>1. thread[th] \in Thread
      BY <1>5 DEF SettingsType
    <3> QED BY <3>1, SettingsNoneAssumption DEF Thread
  <2>2. rules[thread[th].sid] = thread[th].instr
    BY <1>5 DEF ThreadInv
  <2> QED BY <1>1, <1>6, <2>1, <2>2
<1>9. /\ argv' \in [Calls -> Argv \cup {None}] /\ thread' \in [Threads -> Thread \cup {None}]
      /\ stored' \in [Threads -> SUBSET Calls]
  BY <1>2, <1>5 DEF SettingsType
<1>10. argv'[c] = None \/ argv'[c] = PlanLaunch(k.req, k.model, k.effort)
  BY <1>2, <1>4 DEF JobInv
<1>11. /\ k.known = Absent /\ s \in Sessions \cup Texts
       /\ "store" \in {"new", "store", "prompt", "done"}
  BY <1>2, <1>4 DEF OpenInv
<1> QED BY <1>0, <1>1, <1>2, <1>3, <1>6, <1>7, <1>8, <1>9, <1>10, <1>11, RunGoesOn

\* The thread of the turn of a run has the instructions the run has read.
LEMMA StoresItsOwn ==
  ASSUME SettingsInv, NEW c \in Calls, NEW k, k = call[c], k.job # None
  PROVE  /\ turn[k.job].thread \in Threads /\ thread[turn[k.job].thread] # None
         /\ thread[turn[k.job].thread].instr = k.instr
<1>1. /\ PlanInv(k, c) /\ JobInv(k, c) /\ OpenInv(k, c) /\ k.job \in Calls
      /\ turn[k.job] # None
  BY RunIs
<1>2. PICK t : t = k.job
  OBVIOUS
<1>3. SettingsType /\ TurnInv /\ t \in Threads /\ t \in Calls /\ turn[t] # None
  BY <1>1, <1>2 DEF SettingsInv, Threads
<1>4. turn[t].thread \in Threads /\ thread[turn[t].thread] # None
  <2>1. turn[t] \in Turn
    BY <1>3 DEF SettingsType
  <2>2. \A x \in Threads : turn[x] # None => thread[turn[x].thread] # None
    BY <1>3 DEF TurnInv
  <2> QED BY <1>3, <2>1, <2>2 DEF Turn
<1>5. PICK q : q = call[t]
  OBVIOUS
<1>6. q.job = t /\ turn[t].thread = q.thread /\ turn[t].key = q.req.key
  BY <1>3, <1>5 DEF TurnInv
<1>7. CASE t = c
  BY <1>1, <1>2, <1>4, <1>5, <1>6, <1>7 DEF PlanInv
<1>8. CASE t # c
  <2>1. k.req.path = "first" /\ turn[t].key # Absent
    BY <1>1, <1>2, <1>8 DEF JobInv
  <2>2. k.instr = ""
    BY <1>1, <2>1 DEF PlanInv
  <2>3. t # None
    BY <1>3, SettingsNoneAssumption
  <2>4. PlanInv(q, t) /\ OpenInv(q, t)
    BY <1>3, <1>5, <1>6, <2>3, RunIs
  <2>5. q.req.path = "first"
    BY <1>6, <2>1, <2>4 DEF OpenInv, PlanInv
  <2>6. q.instr = "" /\ q.instr = thread[q.thread].instr
    BY <2>4, <2>5 DEF PlanInv
  <2> QED BY <1>2, <1>4, <1>6, <2>2, <2>6
<1> QED BY <1>7, <1>8

\* The run stores its session.
LEMMA StoreSessionKeeps ==
  ASSUME SettingsInv, NEW c \in Calls, StoreSession(c)
  PROVE  SettingsInv'
<1>0. PICK k : k = call[c]
  OBVIOUS
<1>1. PICK th : th = turn[k.job].thread
  OBVIOUS
<1>2. /\ k.pc = "store" /\ thread' = [thread EXCEPT ![th].sid = k.sid]
      /\ stored' = [stored EXCEPT ![th] = @ \cup {c}]
      /\ call' = [call EXCEPT ![c].pc = "prompt"]
      /\ UNCHANGED <<turn, live, order, asked, argv, rules>>
  BY <1>0, <1>1 DEF StoreSession
<1>3. k.job # None
  BY <1>0, <1>2, RunHasJob
<1>4. OpenInv(k, c) /\ JobInv(k, c) /\ k \in CallState
  BY <1>0, <1>3, RunIs
<1>5. th \in Threads /\ thread[th] # None /\ thread[th].instr = k.instr
  BY <1>0, <1>1, <1>3, StoresItsOwn
<1>6. SettingsType /\ ThreadInv
  BY DEF SettingsInv
<1>7. k.known = Absent /\ k.sid \in Sessions /\ rules[k.sid] = k.instr
  BY <1>2, <1>4 DEF OpenInv
<1>8. PICK new : new = [thread[th] EXCEPT !.sid = k.sid]
  OBVIOUS
<1>9. thread[th] \in Thread
  BY <1>5, <1>6 DEF SettingsType
<1>10. /\ new \in Thread /\ new.sid = k.sid /\ new.instr = thread[th].instr
       /\ new.model = thread[th].model /\ new.approval = thread[th].approval
       /\ new.sandbox = thread[th].sandbox
  BY <1>7, <1>8, <1>9 DEF Thread
<1>11. new # None
  BY <1>10, SettingsNoneAssumption
<1>12. /\ thread' \in [Threads -> Thread \cup {None}] /\ thread'[th] = new
       /\ \A x \in Threads \ {th} : thread'[x] = thread[x]
  BY <1>2, <1>5, <1>6, <1>8, <1>10 DEF SettingsType
<1>13. Grows
  <2>1. \A t \in Threads : Position(t)' = Position(t)
    BY <1>2 DEF Position
  <2> QED BY <1>2, <1>10, <1>11, <1>12, <2>1 DEF Grows
<1>14. ThreadInv'
  BY <1>2, <1>5, <1>6, <1>7, <1>10, <1>12 DEF ThreadInv
<1>15. /\ stored' \in [Threads -> SUBSET Calls]
       /\ \A d \in Calls \ {c} : \A x \in Threads : d \in stored'[x] => d \in stored[x]
  BY <1>2, <1>5, <1>6 DEF SettingsType
<1>16. \A d \in Calls \ {c} : thread[d] = None => thread'[d] = None
  BY <1>5, <1>12 DEF Threads
<1>17. argv'[c] = None \/ argv'[c] = PlanLaunch(k.req, k.model, k.effort)
  BY <1>2, <1>4 DEF JobInv
<1>18. call' = [call EXCEPT ![c].pc = "prompt", ![c].sid = k.sid]
  BY <1>0, <1>2, <1>4, <1>6 DEF SettingsType, CallState
<1>19. argv' \in [Calls -> Argv \cup {None}] /\ rules' \in [Sessions -> Texts \cup {None}]
  BY <1>2, <1>6 DEF SettingsType
<1> QED BY <1>0, <1>2, <1>3, <1>7, <1>12, <1>13, <1>14, <1>15, <1>16, <1>17, <1>18, <1>19,
          RunGoesOn

\* A run ends.
LEMMA RunEndsKeeps ==
  ASSUME SettingsInv, NEW c \in Calls, RunEnds(c)
  PROVE  SettingsInv'
<1>0. PICK k : k = call[c]
  OBVIOUS
<1>1. /\ k.pc \in {"launch", "new", "store", "prompt"} /\ call' = [call EXCEPT ![c].pc = "done"]
      /\ UNCHANGED <<thread, turn, live, order, asked, argv, rules, stored>>
  BY <1>0 DEF RunEnds
<1>2. k.job # None
  BY <1>0, <1>1, RunHasJob
<1>3. OpenInv(k, c) /\ JobInv(k, c) /\ k \in CallState
  BY <1>0, <1>2, RunIs
<1>4. SettingsType /\ ThreadInv
  BY DEF SettingsInv
<1>5. call' = [call EXCEPT ![c].pc = "done", ![c].sid = k.sid]
  BY <1>0, <1>1, <1>3, <1>4 DEF SettingsType, CallState
<1>6. Grows /\ ThreadInv'
  BY <1>1, <1>4, NothingGrows DEF ThreadInv
<1>7. argv'[c] = None \/ argv'[c] = PlanLaunch(k.req, k.model, k.effort)
  BY <1>1, <1>3 DEF JobInv
<1>8. \A th \in Threads : c \in stored'[th] => k.known = Absent
  BY <1>1, <1>3 DEF OpenInv
<1>9. k.sid \in Sessions \cup Texts
  BY <1>3 DEF CallState
<1>10. /\ argv' \in [Calls -> Argv \cup {None}] /\ rules' \in [Sessions -> Texts \cup {None}]
       /\ thread' \in [Threads -> Thread \cup {None}] /\ stored' \in [Threads -> SUBSET Calls]
  BY <1>1, <1>4 DEF SettingsType
<1> QED BY <1>0, <1>1, <1>2, <1>5, <1>6, <1>7, <1>8, <1>9, <1>10, RunGoesOn

\* A turn ends, or nothing happens.
LEMMA TurnEndsKeeps ==
  ASSUME SettingsInv, live' \subseteq live,
         UNCHANGED <<thread, turn, order, call, asked, argv, rules, stored>>
  PROVE  SettingsInv'
<1>1. Grows
  BY NothingGrows
<1>2. SettingsType /\ TurnInv /\ ThreadInv
  BY DEF SettingsInv
<1>3. ASSUME NEW c \in Calls PROVE CallInv(c)'
  <2>1. Apart(c)
    BY DEF Apart
  <2> QED BY <1>1, <1>2, <2>1, CallStays DEF SettingsInv
<1>4. SettingsType' /\ ThreadInv'
  BY <1>2 DEF SettingsType, ThreadInv
<1>5. TurnInv'
  BY <1>2, TurnInvStays
<1> QED BY <1>3, <1>4, <1>5 DEF SettingsInv

-----------------------------------------------------------------------------
(***************************************************************************)
(* The invariant                                                           *)
(***************************************************************************)
\* At first there are the threads that were stored and calls that are idle.
LEMMA SettingsInit ==
  ASSUME Init
  PROVE  SettingsInv
<1>1. /\ live = {} /\ order = <<>> /\ call = [c \in Calls |-> Idle]
      /\ asked = [c \in Calls |-> None] /\ argv = [c \in Calls |-> None]
      /\ rules = [s \in Sessions |-> None] /\ stored = [th \in Threads |-> {}]
  BY DEF Init
<1>2. /\ DOMAIN thread = Threads
      /\ \A th \in Threads : thread[th] = IF th \in Stored THEN StoredThread[th] ELSE None
      /\ thread = [th \in Threads |-> thread[th]]
  BY DEF Init
<1>3. /\ turn = [t \in Threads |-> turn[t]]
      /\ \A t \in Threads :
           IF t \in HadTurn
           THEN turn[t] = [thread |-> t, model |-> StoredThread[t].model,
                           effort |-> StoredEffort[t], epoch |-> 0, key |-> Absent]
           ELSE turn[t] = None
  BY DEF Init
<1>4. \A th \in Stored : /\ th \in Threads /\ th \notin Calls /\ StoredThread[th] \in Thread
                         /\ StoredThread[th] # None /\ StoredThread[th].sid \notin Sessions
                         /\ StoredEffort[th] \in Texts /\ StoredThread[th].model \in Texts
                         /\ StoredEffort[th] \notin {" ", Alias, Bad}
  <2> SUFFICES ASSUME NEW th \in Stored
               PROVE  /\ th \in Threads /\ th \notin Calls /\ StoredThread[th] \in Thread
                      /\ StoredThread[th] # None /\ StoredThread[th].sid \notin Sessions
                      /\ StoredEffort[th] \in Texts /\ StoredThread[th].model \in Texts
                      /\ StoredEffort[th] \notin {" ", Alias, Bad}
    OBVIOUS
  <2>1. th \in Threads /\ th \notin Calls
    BY SettingsNamesAssumption DEF Threads
  <2>2. StoredThread[th] \in Thread
    BY SettingsStoredAssumption
  <2>3. StoredThread[th] # None
    BY <2>2, SettingsNoneAssumption
  <2>4. StoredThread[th].model \in Texts
    BY <2>2 DEF Thread
  <2>5. StoredEffort[th] \in Texts /\ StoredEffort[th] \notin {" ", Alias, Bad}
    BY SettingsStoredAssumption
  <2>6. StoredThread[th].sid \notin Sessions
    BY SettingsStoredAssumption
  <2> QED BY <2>1, <2>2, <2>3, <2>4, <2>5, <2>6
<1>5. \A t \in Threads :
        turn[t] # None => /\ t \in Stored /\ turn[t] \in Turn /\ turn[t].thread = t
                          /\ turn[t].effort = StoredEffort[t] /\ turn[t].key = Absent
  <2> SUFFICES ASSUME NEW t \in Threads, turn[t] # None
               PROVE  /\ t \in Stored /\ turn[t] \in Turn /\ turn[t].thread = t
                      /\ turn[t].effort = StoredEffort[t] /\ turn[t].key = Absent
    OBVIOUS
  <2>1. /\ t \in Stored
        /\ turn[t] = [thread |-> t, model |-> StoredThread[t].model,
                      effort |-> StoredEffort[t], epoch |-> 0, key |-> Absent]
    BY <1>3 DEF HadTurn
  <2>2. Absent \in Texts
    BY LaunchTextsAssumption
  <2>3. 0 \in 0..MaxNow
    BY SettingsBoundsAssumption
  <2>4. StoredThread[t].model \in Texts /\ StoredEffort[t] \in Texts
    BY <1>4, <2>1
  <2>5. turn[t] \in Turn
    BY <2>1, <2>2, <2>3, <2>4 DEF Turn
  <2> QED BY <2>1, <2>5
<1>6. \A c \in Calls : c \in Threads /\ c \notin Stored /\ thread[c] = None /\ turn[c] = None
  BY <1>2, <1>4, <1>5 DEF Threads
<1>7. /\ Idle \in CallState /\ Idle.pc = "idle" /\ Idle.req = None /\ Idle.thread = None
      /\ Idle.job = None /\ Idle.known = Absent
  BY LaunchTextsAssumption DEF Idle, CallState, PcLabels
<1>8. SettingsType
  <2>1. thread \in [Threads -> Thread \cup {None}]
    BY <1>2, <1>4
  <2>2. turn \in [Threads -> Turn \cup {None}]
    BY <1>3, <1>5
  <2> QED BY <1>1, <1>7, <2>1, <2>2 DEF SettingsType
<1>9. TurnInv
  <2>1. \A t \in Threads :
          turn[t] # None => /\ thread[turn[t].thread] # None
                            /\ turn[t].effort \notin {" ", Alias, Bad}
    <3> SUFFICES ASSUME NEW t \in Threads, turn[t] # None
                 PROVE  /\ thread[turn[t].thread] # None
                        /\ turn[t].effort \notin {" ", Alias, Bad}
      OBVIOUS
    <3>1. t \in Stored /\ turn[t].thread = t /\ turn[t].effort = StoredEffort[t]
      BY <1>5
    <3>2. thread[t] = StoredThread[t]
      BY <1>2, <3>1
    <3> QED BY <1>4, <3>1, <3>2
  <2>2. \A t \in Stored : turn[t] # None => turn[t].thread = t /\ turn[t].key = Absent
    BY <1>4, <1>5
  <2>3. DOMAIN order = {}
    BY <1>1
  <2> QED BY <1>1, <1>6, <2>1, <2>2, <2>3 DEF TurnInv
<1>10. ThreadInv
  BY <1>2, <1>4 DEF ThreadInv
<1>11. ASSUME NEW c \in Calls PROVE CallInv(c)
  <2>1. call[c] = Idle /\ asked[c] = None /\ argv[c] = None /\ thread[c] = None
    BY <1>1, <1>6
  <2>2. JobInv(Idle, c) /\ ResumeInv(Idle, c)
    BY <1>7, <2>1 DEF JobInv, ResumeInv
  <2>3. OpenInv(Idle, c)
    BY <1>1, <1>7 DEF OpenInv
  <2> QED BY <1>7, <2>1, <2>2, <2>3 DEF CallInv
<1> QED BY <1>8, <1>9, <1>10, <1>11 DEF SettingsInv

\* Every step keeps the invariant.
LEMMA SettingsNext ==
  ASSUME SettingsInv, [Next]_vars
  PROVE  SettingsInv'
<1>1. ASSUME NEW c \in Calls, NEW p \in Params,
             WorkerStart(c, p) \/ GrokSpawn(c, p) \/ ThreadStart(c, p)
      PROVE  SettingsInv'
  BY <1>1, StartKeeps, ThreadStartKeeps
<1>2. ASSUME NEW c \in Calls, NEW p \in Params, NEW th \in Threads,
             \/ WorkerFollowup(c, p, th) \/ GrokFollowup(c, p, th)
             \/ TurnStart(c, p, th) \/ ThreadResume(c, p, th)
      PROVE  SettingsInv'
  BY <1>2, FollowupKeeps, TurnStartKeeps, ThreadResumeKeeps
<1>3. ASSUME NEW c \in Calls,
             \/ Preamble(c) \/ Admit(c) \/ Spawn(c) \/ SessionNew(c)
             \/ StoreSession(c) \/ RunEnds(c)
      PROVE  SettingsInv'
  BY <1>3, PreambleKeeps, AdmitKeeps, SpawnKeeps, SessionNewKeeps, StoreSessionKeeps,
     RunEndsKeeps
<1>4. ASSUME NEW c \in Calls, TurnEnds(c) PROVE SettingsInv'
  <2>1. live' \subseteq live
    BY <1>4 DEF TurnEnds
  <2> QED BY <1>4, <2>1, TurnEndsKeeps DEF TurnEnds
<1>5. CASE UNCHANGED vars
  <2>1. live' \subseteq live
    BY <1>5 DEF vars
  <2> QED BY <1>5, <2>1, TurnEndsKeeps DEF vars
<1> QED BY <1>1, <1>2, <1>3, <1>4, <1>5 DEF Next

\* The invariant holds in every state.
THEOREM SettingsInvariant == Spec => []SettingsInv
<1>1. Init => SettingsInv
  BY SettingsInit
<1>2. SettingsInv /\ [Next]_vars => SettingsInv'
  BY SettingsNext
<1> QED BY <1>1, <1>2, PTL DEF Spec

-----------------------------------------------------------------------------
(***************************************************************************)
(* What the invariant says of the properties                               *)
(***************************************************************************)
\* The command line of an agent is the plan its run has made.
LEMMA AgentIs ==
  ASSUME SettingsInv, NEW c \in Calls, argv[c] # None, NEW k, k = call[c]
  PROVE  /\ PlanInv(k, c) /\ k \in CallState /\ k.job # None /\ k.thread \in Threads
         /\ argv[c].model = k.model /\ argv[c].effort = k.effort
         /\ argv[c].always <=> k.req.approval = "never"
<1>1. JobInv(k, c)
  BY DEF SettingsInv, CallInv
<1>2. k.job # None /\ argv[c] = PlanLaunch(k.req, k.model, k.effort)
  BY <1>1 DEF JobInv
<1>3. PlanInv(k, c) /\ k \in CallState /\ k.thread \in Threads
  BY <1>2, RunIs
<1>4. argv[c].model = k.model /\ argv[c].effort = k.effort
  BY <1>2 DEF PlanLaunch
<1>5. argv[c].always <=> k.req.approval = "never"
  <2>1. PICK b : b = (k.req.approval = "never")
    OBVIOUS
  <2>2. argv[c] = [always |-> b, sandbox |-> "workspace", model |-> k.model,
                   effort |-> k.effort]
    BY <1>2, <2>1, Zenon DEF PlanLaunch
  <2>3. argv[c].always = b
    BY <2>2
  <2>4. CASE k.req.approval = "never"
    <3>1. b = TRUE
      BY <2>1, <2>4
    <3> QED BY <2>3, <2>4, <3>1
  <2>5. CASE k.req.approval # "never"
    <3>1. b = FALSE
      BY <2>1, <2>5
    <3> QED BY <2>3, <2>5, <3>1
  <2> QED BY <2>4, <2>5
<1> QED BY <1>2, <1>3, <1>4, <1>5

\* The types of Settings: the turns in progress are on disk, a run that has an
\* agent has a turn, whose thread is on disk, and no refusal is on a command line
\* (run_turn_async, plan_launch).
THEOREM SettingsTypes == Spec => []TypeOK
<1>1. SettingsInv => TypeOK
  <2> SUFFICES ASSUME SettingsInv PROVE TypeOK
    OBVIOUS
  <2>1. SettingsType /\ TurnInv
    BY DEF SettingsInv
  <2>2. live \subseteq {t \in Calls : turn[t] # None}
    BY <2>1 DEF TurnInv
  <2>3. \A t \in Calls : turn[t] # None => thread[turn[t].thread] # None
    BY <2>1 DEF TurnInv, Threads
  <2>4. /\ \A th \in Threads : thread[th] = None \/ thread[th] \in Thread
        /\ \A t \in Threads : turn[t] = None \/ turn[t] \in Turn
    BY <2>1 DEF SettingsType
  <2>5. ASSUME NEW c \in Calls
        PROVE  /\ call[c].pc \in PcLabels /\ call[c].thread \in Threads \cup {None}
               /\ call[c].job \in Calls \cup {None}
               /\ call[c].pc \in {"launch", "new", "store", "prompt"} =>
                    turn[call[c].job] # None
               /\ argv[c] # None => argv[c].model # Bad /\ argv[c].effort # Bad
    <3>1. PICK k : k = call[c]
      OBVIOUS
    <3>2. k \in CallState
      BY <2>1, <3>1 DEF SettingsType
    <3>3. k.pc \in PcLabels /\ k.thread \in Threads \cup {None} /\ k.job \in Calls \cup {None}
      BY <3>2 DEF CallState
    <3>4. k.pc \in {"launch", "new", "store", "prompt"} => turn[k.job] # None
      BY <3>1, RunHasJob, RunIs
    <3>5. argv[c] # None => argv[c].model # Bad /\ argv[c].effort # Bad
      <4> SUFFICES ASSUME argv[c] # None PROVE argv[c].model # Bad /\ argv[c].effort # Bad
        OBVIOUS
      <4>1. PlanInv(k, c) /\ argv[c].model = k.model /\ argv[c].effort = k.effort
        BY <3>1, AgentIs
      <4> QED BY <4>1 DEF PlanInv, Clean
    <3> QED BY <3>1, <3>3, <3>4, <3>5
  <2> QED BY <2>2, <2>3, <2>4, <2>5 DEF TypeOK
<1> QED BY <1>1, SettingsInvariant, PTL

\* The model of a thread is frozen: the agent that drives a turn, whichever facade
\* starts it and whatever config.yaml says by then, has the model the thread of
\* that turn was made with, unless its spawn was a duplicate and it has the model
\* of the thread its call made; and neither a blank text nor the alias is on a
\* command line (resolve_follow_up and resolve_first_turn of defaults.rs).
THEOREM AgentHasTheFrozenModel == Spec => []ModelIsFrozen
<1>1. SettingsInv => ModelIsFrozen
  <2> SUFFICES ASSUME SettingsInv, NEW c \in Calls, argv[c] # None
               PROVE  LET own == IF Duplicate(c) THEN c ELSE turn[call[c].job].thread
                      IN /\ {argv[c].model, argv[c].effort} \cap {"", " ", Alias, Bad} = {}
                         /\ argv[c].model = NormalizePresent(thread[own].model)
                         /\ ~Duplicate(c) => turn[c].model = argv[c].model
    BY DEF ModelIsFrozen
  <2>1. PICK k : k = call[c]
    OBVIOUS
  <2>2. /\ PlanInv(k, c) /\ argv[c].model = k.model /\ argv[c].effort = k.effort
        /\ k.job # None
    BY <2>1, AgentIs
  <2>3. {argv[c].model, argv[c].effort} \cap {"", " ", Alias, Bad} = {}
    BY <2>2 DEF PlanInv, Clean
  <2>4. argv[c].model = NormalizePresent(thread[k.thread].model)
    BY <2>2 DEF PlanInv
  <2>5. CASE ~Duplicate(c)
    <3>1. k.job = c
      BY <2>1, <2>2, <2>5 DEF Duplicate
    <3>2. turn[c] # None
      BY <2>1, <2>2, <3>1, RunIs
    <3>3. turn[c].model = k.model /\ turn[c].thread = k.thread
      BY <2>1, <3>2 DEF SettingsInv, TurnInv
    <3> QED BY <2>1, <2>2, <2>3, <2>4, <2>5, <3>1, <3>3
  <2>6. CASE Duplicate(c)
    \* Only a first turn has a key, and its call has made a thread.
    <3>1. JobInv(k, c) /\ k.job # c
      BY <2>1, <2>6 DEF SettingsInv, CallInv, Duplicate
    <3>2. k.thread = c
      BY <2>2, <3>1 DEF JobInv, PlanInv
    <3> QED BY <2>3, <2>4, <2>6, <3>2
  <2> QED BY <2>5, <2>6
<1> QED BY <1>1, SettingsInvariant, PTL

\* The policies in force: an agent is started only where the sandbox that was
\* named last can be enforced, and it approves by itself only if the policy named
\* last is never (turn_start and plan_launch, which fail closed), named to the
\* call that starts the agent or on the thread of that call.
THEOREM AgentHasThePolicyInForce == Spec => []PolicyIsInForce
<1>1. SettingsInv => PolicyIsInForce
  <2> SUFFICES ASSUME SettingsInv, NEW c \in Calls, argv[c] # None
               PROVE  LET th == thread[call[c].thread]
                          turnStart == asked[c] # None
                      IN /\ argv[c].always <=>
                              "never" = IF turnStart THEN InForce(asked[c].approval, th.approval)
                                        ELSE th.approval
                         /\ IF turnStart /\ asked[c].sandbox # Absent
                            THEN asked[c].sandbox = "workspaceWrite"
                            ELSE th.sandbox = "workspace-write"
    BY DEF PolicyIsInForce
  <2>1. PICK k : k = call[c]
    OBVIOUS
  <2>2. PICK rec : rec = thread[k.thread]
    OBVIOUS
  <2>3. PICK said : said = asked[c]
    OBVIOUS
  <2>4. /\ PlanInv(k, c) /\ k.thread \in Threads
        /\ argv[c].always <=> k.req.approval = "never"
    BY <2>1, AgentIs
  <2>5. Told(k.req, said, rec) /\ k.req.sandbox # "read-only" /\ rec # None
    BY <2>2, <2>3, <2>4 DEF PlanInv, PlanRefuses
  <2>6. rec.sandbox \in Sandboxes
    <3>1. rec \in Thread
      BY <2>2, <2>4, <2>5 DEF SettingsInv, SettingsType
    <3> QED BY <3>1 DEF Thread
  <2>7. k.req.approval = IF said # None THEN InForce(said.approval, rec.approval)
                         ELSE rec.approval
    BY <2>5 DEF Told
  <2>8. IF said # None /\ said.sandbox # Absent THEN said.sandbox = "workspaceWrite"
        ELSE rec.sandbox = "workspace-write"
    BY <2>5, <2>6 DEF Told, Sandboxes
  <2> QED BY <2>1, <2>2, <2>3, <2>4, <2>7, <2>8
<1> QED BY <1>1, SettingsInvariant, PTL

\* The instructions of a thread are frozen: the session it has was opened with the
\* rules thread/start stored, even if the run that opened it was given the turn of
\* another spawn, and no thread/resume was granted with others (session/new in
\* turn.rs, set_acp_session_id, thread_resume).
THEOREM SessionHasTheFrozenRules == Spec => []RulesAreFrozen
<1>1. SettingsInv => RulesAreFrozen
  <2> SUFFICES ASSUME SettingsInv, NEW th \in Threads, thread[th] # None
               PROVE  /\ thread[th].sid \in Sessions => rules[thread[th].sid] = thread[th].instr
                      /\ \A c \in Calls :
                           asked[c] # None /\ call[c].pc = "done" /\ call[c].req = None
                             /\ call[c].thread = th /\ asked[c].instr \notin {Absent, Null}
                             => asked[c].instr = thread[th].instr
    BY DEF RulesAreFrozen
  <2>1. thread[th].sid \in Sessions => rules[thread[th].sid] = thread[th].instr
    BY DEF SettingsInv, ThreadInv
  <2>2. th # None
    BY SettingsNoneAssumption
  <2>3. \A c \in Calls : ResumeInv(call[c], c)
    BY DEF SettingsInv, CallInv
  <2> QED BY <2>1, <2>2, <2>3 DEF ResumeInv
<1> QED BY <1>1, SettingsInvariant, PTL

\* The turn of a thread that was admitted last before that of a call.
LEMMA LastIs ==
  ASSUME SettingsType, TurnInv, NEW c \in Calls, turn[c] # None, Before(c) # {}
  PROVE  /\ LastBefore(c) \in Before(c)
         /\ \A u \in Before(c) : Position(u) <= Position(LastBefore(c))
<1>1. PICK b : b = Before(c)
  OBVIOUS
<1>2. c \in Threads
  BY DEF Threads
<1>3. PICK m \in Nat : m = Position(c)
  BY <1>2, Positions
<1>4. \A u \in b : Position(u) \in Nat /\ Position(u) <= m
  <2> SUFFICES ASSUME NEW u \in b PROVE Position(u) \in Nat /\ Position(u) <= m
    OBVIOUS
  <2>1. u \in Threads /\ turn[u] # None /\ Position(u) < m
    BY <1>1, <1>3 DEF Before, TurnsOf
  <2>2. Position(u) \in Nat
    BY <2>1, Positions
  <2> QED BY <2>1, <2>2
<1>5. \E t \in b : \A u \in b : Position(u) <= Position(t)
  <2> DEFINE P == {Position(u) : u \in b}
  <2>1. P # {} /\ \A x \in P : x \in Nat /\ x <= m
    BY <1>1, <1>4
  <2> HIDE DEF P
  <2>2. PICK x \in P : \A y \in P : y <= x
    BY <2>1, Greatest
  <2>3. PICK t \in b : x = Position(t)
    BY DEF P
  <2>4. \A u \in b : Position(u) <= Position(t)
    BY <2>2, <2>3 DEF P
  <2> QED BY <2>4
<1> QED BY <1>1, <1>5 DEF LastBefore

\* Where clock or ids tell the order of two turns, the one admitted later is later.
LEMMA ToldIsLater ==
  ASSUME SettingsType, TurnInv, NEW th, NEW u \in TurnsOf(th), NEW last \in TurnsOf(th),
         u # last, Position(u) <= Position(last),
         \/ turn[u].epoch < turn[last].epoch
         \/ turn[u].epoch = turn[last].epoch /\ Pid[u] = Pid[last]
  PROVE  Later(last, u)
<1>1. u \in Threads /\ turn[u] # None /\ last \in Threads /\ turn[last] # None
  BY DEF TurnsOf
<1>2. turn[u].epoch \in Nat /\ turn[last].epoch \in Nat
  <2>1. turn[u] \in Turn /\ turn[last] \in Turn
    BY <1>1 DEF SettingsType
  <2> QED BY <2>1, SettingsBoundsAssumption DEF Turn
<1>3. Position(u) \in Nat /\ Position(last) \in Nat
  BY <1>1, Positions
<1>4. Position(u) # Position(last)
  BY PositionsDiffer
<1> QED BY <1>2, <1>3, <1>4 DEF Later, IdLess

\* A turn that names no effort goes on with that of the turn admitted before it,
\* if its run has seen that turn and clock or ids tell the order of the turns
\* (previous_effort and list_turns of the ledger).
THEOREM TurnKeepsTheEffort == Spec => []EffortIsPrevious
<1>1. SettingsInv => EffortIsPrevious
  <2> SUFFICES ASSUME SettingsInv, NEW c \in Calls,
                      turn[c] # None, Before(c) # {}, call[c].req.effort = "",
                      LastBefore(c) \in call[c].saw, turn[LastBefore(c)].effort # "",
                      \A u \in Before(c) \ {LastBefore(c)} :
                        \/ turn[u].epoch < turn[LastBefore(c)].epoch
                        \/ /\ turn[u].epoch = turn[LastBefore(c)].epoch
                           /\ Pid[u] = Pid[LastBefore(c)]
               PROVE  turn[c].effort = turn[LastBefore(c)].effort
    BY DEF EffortIsPrevious
  <2>1. PICK k : k = call[c]
    OBVIOUS
  <2>2. SettingsType /\ TurnInv /\ c \in Threads /\ c # None
    BY SettingsNoneAssumption DEF SettingsInv, Threads
  <2>3. k.job = c /\ turn[c].thread = k.thread /\ turn[c].effort = k.effort
    BY <2>1, <2>2 DEF TurnInv
  <2>4. SawInv(k, c)
    BY <2>1, <2>2, <2>3, RunIs
  <2>5. PICK last : last = LastBefore(c)
    OBVIOUS
  <2>6. last \in Before(c) /\ \A u \in Before(c) : Position(u) <= Position(last)
    BY <2>2, <2>5, LastIs
  <2>7. ASSUME NEW u \in k.saw, u # last PROVE Later(last, u)
    <3>1. u \in Threads \ {c} /\ turn[u] # None /\ turn[u].thread = turn[c].thread
      BY <2>3, <2>4 DEF SawInv
    <3>2. Position(u) < Position(c)
      BY <2>4 DEF SawInv
    <3>3. u \in Before(c)
      BY <3>1, <3>2 DEF Before, TurnsOf
    <3>4. \/ turn[u].epoch < turn[last].epoch
          \/ turn[u].epoch = turn[last].epoch /\ Pid[u] = Pid[last]
      BY <2>5, <2>7, <3>3
    <3>5. PICK th : th = turn[c].thread
      OBVIOUS
    <3>6. u \in TurnsOf(th) /\ last \in TurnsOf(th)
      BY <2>6, <3>3, <3>5 DEF Before
    <3> QED BY <2>2, <2>6, <2>7, <3>3, <3>4, <3>6, ToldIsLater
  <2>8. k.effort = turn[last].effort
    BY <2>1, <2>4, <2>5, <2>7 DEF SawInv
  <2> QED BY <2>3, <2>5, <2>8
<1> QED BY <1>1, SettingsInvariant, PTL

\* A session a thread has is replaced only by a run that found the thread without
\* one, or that was given the turn of another spawn (StoreSession after Spawn:
\* session/load if there is a session, session/new if there is none).
THEOREM ThreadKeepsItsSession == Spec => []SessionIsKept
<1>1. SettingsInv => SessionIsKept
  <2> SUFFICES ASSUME SettingsInv, NEW th \in Threads, NEW c \in stored[th]
               PROVE  call[c].known = Absent
    BY DEF SessionIsKept
  <2>1. c \in Calls
    BY DEF SettingsInv, SettingsType
  <2>2. OpenInv(call[c], c)
    BY <2>1 DEF SettingsInv, CallInv
  <2> QED BY <2>2 DEF OpenInv
<1> QED BY <1>1, SettingsInvariant, PTL
=============================================================================
