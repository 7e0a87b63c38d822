------------------------------- MODULE Launch -------------------------------
(***************************************************************************)
(* What a parent's words become: the home, the defaults of config.yaml,    *)
(* model and effort, policies, instructions and the agent's command line.  *)
(* Pure functions of crates/adapter-grok/src/{defaults,launch}.rs,         *)
(* crates/core/src/{home,source_wire}.rs, crates/gamchi/src/ops.rs and the *)
(* parsers of worker.rs, mcp.rs and app_server.rs.                         *)
(*                                                                         *)
(* Texts has the texts there are.  Absent is a field, flag or key that is  *)
(* not there, Null the null of JSON and Json any other value of it that is *)
(* not a string; Bad is the refusal.                                       *)
(***************************************************************************)
EXTENDS Naturals, Sequences

CONSTANT Texts

Absent == "absent"
Null == "null"
Json == "json"
Bad == "INVALID_CONFIG"

Alias == "grok"
BuiltinModel == "grok-4.6"
BuiltinEffort == "high"

\* The texts with blanks around them and the quoted ones that occur.
Trim(v) == IF v = " " THEN ""
           ELSE IF v = " low " THEN "low"
           ELSE v

Unquote(v) == IF v = "'m'" THEN "m" ELSE v

-----------------------------------------------------------------------------
(***************************************************************************)
(* home.rs and defaults.rs                                                 *)
(***************************************************************************)
RequireAbsolute(path) == IF path \in {"", "relative"} THEN Bad ELSE path

\* HOME has to be set, also where it is not used.
ResolveHome(explicit, env, user) ==
  IF user = Absent THEN Bad
  ELSE IF explicit # Absent THEN RequireAbsolute(explicit)
  ELSE IF env \notin {Absent, ""} THEN RequireAbsolute(env)
  ELSE IF user = "relative" THEN Bad
  ELSE user

\* The file as its lines.  No file is no line; a line that is indented, a list
\* or without a colon, and a file that cannot be read, is a line without a key.
Line == [key : {"default_model", "default_effort", "other", ""},
         value : Texts]

Malformed(file) ==
  \E i \in DOMAIN file :
    \/ file[i].key \in {"", "other"}
    \/ \E j \in 1..(i - 1) : file[j].key = file[i].key

DefaultOf(file, key) ==
  IF \E i \in DOMAIN file : file[i].key = key
  THEN Unquote(Trim(file[CHOOSE i \in DOMAIN file : file[i].key = key].value))
  ELSE Absent

PresentField(raw) == IF raw = "" THEN Absent ELSE raw

\* The alias is replaced in models and in efforts alike.
NormalizePresent(raw) ==
  IF Trim(raw) = "" THEN Bad
  ELSE IF Trim(raw) = Alias THEN BuiltinModel ELSE Trim(raw)

ResolveLayer(explicit, default, builtin) ==
  IF explicit # Absent THEN NormalizePresent(explicit)
  ELSE IF default # Absent THEN NormalizePresent(default)
  ELSE builtin

ResolveFirstTurn(model, effort, file) ==
  [model |-> ResolveLayer(PresentField(model),
                          DefaultOf(file, "default_model"), BuiltinModel),
   effort |-> ResolveLayer(PresentField(effort),
                           DefaultOf(file, "default_effort"), BuiltinEffort)]

\* Mutant: an omitted model is resolved again.
ResolveFollowUpAgain(model, effort, frozen, previous, file) ==
  LET r == ResolveFirstTurn(model, effort, file)
  IN [r EXCEPT !.effort = IF effort = "" /\ previous # "" THEN previous ELSE @]

ResolveFollowUp(model, effort, frozen, previous, file) ==
  [model |-> LET thread == NormalizePresent(frozen)
             IN IF PresentField(model) = Absent \/ NormalizePresent(model) = thread
                THEN thread ELSE Bad,
   effort |-> IF PresentField(effort) = Absent /\ previous # "" THEN previous
              ELSE ResolveLayer(PresentField(effort),
                                DefaultOf(file, "default_effort"), BuiltinEffort)]

-----------------------------------------------------------------------------
(***************************************************************************)
(* source_wire.rs: closed vocabularies.  The facades take a value that is  *)
(* not a string for an absent one (and_then(Value::as_str)).               *)
(***************************************************************************)
Policies == {"untrusted", "on-request", "never"}
Sandboxes == {"read-only", "workspace-write"}

ASSUME LaunchTextsAssumption ==
  {"", " ", "low", "m", "here", "first", "followUp", "reuse", Absent, Null, Json,
   Bad, Alias, BuiltinModel, BuiltinEffort} \cup Policies \cup Sandboxes \subseteq Texts

\* Mutant: a name that is not known is passed on.
ParseOpen(v, vocabulary, default) == IF v \in {Absent, Null, Json} THEN default ELSE v

Parse(v, vocabulary, default) ==
  IF v \in {Absent, Null, Json} THEN default
  ELSE IF v \in vocabulary THEN v ELSE Bad

\* sandboxPolicy.type of turn/start has names of its own and no default.
ToThreadSandbox(v) ==
  IF v = "readOnly" THEN "read-only"
  ELSE IF v = "workspaceWrite" THEN "workspace-write"
  ELSE Bad

\* optional_text_field of the JSON facades, --model and --effort of the CLI.
TextField(v) == IF v \in {Absent, Null} THEN ""
                ELSE IF v = Json \/ Trim(v) = "" THEN Bad
                ELSE v

\* developerInstructions: exact, never trimmed.
StartInstructions(v) == IF v \in {Absent, Null, ""} THEN ""
                        ELSE IF v = Json \/ Trim(v) = "" THEN Bad
                        ELSE v

ResumeInstructions(v, stored) ==
  v \in {Absent, Null} \/ (v = stored /\ (v = "" \/ Trim(v) # ""))

-----------------------------------------------------------------------------
(***************************************************************************)
(* The requests of the facades.  A field that is Bad refuses the call, and *)
(* before that nothing is written.                                         *)
(***************************************************************************)
Refused(request) == \E f \in DOMAIN request : request[f] = Bad

Extras(p) == IF p.extra THEN Bad ELSE ""

\* The current directory of the process is absolute.
Cwd(v) == IF v \in {Absent, Null, Json} THEN "here" ELSE v

Prompt(p) == IF p.prompt \in {Absent, Json} THEN Bad ELSE p.prompt

\* The CLI has no flag for these.
Flags(p) == IF p.extra \/ {p.sandbox, p.instr, p.key} # {Absent} THEN Bad ELSE ""

\* worker start: the sandbox is fixed, and a relative --cwd is not looked at.
WorkerStartRequest(p, home) ==
  [path |-> "first", home |-> home, flags |-> Flags(p), cwd |-> Cwd(p.cwd),
   prompt |-> IF p.prompt = "" THEN Bad ELSE Prompt(p),
   approval |-> Parse(p.approval, Policies, "never"),
   sandbox |-> "workspace-write",
   model |-> TextField(p.model), effort |-> TextField(p.effort),
   key |-> Absent]

\* grok_spawn.
SpawnRequest(p, home) ==
  [path |-> "first", home |-> home, extra |-> Extras(p),
   cwd |-> RequireAbsolute(Cwd(p.cwd)), prompt |-> Prompt(p),
   approval |-> Parse(p.approval, Policies, "never"),
   sandbox |-> Parse(p.sandbox, Sandboxes, "workspace-write"),
   model |-> TextField(p.model), effort |-> TextField(p.effort),
   key |-> p.key]

\* worker followup and grok_followup: the policies are the thread's.  Only the
\* CLI may name another cwd; its --approval-policy is parsed and not used.
FollowupRequest(p, thread, cli, home) ==
  [path |-> IF thread.sid = Absent THEN Bad ELSE "followUp", home |-> home,
   flags |-> IF cli THEN Flags(p) ELSE "",
   cwd |-> IF cli /\ p.cwd # Absent THEN p.cwd ELSE thread.cwd,
   prompt |-> IF cli /\ p.prompt = "" THEN Bad ELSE Prompt(p),
   approval |-> IF cli /\ Parse(p.approval, Policies, "never") = Bad THEN Bad
                ELSE thread.approval,
   sandbox |-> thread.sandbox,
   model |-> TextField(p.model), effort |-> TextField(p.effort),
   key |-> Absent]

\* Mutant: what turn/start does not name is the default of thread/start.
TurnRequestDefaults(p, thread) ==
  [path |-> IF thread.sid = Absent THEN "reuse" ELSE "followUp",
   extra |-> Extras(p), cwd |-> thread.cwd, prompt |-> Prompt(p),
   instr |-> IF p.instr = Absent THEN "" ELSE Bad,
   approval |-> Parse(p.approval, Policies, "never"),
   sandbox |-> IF p.sandbox = Absent THEN thread.sandbox
               ELSE ToThreadSandbox(p.sandbox),
   model |-> TextField(p.model), effort |-> TextField(p.effort),
   key |-> Absent]

\* turn/start: session/load if the thread has a session, session/new if not.
TurnRequest(p, thread) ==
  [path |-> IF thread.sid = Absent THEN "reuse" ELSE "followUp",
   extra |-> Extras(p), cwd |-> thread.cwd, prompt |-> Prompt(p),
   instr |-> IF p.instr = Absent THEN "" ELSE Bad,
   approval |-> Parse(p.approval, Policies, thread.approval),
   sandbox |-> IF p.sandbox = Absent THEN thread.sandbox
               ELSE ToThreadSandbox(p.sandbox),
   model |-> TextField(p.model), effort |-> TextField(p.effort),
   key |-> Absent]

\* thread/start: what it will store.
ThreadRequest(p, file) ==
  [extra |-> Extras(p), cwd |-> RequireAbsolute(Cwd(p.cwd)),
   model |-> IF Malformed(file) \/ TextField(p.model) = Bad THEN Bad
             ELSE ResolveFirstTurn(TextField(p.model), "", file).model,
   effort |-> ResolveFirstTurn("", "", file).effort,
   sandbox |-> Parse(p.sandbox, Sandboxes, "read-only"),
   approval |-> Parse(p.approval, Policies, "untrusted"),
   instr |-> StartInstructions(p.instr)]

-----------------------------------------------------------------------------
\* plan_launch fails closed: no verified profile denies workspace writes.
\* (The facades have refused the extra fields before.)
PlanRefuses(request) == request.sandbox = "read-only" \/ request.cwd = "relative"

PlanLaunch(request, model, effort) ==
  [always |-> request.approval = "never", sandbox |-> "workspace",
   model |-> model, effort |-> effort]
=============================================================================
