----------------------------- MODULE MCSettings -----------------------------
(***************************************************************************)
(* Settings for TLC.                                                       *)
(***************************************************************************)
EXTENDS Settings, TLC

CONSTANTS c1, c2, old, idle, s1, s2

SessionSymmetry == Permutations({s1, s2})

\* A thread from before models and efforts were chosen, with a session, and
\* one that thread/start has made with instructions and no turn has used.
SomeThread ==
  (old :> [cwd |-> "abs", model |-> "grok", approval |-> "never",
           sandbox |-> "workspace-write", instr |-> "", sid |-> "s0"])
  @@
  (idle :> [cwd |-> "abs", model |-> "m", approval |-> "untrusted",
            sandbox |-> "read-only", instr |-> "be brief", sid |-> Absent])

SomeEffort == (old :> "") @@ (idle :> Absent)

AnyText == STRING

\* The turn of the old thread was admitted by the process with the highest pid.
SomePid == (c1 :> 1) @@ (c2 :> 2) @@ (idle :> 0) @@ (old :> 3)

Base == [model |-> Absent, effort |-> Absent, approval |-> Absent,
         sandbox |-> Absent, instr |-> Absent, extra |-> FALSE,
         cwd |-> Absent, home |-> Absent, key |-> Absent, prompt |-> "p"]

\* What parents send: the base, and one field or two of it in another way.
SomeParams ==
  {Base, [Base EXCEPT !.extra = TRUE], [Base EXCEPT !.model = " "],
   [Base EXCEPT !.key = "k"],
   [Base EXCEPT !.key = "k", !.model = "m"]}
  \cup {[Base EXCEPT !.effort = v] : v \in {" low ", Json}}
  \cup {[Base EXCEPT !.sandbox = v] : v \in {"workspaceWrite", "readOnly"}}
  \cup {[Base EXCEPT !.sandbox = "read-only", !.approval = v] :
          v \in {Absent, "always"}}
  \cup {[Base EXCEPT !.sandbox = "workspaceWrite", !.approval = "never"]}
  \cup {[Base EXCEPT !.instr = v] : v \in {"be brief", "", " "}}
  \cup {[Base EXCEPT !.cwd = "relative"], [Base EXCEPT !.home = "relative"]}
  \cup {[Base EXCEPT !.prompt = v] : v \in {Absent, ""}}

\* No file, a default for the model with a blank one for the effort, which
\* matters only where it is used, and a file that is not flat.
SomeFiles ==
  {<<>>,
   <<[key |-> "default_model", value |-> "'m'"],
     [key |-> "default_effort", value |-> " "]>>,
   <<[key |-> "other", value |-> "x"]>>}
=============================================================================
