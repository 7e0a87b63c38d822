------------------------------ MODULE MCMapper ------------------------------
(***************************************************************************)
(* Mapper for TLC: two tool calls whose ids are sanitized to one and a     *)
(* third one, with updates of every sort.                                  *)
(***************************************************************************)
EXTENDS Mapper

Sanitized == [c \in Calls |-> IF c = "x/y" THEN "x_y" ELSE c]

Call(c, kind, text, raw, s) == [what |-> "call", call |-> c, kind |-> kind,
                                text |-> text, raw |-> raw, status |-> s]
Change(c, kind, text, s) == [what |-> "update", call |-> c, kind |-> kind,
                             text |-> text, status |-> s]

SomeUpdates ==
  {[what |-> w, text |-> "other"] : w \in {"chunk", "plan", "thought"}}
  \cup {Call("x/y", "edit", "other", "none", "inProgress"),
        Call("x_y", "read", "other", "none", "completed"),
        Call("x_y", "other", "other", "command", "failed"),
        Call("z", "search", "url", "none", "completed")}
  \cup {Change("x/y", None, None, "completed"),
        Change("x_y", "other", None, None),
        Change("x/y", "fetch", "url", "inProgress"),
        Change("z", None, "shell", None),
        Change("z", "execute", None, "failed")}
=============================================================================
