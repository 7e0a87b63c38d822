------------------------------- MODULE Mapper -------------------------------
(***************************************************************************)
(* The items of one turn: crates/adapter-grok/src/map.rs, which merges the *)
(* agent's session/updates into items, and Ledger::upsert_item, which puts *)
(* each item the mapper returns into the turn record by its id.            *)
(*                                                                         *)
(* A text is the sequence of the pieces it was put together from, and a    *)
(* piece is a word the mapper looks for ("shell", "url") or any other.     *)
(* map_kind never yields an excluded-fatal type, so reject_fatal has no    *)
(* step here.  An agent sends the updates of a turn before it answers the  *)
(* prompt.                                                                 *)
(***************************************************************************)
EXTENDS Naturals, FiniteSets, SequencesExt

CONSTANTS Calls,     \* tool call ids of the agent
          IdOf,      \* what sanitize_id makes of them
          Updates,   \* the session/updates the agent may send
          MaxHeard,  \* bound on how many it sends
          None

UserId == "user-message"
AgentId == "agent-message"
PlanId == "plan"
Ids == {IdOf[c] : c \in Calls}

Words == {"shell", "url", "other"}
Kinds == {"edit", "execute", "other", "fetch", "search", "read", "delete"}
Statuses == {"inProgress", "completed", "failed"}

Update ==
  [what : {"chunk", "plan", "thought"}, text : Words]
  \cup [what : {"call"}, call : Calls, kind : Kinds, text : Words,
        raw : {"none", "command", "url"}, status : Statuses]
  \cup [what : {"update"}, call : Calls, kind : Kinds \cup {None},
        text : Words \cup {None}, status : Statuses \cup {None}]

ASSUME UpdatesAssumption == Updates \subseteq Update
ASSUME ReservedAssumption == Ids \cap {UserId, AgentId, PlanId} = {}
ASSUME HeardAssumption == MaxHeard \in Nat
ASSUME MapperNoneAssumption ==
  None \notin Words \cup Kinds \cup Statuses
              \cup {"fileChange", "commandExecution", "webSearch"}

VARIABLES items, tools,  \* the Mapper
          wire,          \* the items in the turn record
          answered,      \* session/prompt has returned
          status,        \* of the turn; "ended" is interrupted or failed
          heard          \* history: the updates the agent has sent

vars == <<items, tools, wire, answered, status, heard>>

UserItem == [id |-> UserId, type |-> "userMessage", text |-> <<"other">>,
             status |-> "completed"]

\* Mapper::new, and its items written to the turn.
Init ==
  /\ items = <<UserItem>> /\ tools = [i \in Ids |-> 0]
  /\ wire = items
  /\ answered = FALSE /\ status = "inProgress" /\ heard = <<>>

-----------------------------------------------------------------------------
IsShell(text, raw) == "shell" \in ToSet(text) \/ raw = "command"
IsWeb(text, raw) == "url" \in ToSet(text) \/ raw = "url"

\* The type of a tool's item, None if it has none.
MapKind(kind, text, raw) ==
  CASE kind = "edit" -> "fileChange"
    [] kind = "execute" -> "commandExecution"
    [] kind = "other" /\ IsShell(text, raw) -> "commandExecution"
    [] kind \in {"fetch", "search"} /\ IsWeb(text, raw) -> "webSearch"
    [] OTHER -> None

At(seq, id) == {k \in DOMAIN seq : seq[k].id = id}

\* The first item with the id is replaced; a new one goes to the end.
Put(seq, item) ==
  IF At(seq, item.id) = {} THEN Append(seq, item)
  ELSE [seq EXCEPT ![Min(At(seq, item.id))] = item]

\* Ledger::upsert_item; its refusal of a terminal turn is ignored.
UpsertItem(item) ==
  wire' = IF status = "inProgress" THEN Put(wire, item) ELSE wire

\* A thought, an unknown kind of update, or a tool with no item type.
Skip == UNCHANGED <<items, tools, wire>>

-----------------------------------------------------------------------------
\* upsert_agent
AgentMessageChunk(u) ==
  LET old == At(items, AgentId)
      item == IF old # {} THEN [items[Min(old)] EXCEPT !.text = Append(@, u.text)]
              ELSE [id |-> AgentId, type |-> "agentMessage",
                    text |-> <<u.text>>, status |-> "inProgress"]
  IN /\ items' = Put(items, item)
     /\ UpsertItem(item)
     /\ UNCHANGED tools

\* upsert_plan
Plan(u) ==
  LET old == At(items, PlanId)
      item == IF old # {} THEN [items[Min(old)] EXCEPT !.text = <<u.text>>]
              ELSE [id |-> PlanId, type |-> "plan", text |-> <<u.text>>,
                    status |-> "inProgress"]
  IN /\ items' = Put(items, item)
     /\ UpsertItem(item)
     /\ UNCHANGED tools

\* One item for all calls whose ids are sanitized to the same.
StoreTool(item) ==
  /\ IF tools[item.id] # 0
     THEN /\ items' = [items EXCEPT ![tools[item.id]] = item]
          /\ UNCHANGED tools
     ELSE /\ items' = Append(items, item)
          /\ tools' = [tools EXCEPT ![item.id] = Len(items) + 1]
  /\ UpsertItem(item)

\* apply_tool_call: a call with no item type is skipped, also when an earlier
\* one with its id has an item.
ToolCall(u) ==
  LET type == MapKind(u.kind, <<u.text>>, u.raw)
  IN IF type = None THEN Skip
     ELSE StoreTool([id |-> IdOf[u.call], type |-> type, text |-> <<u.text>>,
                     status |-> u.status])

Given(x, default) == IF x = None THEN default ELSE x
Title(u, default) == IF u.text = None THEN default ELSE <<u.text>>

\* Mutant: an update without a status completes the item.
MergeCompletes(item, u) ==
  LET text == Title(u, item.text)
      type == MapKind(Given(u.kind, "read"), text, "none")
  IN [item EXCEPT !.status = Given(u.status, "completed"), !.text = text,
                  !.type = Given(type, @)]

\* What an update makes of the item it is about.  Its kind is looked up with
\* the new title and without the raw input of the call.
Merge(item, u) ==
  LET text == Title(u, item.text)
      type == IF u.kind = None THEN None ELSE MapKind(u.kind, text, "none")
  IN [item EXCEPT !.status = Given(u.status, @), !.text = text,
                  !.type = Given(type, @)]

\* Mutant: an update without a status is not passed on.
UpdateUnsent(u) ==
  LET id == IdOf[u.call]
      type == MapKind(Given(u.kind, "other"), Title(u, <<>>), "none")
  IN IF tools[id] # 0
     THEN /\ items' = [items EXCEPT ![tools[id]] = Merge(@, u)]
          /\ IF u.status = None THEN UNCHANGED wire
             ELSE UpsertItem(Merge(items[tools[id]], u))
          /\ UNCHANGED tools
     ELSE IF type = None THEN Skip
     ELSE StoreTool([id |-> id, type |-> type, text |-> Title(u, <<>>),
                     status |-> Given(u.status, "inProgress")])

\* apply_tool_update: merged into the item of its tool; without one it opens an
\* item if it says enough.
ToolCallUpdate(u) ==
  LET id == IdOf[u.call]
      type == MapKind(Given(u.kind, "other"), Title(u, <<>>), "none")
  IN IF tools[id] # 0
     THEN /\ items' = [items EXCEPT ![tools[id]] = Merge(@, u)]
          /\ UpsertItem(Merge(items[tools[id]], u))
          /\ UNCHANGED tools
     ELSE IF type = None THEN Skip
     ELSE StoreTool([id |-> id, type |-> type, text |-> Title(u, <<>>),
                     status |-> Given(u.status, "inProgress")])

\* apply_update with Mapper::apply, one handler per kind of update.
Apply(u) ==
  /\ ~answered /\ Len(heard) < MaxHeard
  /\ heard' = Append(heard, u)
  /\ \/ u.what = "chunk" /\ AgentMessageChunk(u)
     \/ u.what = "plan" /\ Plan(u)
     \/ u.what = "call" /\ ToolCall(u)
     \/ u.what = "update" /\ ToolCallUpdate(u)
     \/ u.what = "thought" /\ Skip
  /\ UNCHANGED <<answered, status>>

\* session/prompt returns: the message is completed if there is one.
FinishAgentMessage ==
  /\ ~answered /\ answered' = TRUE
  /\ IF At(items, AgentId) = {} THEN UNCHANGED <<items, wire>>
     ELSE LET k == Min(At(items, AgentId))
              item == [items[k] EXCEPT !.status = "completed"]
          IN items' = [items EXCEPT ![k] = item] /\ UpsertItem(item)
  /\ UNCHANGED <<tools, status, heard>>

\* Mutant: the stop is published before the message is finished.
PublishEarly ==
  /\ status = "inProgress"
  /\ status' \in {"completed", "ended"}
  /\ UNCHANGED <<items, tools, wire, answered, heard>>

\* publish_stop
PublishStop ==
  /\ answered /\ status = "inProgress"
  /\ status' \in {"completed", "ended"}
  /\ UNCHANGED <<items, tools, wire, answered, heard>>

\* A cancel, or an observer that finds the worker gone; the connection may
\* stay for a while.
PublishElsewhere ==
  /\ status = "inProgress"
  /\ status' = "ended"
  /\ UNCHANGED <<items, tools, wire, answered, heard>>

Next ==
  \/ \E u \in Updates : Apply(u)
  \/ FinishAgentMessage \/ PublishStop \/ PublishElsewhere

Spec == Init /\ [][Next]_vars

-----------------------------------------------------------------------------
\* The reference: what the items of a turn are, told from all it heard at once.

\* The numbers of a set in their order: up to the k-th there are k of them.
InOrder(S) ==
  [k \in 1..Cardinality(S) |->
     CHOOSE n \in S : Cardinality({m \in S : m <= n}) = k]

Saying(what) == {n \in DOMAIN heard : heard[n].what = what}
About(id) == {n \in Saying("call") \cup Saying("update") :
                IdOf[heard[n].call] = id}

\* The type a message gives a tool that has no item.
OwnType(u) ==
  IF u.what = "call" THEN MapKind(u.kind, <<u.text>>, u.raw)
  ELSE MapKind(Given(u.kind, "other"), Title(u, <<>>), "none")

Opening(id) == {n \in About(id) : OwnType(heard[n]) # None}
Opened(id) == Opening(id) # {}
First(id) == Min(Opening(id))

\* The messages that set all fields of a tool's item: its first one, and every
\* later tool_call that has a type.
Setting(id) == {n \in Opening(id) : n = First(id) \/ heard[n].what = "call"}
Merging(id) == {n \in About(id) : n > First(id) /\ heard[n].what = "update"}

StatusOf(id) ==
  LET n == Max(Setting(id) \cup {k \in Merging(id) : heard[k].status # None})
  IN Given(heard[n].status, "inProgress")

TextOf(id, upto) ==
  LET n == Max({k \in Setting(id) \cup {j \in Merging(id) : heard[j].text # None} :
                  k <= upto})
  IN Title(heard[n], <<>>)

TypeAt(id, n) ==
  IF n \in Setting(id) THEN OwnType(heard[n])
  ELSE IF heard[n].kind = None THEN None
  ELSE MapKind(heard[n].kind, TextOf(id, n), "none")

TypeOf(id) ==
  TypeAt(id, Max({n \in Setting(id) \cup Merging(id) : TypeAt(id, n) # None}))

\* The items in the order in which they were first mentioned.
Mentioned == {First(id) : id \in {i \in Ids : Opened(i)}}
             \cup {Min(S) : S \in {Saying("chunk"), Saying("plan")} \ {{}}}

ExpectedMessage ==
  LET said == InOrder(Saying("chunk"))
  IN [id |-> AgentId, type |-> "agentMessage",
      text |-> [k \in DOMAIN said |-> heard[said[k]].text],
      status |-> IF answered THEN "completed" ELSE "inProgress"]

ExpectedPlan ==
  [id |-> PlanId, type |-> "plan", text |-> <<heard[Max(Saying("plan"))].text>>,
   status |-> "inProgress"]

ExpectedTool(id) ==
  [id |-> id, type |-> TypeOf(id), text |-> TextOf(id, Len(heard)),
   status |-> StatusOf(id)]

Expected(n) ==
  CASE heard[n].what = "chunk" -> ExpectedMessage
    [] heard[n].what = "plan" -> ExpectedPlan
    [] OTHER -> ExpectedTool(IdOf[heard[n].call])

\* acp-item-mapping.md: chunks are accumulated, a tool_call "creates or updates
\* one item", a tool_call_update "merges into that item", and "in_progress and
\* omitted status must not complete" it: whatever the order and the mixture of
\* updates, also of calls that share a sanitized id or have no type at first,
\* the mapper has the items the whole history amounts to, and so has the turn
\* record as long as the turn is in progress.
ItemsAreWhatWasHeard ==
  LET order == InOrder(Mentioned)
  IN /\ items = <<UserItem>> \o [k \in DOMAIN order |-> Expected(order[k])]
     /\ status = "inProgress" => wire = items

\* "completed when session/prompt returns": a turn recorded as completed has no
\* agent message in progress and the whole text of it.
CompletedTurnHasItsMessage ==
  status = "completed" =>
    \A k \in At(wire, AgentId) :
      /\ wire[k].status = "completed"
      /\ Len(wire[k].text) = Cardinality(Saying("chunk"))
=============================================================================
