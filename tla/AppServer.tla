------------------------------ MODULE AppServer ------------------------------
(***************************************************************************)
(* One connection of the app-server (crates/gamchi/src/app_server.rs): the *)
(* reader (rpc_loop), which starts turns and hands the client's replies    *)
(* over, and one watcher thread per started turn (watch_turn), which polls *)
(* the ledger, sends notifications and asks the client for approvals.      *)
(*                                                                         *)
(* The ledger's operations are atomic, as module Ledger shows they look to *)
(* their callers; the run of a turn, its agent and other hosts of the same *)
(* home change the records under the watcher's feet.                       *)
(***************************************************************************)
EXTENDS Naturals, Sequences, SequencesExt, FiniteSets

CONSTANTS Turns,          \* turns started on this connection
          Items,          \* ids of their items
          Requests,       \* ids park_approval may return
          Decisions,      \* decisions parse_approval_decision accepts
          MaxAsks,        \* bound on the ids next_id hands out
          None

ASSUME AppNoneAssumption == None \notin Turns \cup Requests \cup Decisions
ASSUME AppTurnsAssumption == {"read", "closed"} \cap Turns = {}
ASSUME MaxAsksAssumption == MaxAsks \in Nat

VARIABLES status, item, req, dec,   \* the turn records of the ledger
          bg,          \* the background run_turn of a turn/start
          reader,      \* "read", "closed" or the turn being started
          open,        \* the client still takes what is written
          wpc, snap,   \* where a watcher is, and the turn it observed
          started, completed,       \* its two sets of item ids
          lastReq,     \* its last_request
          ask,         \* its PendingApproval
          pending,     \* ids in ConnIo.pending
          chan,        \* what was sent to the channel of an id
          asked,       \* the request each id was used for; next_id
          log,         \* history: what the client got about a turn, in order
          said,        \* history: the decision delivered for a request
          socket,      \* history: the decision a watcher recorded for it
          parked       \* the requests new_id has named so far

ledgerVars  == <<status, item, req, dec, parked>>
connVars    == <<bg, reader, open>>
watchVars   == <<wpc, snap, started, completed, lastReq, ask>>
askVars     == <<pending, chan, asked>>
historyVars == <<log, said, socket>>
vars == <<status, item, req, dec, bg, reader, open, wpc, snap, started,
          completed, lastReq, ask, pending, chan, asked, log, said, socket, parked>>

Ids == 1..MaxAsks
Bad == "unparsable"   \* any other decision the client may send
NoSnapshot == [status |-> "absent", item |-> [i \in Items |-> "none"],
               req |-> None]

Init ==
  /\ status = [t \in Turns |-> "absent"]
  /\ item = [t \in Turns |-> [i \in Items |-> "none"]]
  /\ req = [t \in Turns |-> None]
  /\ dec = [t \in Turns |-> None]
  /\ bg = [t \in Turns |-> "none"]
  /\ reader = "read" /\ open = TRUE
  /\ wpc = [t \in Turns |-> "off"]
  /\ snap = [t \in Turns |-> NoSnapshot]
  /\ started = [t \in Turns |-> {}]
  /\ completed = [t \in Turns |-> {}]
  /\ lastReq = [t \in Turns |-> None]
  /\ ask = [t \in Turns |-> None]
  /\ pending = {}
  /\ chan = [id \in Ids |-> None]
  /\ asked = <<>>
  /\ log = [t \in Turns |-> <<>>]
  /\ said = [r \in Requests |-> None]
  /\ socket = [r \in Requests |-> None]
  /\ parked = {}

InProgress(t) == status[t] = "inProgress"
Terminal(t) == status[t] \in {"completed", "interrupted", "failed"}
PendingApproval(t) == InProgress(t) /\ req[t] # None /\ dec[t] = None

\* write_locked: the client gets the message, or the write fails.
WriteLocked(t, event) ==
  log' = IF open THEN [log EXCEPT ![t] = Append(@, event)] ELSE log

-----------------------------------------------------------------------------
(***************************************************************************)
(* rpc_loop                                                                *)
(***************************************************************************)
\* turn/start: run_turn goes to a thread of its own, the reader waits.
TurnStart(t) ==
  /\ reader = "read" /\ open /\ bg[t] = "none"
  /\ bg' = [bg EXCEPT ![t] = "admitting"]
  /\ reader' = t
  /\ UNCHANGED <<ledgerVars, open, watchVars, askVars, historyVars>>

\* on_admit, or an error before it.
Admit(t) ==
  /\ bg[t] \in {"admitting", "late"}
  /\ \/ /\ bg' = [bg EXCEPT ![t] = "run"]
        /\ status' = [status EXCEPT ![t] = "inProgress"]
     \/ /\ bg' = [bg EXCEPT ![t] = "refused"]
        /\ UNCHANGED status
  /\ UNCHANGED <<item, req, dec, parked, reader, open, watchVars, askVars, historyVars>>

\* Mutant: nobody watches a turn that has ended before its reply is written.
AfterRpcIfLive(t) ==
  /\ reader = t /\ bg[t] \in {"run", "refused"}
  /\ WriteLocked(t, <<"reply">>)
  /\ reader' = IF open THEN "read" ELSE "closed"
  /\ wpc' = IF open /\ InProgress(t) THEN [wpc EXCEPT ![t] = "observe"] ELSE wpc
  /\ UNCHANGED <<ledgerVars, bg, open, snap, started, completed, lastReq, ask,
                 askVars, said, socket>>

\* The reply is written, then after_rpc starts the watcher; a failed write
\* ends the loop before that.
AfterRpc(t) ==
  /\ reader = t /\ bg[t] \in {"run", "refused"}
  /\ WriteLocked(t, <<"reply">>)
  /\ reader' = IF open THEN "read" ELSE "closed"
  /\ wpc' = IF open /\ bg[t] = "run" THEN [wpc EXCEPT ![t] = "observe"] ELSE wpc
  /\ UNCHANGED <<ledgerVars, bg, open, snap, started, completed, lastReq, ask,
                 askVars, said, socket>>

\* recv_timeout: an error is sent, the admission goes on behind it.
AdmitTimeout(t) ==
  /\ reader = t /\ bg[t] = "admitting"
  /\ bg' = [bg EXCEPT ![t] = "late"]
  /\ WriteLocked(t, <<"reply">>)
  /\ reader' = IF open THEN "read" ELSE "closed"
  /\ UNCHANGED <<ledgerVars, open, watchVars, askVars, said, socket>>

TurnInterrupt(t) ==
  /\ reader = "read" /\ open /\ InProgress(t)
  /\ status' = [status EXCEPT ![t] = "interrupted"]
  /\ UNCHANGED <<item, req, dec, parked, connVars, watchVars, askVars, historyVars>>

\* A message without a method answers an ask.  An id that is unknown, or that
\* was answered before, is dropped.
DeliverPending(id, d) ==
  /\ reader = "read" /\ id \in pending
  /\ pending' = pending \ {id}
  /\ chan' = [chan EXCEPT ![id] = d]
  /\ said' = [said EXCEPT ![asked[id]] = d]
  /\ UNCHANGED <<ledgerVars, connVars, watchVars, asked, log, socket>>

\* A frame the reader does not take, or a close frame, ends rpc_loop; the
\* watchers keep their clone of the stream.
StopReading ==
  /\ reader = "read"
  /\ reader' = "closed"
  /\ UNCHANGED <<ledgerVars, bg, open, watchVars, askVars, historyVars>>

\* External: the client goes away.
ClientCloses ==
  /\ open
  /\ open' = FALSE
  /\ reader' = IF reader = "read" THEN "closed" ELSE reader
  /\ UNCHANGED <<ledgerVars, bg, watchVars, askVars, historyVars>>

-----------------------------------------------------------------------------
(***************************************************************************)
(* The ledger of a turn that runs                                          *)
(***************************************************************************)
\* upsert_item replaces an item by its id, whatever it was before.
UpsertItem(t, i) ==
  /\ InProgress(t)
  /\ \E mark \in {"inProgress", "completed"} :
       item' = [item EXCEPT ![t][i] = mark]
  /\ UNCHANGED <<status, req, dec, parked, connVars, watchVars, askVars,
                 historyVars>>

ParkApproval(t, r) ==
  /\ InProgress(t) /\ ~PendingApproval(t) /\ r \notin parked
  /\ parked' = parked \cup {r}
  /\ req' = [req EXCEPT ![t] = r]
  /\ dec' = [dec EXCEPT ![t] = None]
  /\ UNCHANGED <<status, item, connVars, watchVars, askVars, historyVars>>

\* grok_respond or the CLI, from another process on the same home.
RespondElsewhere(t, d) ==
  /\ PendingApproval(t)
  /\ dec' = [dec EXCEPT ![t] = d]
  /\ UNCHANGED <<status, item, req, parked, connVars, watchVars, askVars,
                 historyVars>>

\* The run takes a recorded decision.
ClearPending(t) ==
  /\ InProgress(t) /\ dec[t] # None
  /\ req' = [req EXCEPT ![t] = None]
  /\ dec' = [dec EXCEPT ![t] = None]
  /\ UNCHANGED <<status, item, parked, connVars, watchVars, askVars, historyVars>>

\* The stop of the agent, a cancel from elsewhere, or worker_gone.
PublishTerminal(t) ==
  /\ InProgress(t)
  /\ \E s \in {"completed", "interrupted", "failed"} :
       status' = [status EXCEPT ![t] = s]
  /\ UNCHANGED <<item, req, dec, parked, connVars, watchVars, askVars, historyVars>>

-----------------------------------------------------------------------------
(***************************************************************************)
(* watch_turn                                                              *)
(***************************************************************************)
WatchGoto(t, label) == wpc' = [wpc EXCEPT ![t] = label]

Observe(t) ==
  /\ wpc[t] = "observe"
  /\ snap' = [snap EXCEPT ![t] =
                [status |-> status[t], item |-> item[t],
                 req |-> IF PendingApproval(t) THEN req[t] ELSE None]]
  /\ WatchGoto(t, "emit")
  /\ UNCHANGED <<ledgerVars, connVars, started, completed, lastReq, ask,
                 askVars, historyVars>>

\* What emit_item_notifications has left to send of the observed turn.
ToStart(t) == {i \in Items : snap[t].item[i] # "none"} \ started[t]
ToComplete(t) == {i \in started[t] : snap[t].item[i] = "completed"}
                   \ completed[t]
Ended(t) == snap[t].status # "inProgress"

\* Mutant: the set of completed items is not consulted.
EmitCompletedAgain(t) ==
  /\ wpc[t] = "emit" /\ Len(log[t]) < 6
  /\ \E i \in ToStart(t) \cup {j \in started[t] : snap[t].item[j] = "completed"} :
       IF i \in ToStart(t)
       THEN /\ started' = [started EXCEPT ![t] = @ \cup {i}]
            /\ WriteLocked(t, <<"item/started", i>>)
            /\ UNCHANGED completed
       ELSE /\ completed' = [completed EXCEPT ![t] = @ \cup {i}]
            /\ WriteLocked(t, <<"item/completed", i>>)
            /\ UNCHANGED started
  /\ UNCHANGED <<ledgerVars, connVars, wpc, snap, lastReq, ask, askVars, said,
                 socket>>

\* An item enters its set before the write, so a failed write is not tried
\* again.  Items are announced in some order.
EmitItem(t) ==
  /\ wpc[t] = "emit"
  /\ \/ \E i \in ToStart(t) :
          /\ started' = [started EXCEPT ![t] = @ \cup {i}]
          /\ WriteLocked(t, <<"item/started", i>>)
          /\ UNCHANGED completed
     \/ \E i \in ToComplete(t) :
          /\ completed' = [completed EXCEPT ![t] = @ \cup {i}]
          /\ WriteLocked(t, <<"item/completed", i>>)
          /\ UNCHANGED started
  /\ UNCHANGED <<ledgerVars, connVars, wpc, snap, lastReq, ask, askVars, said,
                 socket>>

\* Mutant: the end of the turn is told before its last items.
FinishFirst(t) ==
  /\ wpc[t] = "emit" /\ Ended(t)
  /\ WriteLocked(t, <<"turn/completed">>)
  /\ WatchGoto(t, "done")
  /\ UNCHANGED <<ledgerVars, connVars, snap, started, completed, lastReq, ask,
                 askVars, said, socket>>

\* A terminal turn: the last notification, and the watcher returns.  A failed
\* write of an item does not stop it.
FinishWatch(t) ==
  /\ wpc[t] = "emit" /\ Ended(t)
  /\ ~open \/ ToStart(t) \cup ToComplete(t) = {}
  /\ WriteLocked(t, <<"turn/completed">>)
  /\ WatchGoto(t, "done")
  /\ UNCHANGED <<ledgerVars, connVars, snap, started, completed, lastReq, ask,
                 askVars, said, socket>>

Emitted(t) ==
  /\ wpc[t] = "emit" /\ ~Ended(t)
  /\ ~open \/ ToStart(t) \cup ToComplete(t) = {}
  /\ WatchGoto(t, "recv")
  /\ UNCHANGED <<ledgerVars, connVars, snap, started, completed, lastReq, ask,
                 askVars, historyVars>>

\* ledger.respond(r, d): only the request that is pending now takes it.
Respond(t, r, d) ==
  IF d \in Decisions /\ PendingApproval(t) /\ req[t] = r
  THEN /\ dec' = [dec EXCEPT ![t] = d]
       /\ socket' = [socket EXCEPT ![r] = d]
  ELSE UNCHANGED <<dec, socket>>

\* Mutant: the answer is recorded for whatever is pending.
TryRecvLatest(t) ==
  /\ wpc[t] = "recv"
  /\ WatchGoto(t, "ask")
  /\ IF ask[t] # None /\ chan[ask[t].id] # None
     THEN /\ ask' = [ask EXCEPT ![t] = None]
          /\ Respond(t, req[t], chan[ask[t].id])
     ELSE UNCHANGED <<ask, dec, socket>>
  /\ UNCHANGED <<status, item, req, parked, connVars, snap, started, completed,
                 lastReq, askVars, log, said>>

\* try_recv: an answer is taken once; one that does not parse is dropped.
TryRecv(t) ==
  /\ wpc[t] = "recv"
  /\ WatchGoto(t, "ask")
  /\ IF ask[t] # None /\ chan[ask[t].id] # None
     THEN /\ ask' = [ask EXCEPT ![t] = None]
          /\ Respond(t, ask[t].req, chan[ask[t].id])
     ELSE UNCHANGED <<ask, dec, socket>>
  /\ UNCHANGED <<status, item, req, parked, connVars, snap, started, completed,
                 lastReq, askVars, log, said>>

\* start_socket_approval
StartSocketApproval(t, r) ==
  LET id == Len(asked) + 1
  IN /\ id \in Ids
     /\ asked' = Append(asked, r)
     /\ pending' = pending \cup {id}
     /\ lastReq' = [lastReq EXCEPT ![t] = r]
     /\ ask' = [ask EXCEPT ![t] = [id |-> id, req |-> r]]
     /\ WriteLocked(t, <<"requestApproval", r>>)
     /\ UNCHANGED chan

\* Mutant: a watcher asks for the first request only.
AskFirst(t) ==
  /\ wpc[t] = "ask"
  /\ WatchGoto(t, "observe")
  /\ IF snap[t].req # None /\ ask[t] = None /\ lastReq[t] = None /\ open
     THEN StartSocketApproval(t, snap[t].req)
     ELSE UNCHANGED <<askVars, lastReq, ask, log>>
  /\ UNCHANGED <<ledgerVars, connVars, snap, started, completed, said, socket>>

\* The observed request is asked about unless it was, or an ask is out.  When
\* the write fails everything is undone and the next round tries again.
Ask(t) ==
  /\ wpc[t] = "ask"
  /\ WatchGoto(t, "observe")
  /\ IF snap[t].req \notin {None, lastReq[t]} /\ ask[t] = None /\ open
     THEN StartSocketApproval(t, snap[t].req)
     ELSE UNCHANGED <<askVars, lastReq, ask, log>>
  /\ UNCHANGED <<ledgerVars, connVars, snap, started, completed, said, socket>>

-----------------------------------------------------------------------------
WatchStep(t) ==
  \/ Observe(t) \/ EmitItem(t) \/ Emitted(t) \/ FinishWatch(t)
  \/ TryRecv(t) \/ Ask(t)

RunStep(t) ==
  \/ \E i \in Items : UpsertItem(t, i)
  \/ \E r \in Requests : ParkApproval(t, r)
  \/ \E d \in Decisions : RespondElsewhere(t, d)
  \/ ClearPending(t) \/ PublishTerminal(t)

Answers == Decisions \cup {Bad}

Next ==
  \/ \E t \in Turns : \/ TurnStart(t) \/ Admit(t) \/ AfterRpc(t)
                      \/ AdmitTimeout(t) \/ TurnInterrupt(t)
                      \/ WatchStep(t) \/ RunStep(t)
  \/ \E id \in Ids, d \in Answers : DeliverPending(id, d)
  \/ StopReading \/ ClientCloses

Spec == Init /\ [][Next]_vars

\* The server's threads run, admissions end, and a client that is there
\* answers what it is asked.  The run of a turn owes nothing.
FairSpec ==
  /\ Spec
  /\ \A t \in Turns : /\ WF_vars(WatchStep(t)) /\ WF_vars(Admit(t))
                      /\ WF_vars(AfterRpc(t))
  /\ \A id \in Ids : WF_vars(\E d \in Answers : DeliverPending(id, d))

-----------------------------------------------------------------------------
Position(t, event) == {k \in DOMAIN log[t] : log[t][k] = event}

\* protocol/README.md, `first-turn': the client hears of a turn in order: the
\* reply to turn/start first, then each item's start once and before its end,
\* the end of an item once, and turn/completed last and once.  By then each
\* item of the final record was announced, and each finished one as finished,
\* although the record went on changing while the watcher was sending.
NotificationOrder ==
  \A t \in Turns :
    /\ \A e \in ToSet(log[t]) : Cardinality(Position(t, e)) = 1
    /\ log[t] # <<>> => log[t][1] = <<"reply">>
    /\ \A i \in Items, k \in DOMAIN log[t] :
         log[t][k] = <<"item/completed", i>> =>
           \E j \in 1..(k - 1) : log[t][j] = <<"item/started", i>>
    /\ \A k \in DOMAIN log[t] :
         log[t][k] = <<"turn/completed">> => k = Len(log[t])
    /\ <<"turn/completed">> \in ToSet(log[t]) =>
         \A i \in Items :
           /\ item[t][i] # "none" => <<"item/started", i>> \in ToSet(log[t])
           /\ item[t][i] = "completed" => <<"item/completed", i>> \in ToSet(log[t])

\* A decision that a watcher records for a request is the one the client gave
\* to the ask for that very request: an answer that comes late, or twice, or
\* while the next ask is out, never decides a different request.
SocketAnswersItsAsk ==
  \A r \in Requests : socket[r] # None => said[r] = socket[r]

\* `approval': a parked request is decided in the end, or its turn ends, if
\* the client stays and answers with a decision: also one that was parked
\* while the ask for an earlier request, answered from elsewhere, was out.
ParkedIsDecided ==
  \A t \in Turns, r \in Requests :
    wpc[t] # "off" /\ PendingApproval(t) /\ req[t] = r
      ~> \/ ~(PendingApproval(t) /\ req[t] = r) \/ said[r] = Bad
         \/ ~open \/ reader = "closed"

\* "publish failed and the completion notification so the parent is not left
\* waiting": the end of a turn is told, whoever ended it and although the
\* reader waits for another admission, while the connection is open at both
\* ends, unless its turn/start was answered with a timeout.
CompletionIsAnnounced ==
  \A t \in Turns :
    Terminal(t) /\ (reader = t \/ wpc[t] # "off")
      ~> ~open \/ reader = "closed" \/ <<"turn/completed">> \in ToSet(log[t])
=============================================================================
