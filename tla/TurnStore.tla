------------------------------ MODULE TurnStore ------------------------------
(***************************************************************************)
(* What the ledger promises its callers, with no files, locks, scans or    *)
(* crashes: a turn is admitted in one step onto a thread that has no turn  *)
(* in progress, ends once, and carries at most one open permission request *)
(* at a time, which is answered at most once.                              *)
(***************************************************************************)
CONSTANTS Threads, Turns, Keys, Requests, Decisions, None

VARIABLES slot,   \* the turns as a caller sees them
          asked   \* the request ids handed out so far

Terminals == {"completed", "interrupted", "failed"}

Slot == [thread : Threads, key : Keys \cup {None},
         status : Terminals \cup {"inProgress"},
         req : Requests \cup {None}, dec : Decisions \cup {None}]

Live(t) == slot[t] # None /\ slot[t].status = "inProgress"

Init == slot = [t \in Turns |-> None] /\ asked = {}

\* admit_turn returns a new turn.
Admit(t, th, k) ==
  /\ slot[t] = None
  /\ ~ \E u \in Turns : Live(u) /\ slot[u].thread = th
  /\ ~ \E u \in Turns : Live(u) /\ k # None /\ slot[u].key = k
  /\ slot' = [slot EXCEPT ![t] = [thread |-> th, key |-> k,
                status |-> "inProgress", req |-> None, dec |-> None]]
  /\ UNCHANGED asked

\* publish_terminal, cancel, or an observer that finds the worker gone.
Finish(t, status) ==
  /\ Live(t)
  /\ slot' = [slot EXCEPT ![t].status = status]
  /\ UNCHANGED asked

\* park_approval hands out an id that was never used.
Ask(t, r) ==
  /\ Live(t) /\ r \notin asked
  /\ slot[t].req = None \/ slot[t].dec # None
  /\ slot' = [slot EXCEPT ![t].req = r, ![t].dec = None]
  /\ asked' = asked \cup {r}

\* respond records the only decision of an open request.
Answer(t, d) ==
  /\ Live(t) /\ slot[t].req # None /\ slot[t].dec = None
  /\ slot' = [slot EXCEPT ![t].dec = d]
  /\ UNCHANGED asked

\* clear_pending takes an answered request away, or any request of a turn
\* that is over.
Withdraw(t) ==
  /\ slot[t] # None /\ slot[t].req # None
  /\ slot[t].dec # None \/ ~Live(t)
  /\ slot' = [slot EXCEPT ![t].req = None, ![t].dec = None]
  /\ UNCHANGED asked

\* Each operation changes the turn it is about.
Next ==
  \E t \in Turns :
    /\ slot'[t] # slot[t]
    /\ \/ \E th \in Threads, k \in Keys \cup {None} : Admit(t, th, k)
       \/ \E status \in Terminals : Finish(t, status)
       \/ \E r \in Requests : Ask(t, r)
       \/ \E d \in Decisions : Answer(t, d)
       \/ Withdraw(t)

Spec == Init /\ [][Next]_<<slot, asked>>
=============================================================================
