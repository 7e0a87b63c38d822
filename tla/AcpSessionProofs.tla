-------------------------- MODULE AcpSessionProofs --------------------------
(***************************************************************************)
(* Proofs about module AcpSession for any number of runs, sessions and     *)
(* messages and any options of the permission requests.                    *)
(***************************************************************************)
EXTENDS AcpSession, FiniteSetTheorems, TLAPS

Stops == {"completed", "interrupted", "failed"}
Message == [kind : Unsolicited \cup Responses, live : BOOLEAN,
            options : SUBSET (Allow \cup Reject),
            value : Sessions \cup Stops \cup {None}]
Starting == {"idle", "preamble", "admit", "init"}
Opening == {"loading", "creating"}

SessionType ==
  /\ sid \in Sessions \cup {None}
  /\ status \in [Runs -> Stops \cup {"absent", "inProgress"}]
  /\ pc \in [Runs -> Starting \cup Opening \cup {"prompt", "done"}]
  /\ gated \subseteq Runs
  /\ load \in [Runs -> Sessions \cup {None}]
  /\ history \in [Runs -> BOOLEAN] /\ fatal \in [Runs -> BOOLEAN]
  /\ items \in [Runs -> SUBSET Nat]
  /\ ready \in [Runs -> Message \cup {None}]
  /\ agent \in [Runs -> Opening \cup {"none", "ready", "working", "dead"}]
  /\ opened \in [Runs -> Sessions \cup {None}]
  /\ prompted \in [Runs -> Sessions \cup {None}]
  /\ sent \in [Runs -> Seq(Message)]
  /\ seen \in [Runs -> Nat]
  /\ gate \in [Runs -> SUBSET Nat]
  /\ outcome \in [Runs -> [Positions -> Allow \cup Reject \cup {"", "cancelled"}]]
  /\ decided \in [Runs -> [Positions -> Decisions \cup {None}]]

\* Where a run and its agent are, and the session they talk in.
Phase(r) ==
  /\ pc[r] \in Starting => agent[r] = "none"
  /\ pc[r] \in Opening => agent[r] \in {pc[r], "ready", "dead"}
  /\ pc[r] = "prompt" => agent[r] \in {"working", "ready", "dead"}
  /\ pc[r] = "done" => agent[r] \in {"none", "dead"}
  /\ pc[r] = "loading" => history[r] /\ load[r] # None
  /\ pc[r] \in {"creating", "prompt"} => ~history[r]
  /\ pc[r] \in Starting \cup Opening => prompted[r] = None
  /\ pc[r] = "prompt" => prompted[r] # None
  /\ status[r] = "completed" => pc[r] = "done" /\ prompted[r] # None

SessionKept(r) ==
  /\ prompted[r] # None => prompted[r] = opened[r]
  /\ load[r] # None \/ prompted[r] # None => sid # None

\* The messages of an agent.  While the session is opened there is one response
\* at most, the last message, and it names the session; what a load replays is
\* all dispatched before the prompt leaves; after that there is one response at
\* most, the last message again.
InPlace(r, n) ==
  LET m == sent[r][n]
  IN /\ m.kind \in Responses => m.live
     /\ pc[r] = "loading" /\ m.kind \in Unsolicited => ~m.live
     /\ pc[r] = "creating" => m.kind \in Responses
     /\ pc[r] = "prompt" /\ n > seen[r] => m.live
     /\ m.kind \in Responses /\ (pc[r] \in Opening \/ n > seen[r]) =>
          n = Len(sent[r]) /\ agent[r] \in {"ready", "dead"}
     /\ pc[r] \in Opening /\ m.kind = "ok" =>
          /\ m.value = opened[r] /\ m.value \in Sessions
          /\ pc[r] = "loading" => m.value = load[r]
     /\ pc[r] = "prompt" /\ m.kind = "ok" /\ n > seen[r] => m.value \in Stops

\* The response a run has not taken up is the last message, and all is dispatched.
Taken(r) ==
  ready[r] # None =>
    /\ pc[r] \in Opening \cup {"prompt"} /\ agent[r] \in {"ready", "dead"}
    /\ seen[r] = Len(sent[r]) /\ seen[r] > 0 /\ ready[r] = sent[r][seen[r]]
    /\ ready[r].kind \in Responses
    /\ pc[r] = "prompt" /\ ready[r].kind = "ok" => ready[r].value \in Stops

Stream(r) ==
  /\ seen[r] <= Len(sent[r])
  /\ agent[r] = "none" => Len(sent[r]) = 0
  /\ \A n \in DOMAIN sent[r] : InPlace(r, n)
  /\ Taken(r)

\* How many messages there can be: those the bound is about and two responses.
Asked(r) == {n \in DOMAIN sent[r] : sent[r][n].kind \in Unsolicited}

Answers(r) == IF agent[r] \in Opening \cup {"none"} THEN 0
              ELSE IF agent[r] = "working" \/ pc[r] \in Opening THEN 1 ELSE 2

Bounded(r) == /\ Cardinality(Asked(r)) <= MaxSent
              /\ Len(sent[r]) <= Cardinality(Asked(r)) + Answers(r)

\* A permission request of the prompt that cannot be allowed.
Refused(r, n) ==
  sent[r][n].kind = "permission" /\ sent[r][n].live /\ sent[r][n].options \cap Allow = {}

\* What the dispatched messages have become.
Work(r) ==
  /\ items[r] \subseteq 1..seen[r] /\ gate[r] \subseteq 1..seen[r]
  /\ \A n \in Positions : outcome[r][n] # "" => n <= seen[r]
  /\ \A n \in DOMAIN sent[r] :
       ~sent[r][n].live =>
         n \notin items[r] /\ n \notin gate[r] /\ outcome[r][n] \in {"", "cancelled"}
  /\ status[r] \in {"inProgress", "completed"} =>
       \A n \in DOMAIN sent[r] :
         n <= seen[r] /\ sent[r][n].kind = "update" /\ sent[r][n].live => n \in items[r]
  /\ status[r] = "completed" => seen[r] = Len(sent[r])

Obeyed(r) ==
  /\ fatal[r] => \E n \in DOMAIN sent[r] : Refused(r, n)
  /\ r \in gated =>
       \A n \in Positions :
         outcome[r][n] \in Allow =>
           /\ decided[r][n] \in {"accept", "acceptForSession"}
           /\ n \in DOMAIN sent[r] /\ outcome[r][n] \in sent[r][n].options
  /\ r \notin gated =>
       /\ \A n \in DOMAIN sent[r] : n <= seen[r] /\ Refused(r, n) => fatal[r]
       /\ status[r] = "completed" => ~fatal[r]

RunInv(r) == Phase(r) /\ SessionKept(r) /\ Stream(r) /\ Bounded(r) /\ Work(r) /\ Obeyed(r)

SessionInv == SessionType /\ \A r \in Runs : RunInv(r)

USE DEF runVars, agentVars, askVars

-----------------------------------------------------------------------------
(***************************************************************************)
(* Sequences                                                               *)
(***************************************************************************)
\* The empty sequence.
LEMMA EmptySequence ==
  ASSUME NEW S
  PROVE  <<>> \in Seq(S) /\ Len(<<>>) = 0 /\ DOMAIN <<>> = {}
OBVIOUS

\* A sequence of two.
LEMMA Pair ==
  ASSUME NEW a, NEW b
  PROVE  DOMAIN <<a, b>> = {1, 2} /\ <<a, b>>[1] = a /\ <<a, b>>[2] = b
OBVIOUS

\* A sequence with one more element.
LEMMA Appending ==
  ASSUME NEW S, NEW s \in Seq(S), NEW e \in S
  PROVE  /\ Append(s, e) \in Seq(S) /\ Len(Append(s, e)) = Len(s) + 1
         /\ DOMAIN Append(s, e) = 1..(Len(s) + 1)
         /\ \A n \in 1..Len(s) : Append(s, e)[n] = s[n]
         /\ Append(s, e)[Len(s) + 1] = e
OBVIOUS

-----------------------------------------------------------------------------
(***************************************************************************)
(* What a step leaves alone                                                *)
(***************************************************************************)
LEMMA PhaseStays ==
  ASSUME NEW r \in Runs, Phase(r), pc'[r] = pc[r], agent'[r] = agent[r],
         history'[r] = history[r], load'[r] = load[r], prompted'[r] = prompted[r],
         status'[r] = "completed" => status[r] = "completed"
  PROVE  Phase(r)'
BY DEF Phase

\* The session of a thread is replaced, never taken away.
LEMMA SessionStays ==
  ASSUME NEW r \in Runs, SessionKept(r), prompted'[r] = prompted[r],
         opened'[r] = opened[r], load'[r] = load[r], sid # None => sid' # None
  PROVE  SessionKept(r)'
BY DEF SessionKept

\* The stream of a run that stays where it is, or is done.
LEMMA StreamStays ==
  ASSUME NEW r \in Runs, Stream(r), sent'[r] = sent[r], seen'[r] = seen[r],
         \/ ready'[r] = ready[r] /\ pc'[r] = pc[r]
         \/ ready'[r] = None /\ pc'[r] = "done",
         opened'[r] = opened[r], load'[r] = load[r],
         agent'[r] = agent[r] \/ agent'[r] = "dead"
  PROVE  Stream(r)'
<1>1. Taken(r)'
  BY DEF Stream, Taken
<1>2. ASSUME NEW n \in DOMAIN sent[r] PROVE InPlace(r, n)'
  <2>1. InPlace(r, n)
    BY DEF Stream
  <2> QED BY <2>1 DEF InPlace, Opening
<1> QED BY <1>1, <1>2 DEF Stream

\* The number of messages of an agent that sends nothing.
LEMMA BoundStays ==
  ASSUME SessionType, NEW r \in Runs, Bounded(r), sent'[r] = sent[r],
         Answers(r) <= Answers(r)'
  PROVE  Bounded(r)'
<1>1. Asked(r)' = Asked(r)
  BY DEF Asked
<1>2. Len(sent[r]) \in Nat /\ IsFiniteSet(Asked(r))
  <2>1. sent[r] \in Seq(Message)
    BY DEF SessionType
  <2>2. DOMAIN sent[r] = 1..Len(sent[r]) /\ Len(sent[r]) \in Nat
    BY <2>1
  <2>3. IsFiniteSet(1..Len(sent[r]))
    BY <2>2, FS_Interval
  <2> QED BY <2>2, <2>3, FS_Subset DEF Asked
<1>3. Cardinality(Asked(r)) \in Nat
  BY <1>2, FS_CardinalityType
<1>4. Answers(r) \in Nat /\ Answers(r)' \in Nat
  BY DEF Answers
<1> QED BY <1>1, <1>2, <1>3, <1>4 DEF Bounded

\* The bound of a run that stays where it is.
LEMMA BoundSame ==
  ASSUME SessionType, NEW r \in Runs, Bounded(r), UNCHANGED <<pc, agent, sent>>
  PROVE  Bounded(r)'
<1>1. Answers(r)' = Answers(r) /\ Answers(r) \in Nat
  BY DEF Answers
<1> QED BY <1>1, BoundStays

\* What has become of the messages, while none is dispatched.
LEMMA WorkStays ==
  ASSUME NEW r \in Runs, Work(r), sent'[r] = sent[r], seen'[r] = seen[r],
         items'[r] = items[r], gate'[r] \subseteq gate[r], outcome'[r] = outcome[r],
         status'[r] \in {"inProgress", "completed"} => status'[r] = status[r]
  PROVE  Work(r)'
BY DEF Work

\* The outcomes of the permission requests, while none is told.
LEMMA ObeyedStays ==
  ASSUME NEW r \in Runs, Obeyed(r), sent'[r] = sent[r], seen'[r] = seen[r],
         fatal'[r] = fatal[r], outcome'[r] = outcome[r], decided'[r] = decided[r],
         r \in gated' <=> r \in gated,
         status'[r] = "completed" => status[r] = "completed"
  PROVE  Obeyed(r)'
BY DEF Obeyed, Refused

\* All that a step of another run leaves alone.
Same(r) ==
  /\ status'[r] = status[r] /\ pc'[r] = pc[r] /\ load'[r] = load[r]
  /\ history'[r] = history[r] /\ fatal'[r] = fatal[r] /\ items'[r] = items[r]
  /\ ready'[r] = ready[r] /\ agent'[r] = agent[r] /\ opened'[r] = opened[r]
  /\ prompted'[r] = prompted[r] /\ sent'[r] = sent[r] /\ seen'[r] = seen[r]
  /\ gate'[r] = gate[r] /\ outcome'[r] = outcome[r] /\ decided'[r] = decided[r]
  /\ r \in gated' <=> r \in gated

\* A run that a step does not touch keeps its invariant.
LEMMA RunStays ==
  ASSUME SessionType, NEW r \in Runs, RunInv(r), Same(r), sid # None => sid' # None
  PROVE  RunInv(r)'
<1>1. Phase(r)' /\ SessionKept(r)'
  BY PhaseStays, SessionStays DEF Same, RunInv
<1>2. Stream(r)'
  BY StreamStays DEF Same, RunInv
<1>3. Bounded(r)'
  <2>1. Answers(r)' = Answers(r) /\ Answers(r) \in Nat
    BY DEF Same, Answers
  <2> QED BY <2>1, BoundStays DEF Same, RunInv
<1>4. Work(r)' /\ Obeyed(r)'
  BY WorkStays, ObeyedStays DEF Same, RunInv
<1> QED BY <1>1, <1>2, <1>3, <1>4 DEF RunInv

\* A step of run r that keeps its invariant keeps all.
LEMMA RunSteps ==
  ASSUME SessionInv, NEW r \in Runs, SessionType', RunInv(r)',
         \A u \in Runs \ {r} : Same(u), sid # None => sid' # None
  PROVE  SessionInv'
<1>1. ASSUME NEW u \in Runs, u # r PROVE RunInv(u)'
  BY <1>1, RunStays DEF SessionInv
<1> QED BY <1>1 DEF SessionInv

\* Every message has a place.
LEMMA InPositions ==
  ASSUME SessionInv, NEW r \in Runs
  PROVE  /\ sent[r] \in Seq(Message) /\ Len(sent[r]) \in Nat
         /\ DOMAIN sent[r] = 1..Len(sent[r]) /\ DOMAIN sent[r] \subseteq Positions
         /\ IsFiniteSet(Asked(r)) /\ Cardinality(Asked(r)) \in Nat
<1>1. sent[r] \in Seq(Message)
  BY DEF SessionInv, SessionType
<1>2. Len(sent[r]) \in Nat /\ DOMAIN sent[r] = 1..Len(sent[r])
  BY <1>1
<1>3. IsFiniteSet(Asked(r))
  <2>1. IsFiniteSet(1..Len(sent[r]))
    BY <1>2, FS_Interval
  <2> QED BY <1>2, <2>1, FS_Subset DEF Asked
<1>4. Cardinality(Asked(r)) \in Nat
  BY <1>3, FS_CardinalityType
<1>5. Bounded(r) /\ Answers(r) \in 0..2
  BY DEF SessionInv, RunInv, Answers
<1>6. Len(sent[r]) <= MaxLen
  BY <1>2, <1>4, <1>5, MaxSentAssumption DEF Bounded, MaxLen
<1>7. DOMAIN sent[r] \subseteq Positions
  BY <1>2, <1>6, MaxSentAssumption DEF Positions, MaxLen
<1> QED BY <1>1, <1>2, <1>3, <1>4, <1>7

\* A run that has no agent has heard nothing.
LEMMA Silent ==
  ASSUME SessionInv, NEW r \in Runs, agent[r] = "none"
  PROVE  /\ DOMAIN sent[r] = {} /\ Len(sent[r]) = 0 /\ seen[r] = 0 /\ ready[r] = None
         /\ gate[r] = {} /\ ~fatal[r] /\ \A n \in Positions : outcome[r][n] = ""
<1>1. RunInv(r) /\ seen[r] \in Nat
  BY DEF SessionInv, SessionType
<1>2. Len(sent[r]) = 0 /\ DOMAIN sent[r] = {}
  BY <1>1, InPositions DEF RunInv, Stream
<1>3. seen[r] = 0 /\ ready[r] = None
  BY <1>1, <1>2 DEF RunInv, Stream, Taken
<1>4. gate[r] = {}
  <2>1. gate[r] \subseteq 1..0
    BY <1>1, <1>3 DEF RunInv, Work
  <2>2. 1..0 = {}
    OBVIOUS
  <2> QED BY <2>1, <2>2
<1>5. ~fatal[r]
  BY <1>1, <1>2 DEF RunInv, Obeyed
<1>6. ASSUME NEW n \in Positions PROVE outcome[r][n] = ""
  <2>1. ~(n <= 0)
    BY MaxSentAssumption DEF Positions, MaxLen
  <2> QED BY <1>1, <1>3, <2>1 DEF RunInv, Work
<1> QED BY <1>2, <1>3, <1>4, <1>5, <1>6

\* Before the first request.
LEMMA SessionInit == Init => SessionInv
<1> SUFFICES ASSUME Init PROVE SessionInv
  OBVIOUS
<1> USE SessionsAssumption, SessionNoneAssumption, MaxSentAssumption
<1>1. SessionType
  <2>1. /\ sid \in Sessions \cup {None} /\ gated \subseteq Runs
        /\ status \in [Runs -> Stops \cup {"absent", "inProgress"}]
        /\ pc \in [Runs -> Starting \cup Opening \cup {"prompt", "done"}]
        /\ agent \in [Runs -> Opening \cup {"none", "ready", "working", "dead"}]
    BY DEF Init, Starting
  <2>2. /\ load \in [Runs -> Sessions \cup {None}] /\ opened \in [Runs -> Sessions \cup {None}]
        /\ prompted \in [Runs -> Sessions \cup {None}] /\ ready \in [Runs -> Message \cup {None}]
        /\ history \in [Runs -> BOOLEAN] /\ fatal \in [Runs -> BOOLEAN]
    BY DEF Init
  <2>3. items \in [Runs -> SUBSET Nat] /\ gate \in [Runs -> SUBSET Nat] /\ seen \in [Runs -> Nat]
    BY DEF Init
  <2>6. sent \in [Runs -> Seq(Message)]
    <3>1. <<>> \in Seq(Message)
      BY EmptySequence
    <3> QED BY <3>1 DEF Init
  <2>4. outcome \in [Runs -> [Positions -> Allow \cup Reject \cup {"", "cancelled"}]]
    BY DEF Init
  <2>5. decided \in [Runs -> [Positions -> Decisions \cup {None}]]
    BY DEF Init
  <2> QED BY <2>1, <2>2, <2>3, <2>4, <2>5, <2>6 DEF SessionType
<1>2. ASSUME NEW r \in Runs PROVE RunInv(r)
  <2>1. /\ seen[r] = 0 /\ ready[r] = None /\ items[r] = {} /\ gate[r] = {}
        /\ pc[r] = "idle" /\ agent[r] = "none" /\ ~fatal[r]
        /\ status[r] = "absent" /\ load[r] = None /\ prompted[r] = None
    BY DEF Init
  <2>a. Len(sent[r]) = 0 /\ DOMAIN sent[r] = {}
    <3>1. sent[r] = <<>>
      BY DEF Init
    <3> QED BY <3>1, EmptySequence
  <2>b. \A n \in Positions : outcome[r][n] = ""
    BY DEF Init
  <2>2. Phase(r) /\ SessionKept(r)
    BY <2>1 DEF Phase, SessionKept, Opening
  <2>3. Stream(r)
    BY <2>1, <2>a DEF Stream, Taken
  <2>4. Bounded(r)
    <3>1. Asked(r) = {} /\ Answers(r) = 0
      BY <2>1, <2>a DEF Asked, Answers
    <3>2. Cardinality({}) = 0
      BY FS_EmptySet
    <3> QED BY <2>a, <3>1, <3>2 DEF Bounded
  <2>5. Work(r)
    BY <2>1, <2>a, <2>b DEF Work
  <2>6. Obeyed(r)
    BY <2>1, <2>a, <2>b DEF Obeyed, Allow
  <2> QED BY <2>2, <2>3, <2>4, <2>5, <2>6 DEF RunInv
<1> QED BY <1>1, <1>2 DEF SessionInv

-----------------------------------------------------------------------------
(***************************************************************************)
(* The beginning of a turn                                                 *)
(***************************************************************************)
\* A step of a run without an agent: it has heard nothing, so that only where it
\* is and what it will load have to be looked at.
LEMMA EarlySteps ==
  ASSUME SessionInv, NEW r \in Runs, agent[r] = "none", Phase(r)', SessionKept(r)',
         UNCHANGED <<sent, seen, items, ready, gate, outcome, decided, fatal>>,
         status'[r] # "completed",
         \/ agent'[r] = "none"
         \/ pc'[r] \in Opening /\ agent'[r] = pc'[r]
  PROVE  RunInv(r)'
<1>1. /\ DOMAIN sent[r] = {} /\ Len(sent[r]) = 0 /\ seen[r] = 0 /\ ready[r] = None
      /\ gate[r] = {} /\ ~fatal[r] /\ \A n \in Positions : outcome[r][n] = ""
  BY Silent
<1>2. Stream(r)'
  <2>1. DOMAIN sent'[r] = {} /\ Len(sent'[r]) = 0 /\ seen'[r] = 0 /\ ready'[r] = None
    BY <1>1
  <2> QED BY <2>1 DEF Stream, Taken
<1>3. Bounded(r)'
  <2>1. Answers(r) = 0 /\ Answers(r)' = 0
    BY DEF Answers, Opening
  <2>2. sent'[r] = sent[r] /\ Bounded(r)
    BY DEF SessionInv, RunInv
  <2> QED BY <2>1, <2>2, BoundStays DEF SessionInv
<1>4. Work(r)'
  BY <1>1 DEF SessionInv, RunInv, Work
<1>5. Obeyed(r)'
  BY <1>1 DEF Obeyed, Allow
<1> QED BY <1>2, <1>3, <1>4, <1>5 DEF RunInv

\* A request chooses its path and its policy.
LEMMA RequestKeeps ==
  ASSUME SessionInv, NEW r \in Runs, NEW p, Request(r, p)
  PROVE  SessionInv'
<1> USE DEF SessionInv
<1>1. /\ pc[r] = "idle" /\ pc' = [pc EXCEPT ![r] = "preamble"]
      /\ gated' \in {gated, gated \cup {r}}
      /\ UNCHANGED <<sid, status, load, history, fatal, items, ready, prompted, agent,
                     opened, sent, seen, gate, outcome, decided>>
  BY DEF Request, Goto
<1>2. SessionType'
  BY <1>1 DEF SessionType, Starting
<1>3. \A u \in Runs \ {r} : Same(u)
  BY <1>1 DEF SessionType, Same
<1>4. pc'[r] = "preamble" /\ agent[r] = "none" /\ Phase(r) /\ SessionKept(r)
  BY <1>1 DEF SessionType, RunInv, Phase, Starting
<1>5. Phase(r)' /\ SessionKept(r)' /\ status'[r] # "completed"
  BY <1>1, <1>4, SessionStays DEF Phase, Starting, Opening
<1>6. RunInv(r)'
  BY <1>1, <1>4, <1>5, EarlySteps
<1> QED BY <1>1, <1>2, <1>3, <1>6, RunSteps

\* The session to load is the one on the thread, which keeps one from then on.
LEMMA PreambleKeeps ==
  ASSUME SessionInv, NEW r \in Runs, Preamble(r)
  PROVE  SessionInv'
<1> USE DEF SessionInv
<1>1. /\ pc[r] = "preamble" /\ pc' = [pc EXCEPT ![r] = "admit"]
      /\ load' = [load EXCEPT ![r] = IF path[r] = "followUp" THEN sid ELSE None]
      /\ UNCHANGED <<sid, status, gated, history, fatal, items, ready, prompted, agent,
                     opened, sent, seen, gate, outcome, decided>>
  BY DEF Preamble, Goto
<1>2. SessionType'
  BY <1>1 DEF SessionType, Starting
<1>3. \A u \in Runs \ {r} : Same(u)
  BY <1>1 DEF SessionType, Same
<1>4. /\ pc'[r] = "admit" /\ agent[r] = "none" /\ Phase(r) /\ SessionKept(r)
      /\ load'[r] \in {sid, None}
  BY <1>1 DEF SessionType, RunInv, Phase, Starting
<1>5. Phase(r)' /\ SessionKept(r)' /\ status'[r] # "completed"
  BY <1>1, <1>4 DEF Phase, SessionKept, Starting, Opening
<1>6. RunInv(r)'
  BY <1>1, <1>4, <1>5, EarlySteps
<1> QED BY <1>1, <1>2, <1>3, <1>6, RunSteps

\* An admitted turn starts without an agent.
LEMMA AdmitKeeps ==
  ASSUME SessionInv, NEW r \in Runs, Admit(r)
  PROVE  SessionInv'
<1> USE DEF SessionInv
<1>1. /\ pc[r] = "admit"
      /\ \/ pc' = [pc EXCEPT ![r] = "done"] /\ status' = status
         \/ pc' = [pc EXCEPT ![r] = "init"] /\ status' = [status EXCEPT ![r] = "inProgress"]
      /\ UNCHANGED <<sid, gated, load, history, fatal, items, ready, prompted, agent,
                     opened, sent, seen, gate, outcome, decided>>
  BY DEF Admit, Goto
<1>2. SessionType'
  BY <1>1 DEF SessionType, Starting
<1>3. \A u \in Runs \ {r} : Same(u)
  BY <1>1 DEF SessionType, Same
<1>4. /\ pc'[r] \in {"init", "done"} /\ agent[r] = "none" /\ Phase(r) /\ SessionKept(r)
      /\ status'[r] \in {"inProgress", status[r]}
  BY <1>1 DEF SessionType, RunInv, Phase, Starting
<1>5. Phase(r)' /\ SessionKept(r)' /\ status'[r] # "completed"
  BY <1>1, <1>4, SessionStays DEF Phase, Starting, Opening
<1>6. RunInv(r)'
  BY <1>1, <1>4, <1>5, EarlySteps
<1> QED BY <1>1, <1>2, <1>3, <1>6, RunSteps

\* The history flag goes up with the request to load.
LEMMA InitializeKeeps ==
  ASSUME SessionInv, NEW r \in Runs, Initialize(r)
  PROVE  SessionInv'
<1> USE DEF SessionInv
<1>1. /\ pc[r] = "init"
      /\ \/ /\ agent' = [agent EXCEPT ![r] = IF load[r] = None THEN "creating" ELSE "loading"]
            /\ history' = [history EXCEPT ![r] = load[r] # None]
            /\ pc' = [pc EXCEPT ![r] = IF load[r] = None THEN "creating" ELSE "loading"]
            /\ status' = status
         \/ /\ pc' = [pc EXCEPT ![r] = "done"] /\ UNCHANGED <<agent, history>>
            /\ status' = status \/ status' = [status EXCEPT ![r] = "failed"]
      /\ UNCHANGED <<sid, gated, load, fatal, items, ready, prompted,
                     opened, sent, seen, gate, outcome, decided>>
  BY DEF Initialize, StartSession, StartFails, Publish, Goto
<1>2. SessionType'
  BY <1>1 DEF SessionType, Opening, Stops
<1>3. \A u \in Runs \ {r} : Same(u)
  BY <1>1 DEF SessionType, Same
<1>4. /\ agent[r] = "none" /\ Phase(r) /\ SessionKept(r) /\ status[r] # "completed"
      /\ pc[r] = "init"
  BY <1>1 DEF SessionType, RunInv, Phase, Starting
<1>5. /\ status'[r] # "completed"
      /\ \/ /\ pc'[r] = (IF load[r] = None THEN "creating" ELSE "loading")
            /\ agent'[r] = pc'[r] /\ history'[r] = (load[r] # None)
         \/ /\ pc'[r] = "done" /\ agent'[r] = "none"
  <2>1. CASE /\ agent' = [agent EXCEPT ![r] = IF load[r] = None THEN "creating" ELSE "loading"]
             /\ history' = [history EXCEPT ![r] = load[r] # None]
             /\ pc' = [pc EXCEPT ![r] = IF load[r] = None THEN "creating" ELSE "loading"]
             /\ status' = status
    <3>1. pc'[r] = IF load[r] = None THEN "creating" ELSE "loading"
      BY <2>1 DEF SessionType
    <3>2. agent'[r] = IF load[r] = None THEN "creating" ELSE "loading"
      BY <2>1 DEF SessionType
    <3>3. history'[r] = (load[r] # None)
      BY <2>1 DEF SessionType
    <3> QED BY <1>4, <2>1, <3>1, <3>2, <3>3
  <2>2. CASE /\ pc' = [pc EXCEPT ![r] = "done"] /\ UNCHANGED <<agent, history>>
             /\ status' = status \/ status' = [status EXCEPT ![r] = "failed"]
    BY <1>4, <2>2 DEF SessionType
  <2> QED BY <1>1, <2>1, <2>2
<1>6. Phase(r)' /\ SessionKept(r)'
  BY <1>1, <1>4, <1>5, SessionStays DEF Phase, Starting, Opening
<1>7. RunInv(r)'
  BY <1>1, <1>4, <1>5, <1>6, EarlySteps DEF Opening
<1> QED BY <1>1, <1>2, <1>3, <1>7, RunSteps

-----------------------------------------------------------------------------
(***************************************************************************)
(* What the agent sends                                                    *)
(***************************************************************************)
\* An agent that is asked something has answered nothing of it yet.  A message
\* that fits where the run is, and within the bound, keeps the invariant.
LEMMA Sending ==
  ASSUME SessionInv, NEW r \in Runs, NEW m \in Message,
         agent[r] \in {"loading", "creating", "working"},
         sent' = [sent EXCEPT ![r] = Append(@, m)],
         UNCHANGED <<sid, status, pc, gated, load, history, fatal, items, ready, prompted,
                     seen, gate, outcome, decided>>,
         Phase(r)', SessionKept(r)', agent'[r] # "none",
         NEW k \in Nat, k = Len(sent[r]) + 1, InPlace(r, k)',
         \/ /\ m.kind \in Unsolicited /\ Cardinality(Asked(r)) < MaxSent
            /\ Answers(r)' = Answers(r)
         \/ m.kind \notin Unsolicited /\ Answers(r)' = Answers(r) + 1
  PROVE  RunInv(r)'
<1> DEFINE L == Len(sent[r])
<1>1. /\ sent[r] \in Seq(Message) /\ L \in Nat /\ DOMAIN sent[r] = 1..L
      /\ IsFiniteSet(Asked(r)) /\ Cardinality(Asked(r)) \in Nat
  BY InPositions
<1>2. RunInv(r) /\ seen[r] \in Nat /\ sent \in [Runs -> Seq(Message)]
  BY DEF SessionInv, SessionType
<1>3. sent'[r] = Append(sent[r], m)
  BY <1>2
<1>4. /\ Len(sent'[r]) = L + 1 /\ DOMAIN sent'[r] = 1..(L + 1)
      /\ \A n \in 1..L : sent'[r][n] = sent[r][n]
      /\ sent'[r][L + 1] = m
  BY <1>1, <1>3, Appending
<1> HIDE DEF L
<1>5. seen[r] <= L /\ ready[r] = None /\ status[r] # "completed"
  BY <1>2 DEF RunInv, Stream, Taken, Phase, L
<1>6. Stream(r)'
  <2>1. ASSUME NEW n \in 1..L PROVE InPlace(r, n)'
    <3>1. InPlace(r, n) /\ sent'[r][n] = sent[r][n]
      BY <1>1, <1>2, <1>4 DEF RunInv, Stream
    <3>2. ~(sent[r][n].kind \in Responses /\ (pc[r] \in Opening \/ n > seen[r]))
      BY <3>1 DEF InPlace
    <3>3. sent[r][n].kind = "ok" => sent[r][n].kind \in Responses
      BY DEF Responses
    <3> QED BY <3>1, <3>2, <3>3 DEF InPlace
  <2>2. ASSUME NEW n \in 1..(L + 1) PROVE InPlace(r, n)'
    <3>1. n \in 1..L \/ n = L + 1
      BY <1>1 DEF L
    <3>2. n = k \/ n # L + 1
      BY DEF L
    <3> QED BY <2>1, <3>1, <3>2
  <2>3. Taken(r)'
    BY <1>5 DEF Taken
  <2>4. seen'[r] <= Len(sent'[r])
    BY <1>1, <1>2, <1>4, <1>5 DEF L
  <2> QED BY <1>4, <2>2, <2>3, <2>4 DEF Stream
<1>7. Bounded(r)'
  <2>1. Bounded(r) /\ Answers(r) \in Nat /\ Answers(r)' \in Nat
    BY <1>2 DEF RunInv, Answers
  <2>2. Asked(r)' = {n \in 1..(L + 1) : sent'[r][n].kind \in Unsolicited}
    BY <1>4 DEF Asked
  <2>3. Asked(r) = {n \in 1..L : sent[r][n].kind \in Unsolicited}
    BY <1>1 DEF Asked, L
  <2>4. CASE m.kind \in Unsolicited
    <3>1. Asked(r)' = Asked(r) \cup {L + 1} /\ L + 1 \notin Asked(r)
      BY <1>1, <1>4, <2>2, <2>3, <2>4 DEF L
    <3>2. Cardinality(Asked(r)') = Cardinality(Asked(r)) + 1
      BY <1>1, <3>1, FS_AddElement
    <3> QED BY <1>1, <1>4, <2>1, <2>4, <3>2, MaxSentAssumption DEF Bounded, L
  <2>5. CASE m.kind \notin Unsolicited
    <3>1. Asked(r)' = Asked(r)
      BY <1>1, <1>4, <2>2, <2>3, <2>5 DEF L
    <3> QED BY <1>1, <1>4, <2>1, <2>5, <3>1, MaxSentAssumption DEF Bounded, L
  <2> QED BY <2>4, <2>5
<1>8. L + 1 \in Positions
  <2>1. Cardinality(Asked(r)') \in Nat
    <3>1. IsFiniteSet(1..(L + 1))
      BY <1>1, FS_Interval DEF L
    <3>2. IsFiniteSet(Asked(r)')
      BY <1>4, <3>1, FS_Subset DEF Asked
    <3> QED BY <3>2, FS_CardinalityType
  <2>2. Answers(r)' \in 0..2
    BY DEF Answers
  <2> QED BY <1>1, <1>4, <1>7, <2>1, <2>2, MaxSentAssumption DEF Bounded, Positions, MaxLen, L
<1>9. L + 1 \notin items[r] /\ L + 1 \notin gate[r] /\ outcome[r][L + 1] = ""
  <2>1. ~(L + 1 <= seen[r]) /\ L + 1 \notin 1..seen[r]
    BY <1>1, <1>2, <1>5 DEF L
  <2>2. Work(r)
    BY <1>2 DEF RunInv
  <2>3. L + 1 \notin items[r] /\ L + 1 \notin gate[r]
    BY <2>1, <2>2 DEF Work
  <2> QED BY <1>8, <2>1, <2>2, <2>3 DEF Work
<1>10. Work(r)'
  <2>1. ASSUME NEW n \in 1..(L + 1), ~sent'[r][n].live
        PROVE  n \notin items[r] /\ n \notin gate[r] /\ outcome[r][n] \in {"", "cancelled"}
    <3>1. n \in 1..L \/ n = L + 1
      BY <1>1 DEF L
    <3> QED BY <1>1, <1>2, <1>4, <1>9, <2>1, <3>1 DEF RunInv, Work, L
  <2>2. ASSUME NEW n \in 1..(L + 1), n <= seen[r], sent'[r][n].kind = "update",
               sent'[r][n].live, status[r] = "inProgress"
        PROVE  n \in items[r]
    <3>1. n \in 1..L
      BY <1>1, <1>2, <1>5, <2>2 DEF L
    <3> QED BY <1>1, <1>2, <1>4, <2>2, <3>1 DEF RunInv, Work, L
  <2> QED BY <1>2, <1>4, <1>5, <2>1, <2>2 DEF RunInv, Work
<1>11. Obeyed(r)'
  <2>1. Obeyed(r)
    BY <1>2 DEF RunInv
  <2>2. ASSUME NEW n \in 1..L PROVE n \in 1..(L + 1) /\ Refused(r, n)' = Refused(r, n)
    BY <1>1, <1>4 DEF Refused, L
  <2>3. fatal'[r] => \E n \in DOMAIN sent'[r] : Refused(r, n)'
    BY <1>1, <1>4, <2>1, <2>2 DEF Obeyed, L
  <2>4. ASSUME NEW n \in Positions, r \in gated, outcome[r][n] \in Allow
        PROVE  /\ decided[r][n] \in {"accept", "acceptForSession"}
               /\ n \in DOMAIN sent'[r] /\ outcome[r][n] \in sent'[r][n].options
    <3>1. /\ decided[r][n] \in {"accept", "acceptForSession"}
          /\ n \in 1..L /\ outcome[r][n] \in sent[r][n].options
      BY <1>1, <2>1, <2>4 DEF Obeyed, L
    <3> QED BY <1>4, <2>2, <3>1
  <2>5. ASSUME NEW n \in 1..(L + 1), n <= seen[r], Refused(r, n)', r \notin gated
        PROVE  fatal[r]
    <3>1. n \in 1..L
      BY <1>1, <1>2, <1>5, <2>5 DEF L
    <3> QED BY <1>1, <2>1, <2>2, <2>5, <3>1 DEF Obeyed, L
  <2> QED BY <1>4, <1>5, <2>3, <2>4, <2>5 DEF Obeyed
<1> QED BY <1>6, <1>7, <1>10, <1>11 DEF RunInv

\* A replay is sent while the session is loaded, anything else while the agent works.
LEMMA AgentSendsKeeps ==
  ASSUME SessionInv, NEW r \in Runs, AgentSends(r)
  PROVE  SessionInv'
<1> USE DEF SessionInv
<1>1. PICK kind \in Unsolicited : \E options \in IF kind = "permission" THEN OptionSets ELSE {{}} :
         Send(r, [kind |-> kind, live |-> agent[r] = "working",
                  options |-> options, value |-> None])
  BY DEF AgentSends
<1>2. PICK options \in IF kind = "permission" THEN OptionSets ELSE {{}} :
         Send(r, [kind |-> kind, live |-> agent[r] = "working",
                  options |-> options, value |-> None])
  BY <1>1
<1> DEFINE m == [kind |-> kind, live |-> agent[r] = "working",
                 options |-> options, value |-> None]
<1>3. /\ m \in Message /\ m.kind = kind /\ m.live = (agent[r] = "working")
  BY OptionsAssumption DEF Message
<1>4. /\ agent[r] \in {"loading", "working"} /\ Cardinality(Asked(r)) < MaxSent
      /\ sent' = [sent EXCEPT ![r] = Append(@, m)]
      /\ UNCHANGED <<sid, status, pc, gated, load, history, fatal, items, ready, prompted,
                     agent, opened, seen, gate, outcome, decided>>
  BY <1>2 DEF AgentSends, Asked, Send
<1> HIDE DEF m
<1>5. /\ sent[r] \in Seq(Message) /\ sent \in [Runs -> Seq(Message)] /\ RunInv(r)
  BY DEF SessionType
<1>6. sent'[r] \in Seq(Message) /\ Len(sent'[r]) = Len(sent[r]) + 1
      /\ sent'[r][Len(sent[r]) + 1] = m /\ sent'[r] = Append(sent[r], m)
  BY <1>3, <1>4, <1>5, Appending
<1>7. SessionType'
  <2>1. sent' \in [Runs -> Seq(Message)]
    BY <1>4, <1>5, <1>6
  <2> QED BY <1>4, <2>1 DEF SessionType
<1>8. \A u \in Runs \ {r} : Same(u)
  BY <1>4, <1>5 DEF Same
<1>9. Phase(r) /\ SessionKept(r)
  BY <1>5 DEF RunInv
<1>10. Phase(r)' /\ SessionKept(r)'
  BY <1>4, <1>9, PhaseStays, SessionStays
<1>11. /\ pc[r] = "loading" => ~m.live
       /\ pc[r] # "creating" /\ (pc[r] = "prompt" => m.live) /\ m.kind \notin Responses
       /\ m.kind # "ok"
  <2>1. m.kind \notin Responses /\ m.kind # "ok"
    BY <1>3 DEF Unsolicited, Responses
  <2>2. pc[r] = "loading" \/ pc[r] = "prompt"
    BY <1>4, <1>9 DEF Phase, SessionType, Starting, Opening
  <2> QED BY <1>3, <1>4, <1>9, <2>1, <2>2 DEF Phase, Opening
<1>12. ASSUME NEW k \in Nat, k = Len(sent[r]) + 1 PROVE InPlace(r, k)'
  BY <1>4, <1>6, <1>11, <1>12 DEF InPlace
<1>13. Answers(r)' = Answers(r) /\ Answers(r) \in Nat
  BY <1>4 DEF Answers
<1>14. RunInv(r)'
  <2>1. Len(sent[r]) + 1 \in Nat
    BY <1>5
  <2> QED BY <1>3, <1>4, <1>10, <1>12, <1>13, <2>1, Sending
<1> QED BY <1>4, <1>7, <1>8, <1>14, RunSteps

\* A response of the agent, after which it waits for the next request.
LEMMA Responding ==
  ASSUME SessionInv, NEW r \in Runs, NEW m \in Message, NEW s \in Sessions \cup {None},
         agent[r] \in {"loading", "creating", "working"},
         m.kind \in Responses, m.live,
         sent' = [sent EXCEPT ![r] = Append(@, m)],
         agent' = [agent EXCEPT ![r] = "ready"],
         opened' = [opened EXCEPT ![r] = s],
         \/ agent[r] = "working" /\ s = opened[r] /\ (m.kind = "ok" => m.value \in Stops)
         \/ /\ agent[r] # "working"
            /\ m.kind = "ok" =>
                 /\ m.value = s /\ m.value \in Sessions
                 /\ agent[r] = "loading" => m.value = load[r],
         UNCHANGED <<sid, status, pc, gated, load, history, fatal, items, ready, prompted,
                     seen, gate, outcome, decided>>
  PROVE  SessionInv'
<1> USE DEF SessionInv
<1>1. /\ sent[r] \in Seq(Message) /\ sent \in [Runs -> Seq(Message)] /\ RunInv(r)
      /\ agent \in [Runs -> Opening \cup {"none", "ready", "working", "dead"}]
      /\ opened \in [Runs -> Sessions \cup {None}]
  BY DEF SessionType
<1>2. sent'[r] \in Seq(Message) /\ Len(sent'[r]) = Len(sent[r]) + 1
      /\ sent'[r][Len(sent[r]) + 1] = m /\ sent'[r] = Append(sent[r], m)
  BY <1>1, Appending
<1>3. SessionType'
  <2>1. sent' \in [Runs -> Seq(Message)]
    BY <1>1, <1>2
  <2>2. agent' \in [Runs -> Opening \cup {"none", "ready", "working", "dead"}]
    BY <1>1
  <2>3. opened' \in [Runs -> Sessions \cup {None}]
    BY <1>1
  <2> QED BY <2>1, <2>2, <2>3 DEF SessionType
<1>4. \A u \in Runs \ {r} : Same(u)
  BY <1>1 DEF Same
<1>5. Phase(r) /\ SessionKept(r) /\ agent'[r] = "ready" /\ opened'[r] = s
  BY <1>1 DEF RunInv
<1>6. /\ agent[r] = "working" => pc[r] = "prompt"
      /\ agent[r] # "working" => pc[r] = agent[r] /\ pc[r] \in Opening
  BY <1>5 DEF Phase, SessionType, Starting, Opening
<1>7. Phase(r)' /\ SessionKept(r)'
  BY <1>5, <1>6 DEF Phase, SessionKept, Starting, Opening
<1>8. ASSUME NEW k \in Nat, k = Len(sent[r]) + 1 PROVE InPlace(r, k)'
  <2>1. m.kind \notin Unsolicited /\ sent'[r][k] = m /\ k = Len(sent'[r])
    BY <1>2, <1>8 DEF Responses, Unsolicited
  <2>2. CASE agent[r] = "working"
    BY <1>5, <1>6, <2>1, <2>2 DEF InPlace, Opening
  <2>3. CASE agent[r] # "working"
    BY <1>5, <1>6, <2>1, <2>3 DEF InPlace, Opening
  <2> QED BY <2>2, <2>3
<1>9. Answers(r)' = Answers(r) + 1 /\ m.kind \notin Unsolicited
  BY <1>5, <1>6 DEF Answers, Opening, Responses, Unsolicited
<1>10. RunInv(r)'
  <2>1. Len(sent[r]) + 1 \in Nat
    BY <1>1
  <2> QED BY <1>5, <1>7, <1>8, <1>9, <2>1, Sending
<1> QED BY <1>3, <1>4, <1>10, RunSteps

\* The session is opened, or is not.
LEMMA AgentOpensKeeps ==
  ASSUME SessionInv, NEW r \in Runs, AgentOpens(r)
  PROVE  SessionInv'
<1>1. /\ load[r] \in Sessions \cup {None} /\ opened \in [Runs -> Sessions \cup {None}]
      /\ agent[r] = "loading" => load[r] # None
  BY DEF SessionInv, SessionType, RunInv, Phase, Starting, Opening
<1>2. /\ agent[r] \in {"loading", "creating"} /\ agent' = [agent EXCEPT ![r] = "ready"]
      /\ UNCHANGED <<sid, status, pc, gated, load, history, fatal, items, ready, prompted,
                     seen, gate, outcome, decided>>
  BY DEF AgentOpens
<1>3. ASSUME NEW s \in IF agent[r] = "loading" THEN {load[r]}
                        ELSE Sessions \ ({sid} \cup {opened[u] : u \in Runs}),
             Send(r, [kind |-> "ok", live |-> TRUE, options |-> {}, value |-> s]),
             opened' = [opened EXCEPT ![r] = s]
      PROVE  SessionInv'
  <2> DEFINE m == [kind |-> "ok", live |-> TRUE, options |-> {}, value |-> s]
  <2>1. s \in Sessions /\ (agent[r] = "loading" => s = load[r])
    BY <1>1, <1>2, <1>3
  <2>2. m \in Message /\ m.kind \in Responses /\ m.live /\ m.value = s
    BY <2>1 DEF Message, Responses
  <2>3. sent' = [sent EXCEPT ![r] = Append(@, m)]
    BY <1>3 DEF Send
  <2> HIDE DEF m
  <2> QED BY <1>2, <1>3, <2>1, <2>2, <2>3, Responding
<1>4. ASSUME Send(r, [kind |-> "error", live |-> TRUE, options |-> {}, value |-> None]),
             UNCHANGED opened
      PROVE  SessionInv'
  <2> DEFINE m == [kind |-> "error", live |-> TRUE, options |-> {}, value |-> None]
  <2>1. m \in Message /\ m.kind \in Responses /\ m.live /\ m.kind # "ok"
    BY DEF Message, Responses
  <2>2. sent' = [sent EXCEPT ![r] = Append(@, m)]
    BY <1>4 DEF Send
  <2> HIDE DEF m
  <2>3. opened' = [opened EXCEPT ![r] = opened[r]] /\ opened[r] \in Sessions \cup {None}
    BY <1>1, <1>4
  <2> QED BY <1>2, <2>1, <2>2, <2>3, Responding
<1> QED BY <1>3, <1>4 DEF AgentOpens

\* The prompt is answered.
LEMMA AgentAnswersKeeps ==
  ASSUME SessionInv, NEW r \in Runs, AgentAnswers(r)
  PROVE  SessionInv'
<1>1. PICK s \in {"completed", "interrupted", "failed", None} :
        Send(r, [kind |-> IF s = None THEN "error" ELSE "ok", live |-> TRUE,
                 options |-> {}, value |-> s])
  BY DEF AgentAnswers
<1> DEFINE m == [kind |-> IF s = None THEN "error" ELSE "ok", live |-> TRUE,
                 options |-> {}, value |-> s]
<1>2. /\ m \in Message /\ m.kind \in Responses /\ m.live
      /\ m.kind = "ok" => m.value \in Stops
  BY DEF Message, Responses, Stops
<1>3. sent' = [sent EXCEPT ![r] = Append(@, m)]
  BY <1>1 DEF Send
<1> HIDE DEF m
<1>4. opened \in [Runs -> Sessions \cup {None}]
  BY DEF SessionInv, SessionType
<1>5. /\ agent[r] = "working" /\ agent' = [agent EXCEPT ![r] = "ready"]
      /\ UNCHANGED <<sid, status, pc, gated, load, history, fatal, items, ready, prompted,
                     opened, seen, gate, outcome, decided>>
  BY DEF AgentAnswers
<1>6. opened' = [opened EXCEPT ![r] = opened[r]] /\ opened[r] \in Sessions \cup {None}
  BY <1>4, <1>5
<1> QED BY <1>2, <1>3, <1>5, <1>6, Responding

\* An agent that dies has sent what it has sent.
LEMMA AgentDiesKeeps ==
  ASSUME SessionInv, NEW r \in Runs, AgentDies(r)
  PROVE  SessionInv'
<1> USE DEF SessionInv
<1>1. /\ agent[r] \notin {"none", "dead"} /\ agent' = [agent EXCEPT ![r] = "dead"]
      /\ UNCHANGED <<sid, status, pc, gated, load, history, fatal, items, ready, prompted,
                     opened, sent, seen, gate, outcome, decided>>
  BY DEF AgentDies
<1>2. agent \in [Runs -> Opening \cup {"none", "ready", "working", "dead"}]
      /\ RunInv(r)
  BY DEF SessionType
<1>3. agent'[r] = "dead" /\ SessionType'
  BY <1>1, <1>2 DEF SessionType
<1>4. \A u \in Runs \ {r} : Same(u)
  BY <1>1, <1>2 DEF Same
<1>5. Phase(r)' /\ SessionKept(r)'
  BY <1>1, <1>2, <1>3, SessionStays DEF RunInv, Phase, Starting, Opening
<1>6. Stream(r)' /\ Work(r)' /\ Obeyed(r)'
  BY <1>1, <1>2, <1>3, StreamStays, WorkStays, ObeyedStays DEF RunInv
<1>7. Bounded(r)'
  <2>1. Answers(r) <= Answers(r)'
    BY <1>1, <1>3 DEF Answers, Opening
  <2> QED BY <1>1, <1>2, <2>1, BoundStays DEF RunInv
<1>8. RunInv(r)'
  BY <1>5, <1>6, <1>7 DEF RunInv
<1> QED BY <1>1, <1>3, <1>4, <1>8, RunSteps

-----------------------------------------------------------------------------
(***************************************************************************)
(* What the connection makes of a message                                  *)
(***************************************************************************)
\* A dispatched message other than a response is a replay exactly if it finds
\* the history flag up, and no response was waiting to be taken up.
LEMMA FlagTellsReplays ==
  ASSUME SessionInv, NEW r \in Runs, NEW n \in DOMAIN sent[r], n = seen[r] + 1,
         pc[r] \in {"loading", "creating", "prompt"}
  PROVE  /\ ready[r] = None /\ status[r] # "completed" /\ agent[r] # "none"
         /\ sent[r][n].kind \in Unsolicited => (history[r] <=> ~sent[r][n].live)
<1>1. RunInv(r) /\ seen[r] \in Nat /\ DOMAIN sent[r] = 1..Len(sent[r]) /\ Len(sent[r]) \in Nat
  BY InPositions DEF SessionInv, SessionType
<1>2. ready[r] = None /\ status[r] # "completed" /\ agent[r] # "none"
  BY <1>1 DEF RunInv, Stream, Taken, Phase, Opening
<1>3. InPlace(r, n) /\ Phase(r) /\ n > seen[r]
  BY <1>1 DEF RunInv, Stream
<1>4. ASSUME sent[r][n].kind \in Unsolicited PROVE history[r] <=> ~sent[r][n].live
  <2>1. sent[r][n].kind \notin Responses
    BY <1>4 DEF Unsolicited, Responses
  <2> QED BY <1>3, <1>4, <2>1 DEF InPlace, Phase
<1> QED BY <1>2, <1>4

\* The effects a message may have: on the record of the turn, and on its fate.
Recorded(r, n) ==
  /\ items'[r] = items[r] \/ (items'[r] = items[r] \cup {n} /\ sent[r][n].live)
  /\ gate'[r] = gate[r] \/ (gate'[r] = gate[r] \cup {n} /\ sent[r][n].live)
  /\ \A k \in Positions : k # n => outcome'[r][k] = outcome[r][k]
  /\ sent[r][n].live \/ outcome'[r][n] \in {"", "cancelled"}
  /\ sent[r][n].kind = "update" /\ sent[r][n].live /\ InProgress(r) => n \in items'[r]

Judged(r, n) ==
  /\ fatal'[r] = fatal[r] \/ (fatal'[r] = TRUE /\ Refused(r, n))
  /\ \A k \in Positions : k # n => outcome'[r][k] = outcome[r][k]
  /\ r \in gated => outcome'[r][n] \notin Allow
  /\ r \notin gated /\ Refused(r, n) => fatal'[r] = TRUE

Waiting(r, n) == \/ ready'[r] = None
                 \/ ready'[r] = sent[r][n] /\ sent[r][n].kind \in Responses

\* A message that has the effects its kind may have.
LEMMA Dispatching ==
  ASSUME SessionInv, SessionType', NEW r \in Runs, NEW n \in DOMAIN sent[r], n = seen[r] + 1,
         pc[r] \in {"loading", "creating", "prompt"},
         seen' = [seen EXCEPT ![r] = n],
         \A u \in Runs \ {r} : Same(u),
         UNCHANGED <<sid, status, pc, gated, load, history, prompted, agent, opened, sent, decided>>,
         Waiting(r, n), Recorded(r, n), Judged(r, n)
  PROVE  SessionInv'
<1>1. /\ RunInv(r) /\ seen[r] \in Nat /\ DOMAIN sent[r] = 1..Len(sent[r])
      /\ Len(sent[r]) \in Nat /\ DOMAIN sent[r] \subseteq Positions
      /\ seen \in [Runs -> Nat]
  BY InPositions DEF SessionInv, SessionType
<1>2. seen'[r] = n /\ n \in Nat /\ n <= Len(sent[r])
  BY <1>1
<1>3. ready[r] = None /\ status[r] # "completed" /\ agent[r] # "none"
  BY FlagTellsReplays
<1>4. Phase(r)' /\ SessionKept(r)'
  BY <1>1, PhaseStays, SessionStays DEF RunInv
<1>5. Stream(r)'
  <2>1. ASSUME NEW k \in DOMAIN sent[r] PROVE InPlace(r, k)'
    <3>1. InPlace(r, k) /\ (k > n => k > seen[r])
      BY <1>1 DEF RunInv, Stream
    <3> QED BY <1>2, <3>1 DEF InPlace
  <2>2. Taken(r)'
    <3>1. InPlace(r, n) /\ n > seen[r]
      BY <1>1 DEF RunInv, Stream
    <3>2. CASE ready'[r] = None
      BY <3>2 DEF Taken
    <3>3. CASE ready'[r] = sent[r][n] /\ sent[r][n].kind \in Responses
      BY <1>1, <1>2, <3>1, <3>3 DEF InPlace, Taken, Opening
    <3> QED BY <3>2, <3>3 DEF Waiting
  <2> QED BY <1>2, <1>3, <2>1, <2>2 DEF Stream
<1>6. Bounded(r)'
  <2>1. Answers(r)' = Answers(r) /\ Answers(r) \in Nat
    BY DEF Answers
  <2> QED BY <1>1, <2>1, BoundStays DEF RunInv, SessionInv
<1>7. Work(r)'
  <2>1. Work(r) /\ 1..seen[r] \subseteq 1..n /\ n \in 1..n
    BY <1>1, <1>2 DEF RunInv
  <2>2. items'[r] \subseteq 1..n /\ gate'[r] \subseteq 1..n
    BY <2>1 DEF Work, Recorded
  <2>3. ASSUME NEW k \in Positions, outcome'[r][k] # "" PROVE k <= n
    <3>1. CASE k = n
      BY <1>2, <3>1
    <3>2. CASE k # n
      <4>1. k \in Nat
        BY MaxSentAssumption DEF Positions, MaxLen
      <4>2. k <= seen[r]
        BY <2>1, <2>3, <3>2 DEF Work, Recorded
      <4> QED BY <1>1, <4>1, <4>2
    <3> QED BY <3>1, <3>2
  <2>4. ASSUME NEW k \in DOMAIN sent[r], ~sent[r][k].live
        PROVE  /\ k \notin items'[r] /\ k \notin gate'[r]
               /\ outcome'[r][k] \in {"", "cancelled"}
    <3>1. /\ k \notin items[r] /\ k \notin gate[r]
          /\ outcome[r][k] \in {"", "cancelled"} /\ k \in Positions
      BY <1>1, <2>1, <2>4 DEF Work
    <3> QED BY <2>4, <3>1 DEF Recorded
  <2>5. ASSUME status[r] = "inProgress", NEW k \in DOMAIN sent[r], k <= n,
               sent[r][k].kind = "update", sent[r][k].live
        PROVE  k \in items'[r]
    <3>1. k = n \/ k <= seen[r]
      BY <1>1, <2>5
    <3> QED BY <2>1, <2>5, <3>1 DEF Work, InProgress, Recorded
  <2> QED BY <1>2, <1>3, <2>2, <2>3, <2>4, <2>5 DEF Work
<1>8. Obeyed(r)'
  <2>1. Obeyed(r) /\ \A k \in DOMAIN sent[r] : Refused(r, k)' = Refused(r, k)
    BY <1>1 DEF RunInv, Refused
  <2>2. fatal'[r] => \E k \in DOMAIN sent[r] : Refused(r, k)'
    BY <2>1 DEF Obeyed, Judged
  <2>3. ASSUME r \in gated, NEW k \in Positions, outcome'[r][k] \in Allow
        PROVE  /\ decided[r][k] \in {"accept", "acceptForSession"}
               /\ k \in DOMAIN sent[r] /\ outcome'[r][k] \in sent[r][k].options
    <3>1. k # n /\ outcome'[r][k] = outcome[r][k]
      BY <2>3 DEF Judged
    <3> QED BY <2>1, <2>3, <3>1 DEF Obeyed
  <2>4. ASSUME r \notin gated, NEW k \in DOMAIN sent[r], k <= n, Refused(r, k)'
        PROVE  fatal'[r]
    <3>1. k = n \/ k <= seen[r]
      BY <1>1, <2>4
    <3>2. CASE k = n
      BY <2>1, <2>4, <3>2 DEF Judged
    <3>3. CASE k <= seen[r]
      <4>1. fatal[r]
        BY <2>1, <2>4, <3>3 DEF Obeyed
      <4>2. fatal'[r] = fatal[r] \/ fatal'[r] = TRUE
        BY DEF Judged
      <4> QED BY <4>1, <4>2
    <3> QED BY <3>1, <3>2, <3>3
  <2> QED BY <1>2, <1>3, <2>2, <2>3, <2>4 DEF Obeyed
<1>9. RunInv(r)'
  BY <1>4, <1>5, <1>6, <1>7, <1>8 DEF RunInv
<1> QED BY <1>9, RunSteps

\* Telling the agent what became of its request.
LEMMA OutcomeIs ==
  ASSUME SessionInv, NEW r \in Runs, NEW n \in Positions,
         NEW o \in Allow \cup Reject \cup {"", "cancelled"}, Outcome(r, n, o)
  PROVE  /\ outcome' \in [Runs -> [Positions -> Allow \cup Reject \cup {"", "cancelled"}]]
         /\ outcome'[r][n] = o /\ \A k \in Positions : k # n => outcome'[r][k] = outcome[r][k]
         /\ \A u \in Runs \ {r} : outcome'[u] = outcome[u]
<1>1. outcome \in [Runs -> [Positions -> Allow \cup Reject \cup {"", "cancelled"}]]
  BY DEF SessionInv, SessionType
<1>2. outcome' = [outcome EXCEPT ![r][n] = o]
  BY DEF Outcome
<1> QED BY <1>1, <1>2

\* Each kind of message has one of the effects above.
LEMMA DispatchKeeps ==
  ASSUME SessionInv, NEW r \in Runs, Dispatch(r)
  PROVE  SessionInv'
<1> DEFINE n == seen[r] + 1
<1>1. /\ pc[r] \in {"loading", "creating", "prompt"} /\ n \in DOMAIN sent[r]
      /\ seen' = [seen EXCEPT ![r] = n]
      /\ UNCHANGED <<sid, status, pc, path, gated, load, history, prompted, agent, opened, sent>>
  BY DEF Dispatch
<1>a. sent[r] \in Seq(Message) /\ n \in Positions
  BY <1>1, InPositions
<1>b. sent[r][n] \in Message
  BY <1>1, <1>a
<1>2. /\ n \in Positions /\ n \in Nat /\ seen \in [Runs -> Nat] /\ sent[r][n] \in Message
      /\ items \in [Runs -> SUBSET Nat] /\ gate \in [Runs -> SUBSET Nat]
      /\ fatal \in [Runs -> BOOLEAN] /\ ready \in [Runs -> Message \cup {None}]
  <2>1. /\ seen \in [Runs -> Nat] /\ items \in [Runs -> SUBSET Nat]
        /\ gate \in [Runs -> SUBSET Nat] /\ fatal \in [Runs -> BOOLEAN]
        /\ ready \in [Runs -> Message \cup {None}]
    BY DEF SessionInv, SessionType
  <2>2. n \in Nat
    BY <2>1
  <2> QED BY <1>a, <1>b, <2>1, <2>2
<1>3. /\ ready[r] = None /\ status[r] # "completed" /\ agent[r] # "none"
      /\ sent[r][n].kind \in Unsolicited => (history[r] <=> ~sent[r][n].live)
  BY <1>1, FlagTellsReplays
<1>4. outcome[r][n] = ""
  <2>1. Work(r) /\ ~(n <= seen[r])
    BY <1>2 DEF SessionInv, RunInv
  <2> QED BY <1>2, <2>1 DEF Work
<1>5. seen' \in [Runs -> Nat] /\ \A u \in Runs \ {r} : seen'[u] = seen[u]
  BY <1>1, <1>2
<1>6. CASE /\ sent[r][n].kind = "update"
           /\ ApplyUpdate(r, n) /\ UNCHANGED ready
  <2>1. /\ items' = IF ~history[r] /\ InProgress(r)
                    THEN [items EXCEPT ![r] = @ \cup {n}] ELSE items
        /\ UNCHANGED <<fatal, gate, outcome, decided, ready>>
    BY <1>6 DEF ApplyUpdate
  <2>2. sent[r][n].kind \in Unsolicited
    BY <1>6 DEF Unsolicited
  <2>3. /\ items' \in [Runs -> SUBSET Nat] /\ \A u \in Runs \ {r} : items'[u] = items[u]
        /\ ~history[r] /\ InProgress(r) => items'[r] = items[r] \cup {n}
        /\ ~(~history[r] /\ InProgress(r)) => items'[r] = items[r]
    BY <1>2, <2>1
  <2>4. SessionType'
    BY <1>1, <1>5, <2>1, <2>3 DEF SessionInv, SessionType
  <2>5. \A u \in Runs \ {r} : Same(u)
    BY <1>1, <1>5, <2>1, <2>3 DEF Same
  <2>6. ~Refused(r, n) /\ outcome'[r][n] = "" /\ "" \notin Allow
    BY <1>4, <1>6, <2>1 DEF Refused, Allow
  <2> HIDE DEF n
  <2>7. n = seen[r] + 1
    BY DEF n
  <2>8. Waiting(r, n) /\ Recorded(r, n) /\ Judged(r, n)
    BY <1>3, <2>1, <2>2, <2>3, <2>6 DEF Waiting, Recorded, Judged
  <2> QED BY <1>1, <2>1, <2>4, <2>5, <2>7, <2>8, Dispatching
<1>7. CASE /\ sent[r][n].kind = "permission"
           /\ RequestPermission(r, n) /\ UNCHANGED ready
  <2>1. /\ sent[r][n].kind \in Unsolicited /\ UNCHANGED <<items, decided, ready>>
        /\ sent[r][n].kind # "update"
    BY <1>7 DEF Unsolicited, RequestPermission, AutoAllow, ParkApproval
  <2>2. ASSUME NEW o \in Allow \cup Reject \cup {"", "cancelled"}, Outcome(r, n, o),
               UNCHANGED gate, o \in {"", "cancelled"} \/ (r \notin gated /\ ~history[r]),
               \/ fatal' = fatal /\ (history[r] \/ r \in gated \/ ~Refused(r, n))
               \/ fatal' = [fatal EXCEPT ![r] = TRUE] /\ Refused(r, n)
        PROVE  SessionInv'
    <3>1. /\ outcome' \in [Runs -> [Positions -> Allow \cup Reject \cup {"", "cancelled"}]]
          /\ outcome'[r][n] = o /\ \A k \in Positions : k # n => outcome'[r][k] = outcome[r][k]
          /\ \A u \in Runs \ {r} : outcome'[u] = outcome[u]
      BY <1>2, <2>2, OutcomeIs
    <3>2. /\ fatal' \in [Runs -> BOOLEAN] /\ \A u \in Runs \ {r} : fatal'[u] = fatal[u]
          /\ fatal'[r] = fatal[r] \/ (fatal'[r] = TRUE /\ Refused(r, n))
          /\ r \notin gated /\ Refused(r, n) => fatal'[r] = TRUE
      BY <1>2, <1>3, <2>1, <2>2 DEF Refused
    <3>3. SessionType'
      BY <1>1, <1>5, <2>1, <2>2, <3>1, <3>2 DEF SessionInv, SessionType
    <3>4. \A u \in Runs \ {r} : Same(u)
      BY <1>1, <1>5, <2>1, <2>2, <3>1, <3>2 DEF Same
    <3>5. /\ sent[r][n].live \/ outcome'[r][n] \in {"", "cancelled"}
          /\ r \in gated => outcome'[r][n] \notin Allow
      BY <1>3, <2>1, <2>2, <3>1 DEF Allow
    <3>6. items'[r] = items[r] /\ gate'[r] = gate[r] /\ ready'[r] = None
      BY <1>3, <2>1, <2>2
    <3> HIDE DEF n
    <3>7. n = seen[r] + 1
      BY DEF n
    <3>8. Waiting(r, n) /\ Recorded(r, n) /\ Judged(r, n)
      BY <2>1, <3>1, <3>2, <3>5, <3>6 DEF Waiting, Recorded, Judged
    <3> QED BY <1>1, <2>1, <3>3, <3>4, <3>7, <3>8, Dispatching
  <2>3. CASE history[r]
    BY <1>7, <2>2, <2>3 DEF RequestPermission
  <2>4. CASE ~history[r] /\ r \notin gated
    <3>1. AutoAllow(r, n)
      BY <1>7, <2>4 DEF RequestPermission
    <3>2. CASE sent[r][n].options \cap Allow # {}
      <4>1. PICK o \in sent[r][n].options \cap Allow : Outcome(r, n, o)
        BY <3>1, <3>2 DEF AutoAllow
      <4>2. UNCHANGED <<fatal, gate>> /\ ~Refused(r, n)
        BY <3>1, <3>2 DEF AutoAllow, Refused
      <4> QED BY <2>2, <2>4, <4>1, <4>2
    <3>3. CASE sent[r][n].options \cap Allow = {}
      <4>1. /\ Outcome(r, n, "cancelled") /\ fatal' = [fatal EXCEPT ![r] = TRUE]
            /\ UNCHANGED gate /\ Refused(r, n)
        BY <1>3, <1>7, <2>1, <2>4, <3>1, <3>3 DEF AutoAllow, Refused
      <4> QED BY <2>2, <4>1
    <3> QED BY <3>2, <3>3
  <2>5. CASE ~history[r] /\ r \in gated
    <3>1. ParkApproval(r, n) /\ UNCHANGED <<fatal, decided>>
      BY <1>7, <2>5 DEF RequestPermission, ParkApproval
    <3>2. CASE InProgress(r) /\ gate[r] = {}
      <4>1. gate' = [gate EXCEPT ![r] = @ \cup {n}] /\ UNCHANGED outcome
        BY <3>1, <3>2 DEF ParkApproval
      <4>2. /\ gate' \in [Runs -> SUBSET Nat] /\ gate'[r] = gate[r] \cup {n}
            /\ \A u \in Runs \ {r} : gate'[u] = gate[u]
        BY <1>2, <4>1
      <4>3. SessionType'
        BY <1>1, <1>5, <2>1, <3>1, <4>1, <4>2 DEF SessionInv, SessionType
      <4>4. \A u \in Runs \ {r} : Same(u)
        BY <1>1, <1>5, <2>1, <3>1, <4>1, <4>2 DEF Same
      <4>5. outcome'[r][n] = "" /\ "" \notin Allow
        BY <1>4, <4>1 DEF Allow
      <4> HIDE DEF n
      <4>6. n = seen[r] + 1
        BY DEF n
      <4>7. Waiting(r, n) /\ Recorded(r, n) /\ Judged(r, n)
        BY <1>3, <2>1, <2>5, <3>1, <4>1, <4>2, <4>5 DEF Waiting, Recorded, Judged
      <4> QED BY <1>1, <2>1, <4>3, <4>4, <4>6, <4>7, Dispatching
    <3>3. CASE ~(InProgress(r) /\ gate[r] = {})
      BY <2>2, <2>5, <3>1, <3>3 DEF ParkApproval
    <3> QED BY <3>2, <3>3
  <2> QED BY <2>3, <2>4, <2>5
<1>8. CASE /\ sent[r][n].kind \in Responses
           /\ ready' = [ready EXCEPT ![r] = sent[r][n]]
           /\ UNCHANGED <<items, fatal, gate, outcome, decided>>
  <2>1. /\ ready' \in [Runs -> Message \cup {None}] /\ ready'[r] = sent[r][n]
        /\ \A u \in Runs \ {r} : ready'[u] = ready[u]
    BY <1>2, <1>8
  <2>2. SessionType'
    BY <1>1, <1>5, <1>8, <2>1 DEF SessionInv, SessionType
  <2>3. \A u \in Runs \ {r} : Same(u)
    BY <1>1, <1>5, <1>8, <2>1 DEF Same
  <2>4. ~Refused(r, n) /\ sent[r][n].kind # "update" /\ outcome'[r][n] = "" /\ "" \notin Allow
    BY <1>4, <1>8 DEF Refused, Allow, Responses
  <2> HIDE DEF n
  <2>5. n = seen[r] + 1
    BY DEF n
  <2>6. Waiting(r, n) /\ Recorded(r, n) /\ Judged(r, n)
    BY <1>8, <2>1, <2>4 DEF Waiting, Recorded, Judged
  <2> QED BY <1>1, <1>8, <2>2, <2>3, <2>5, <2>6, Dispatching
<1> QED BY <1>6, <1>7, <1>8 DEF Dispatch

-----------------------------------------------------------------------------
(***************************************************************************)
(* The answer of the parent                                                *)
(***************************************************************************)
\* decision_option selects an option that was offered, and one that allows only
\* for a decision to accept.
LEMMA DecisionIsOffered ==
  ASSUME NEW options \in SUBSET (Allow \cup Reject), NEW d \in Decisions
  PROVE  /\ DecisionOption(options, d) \in options \cup {"cancelled"}
         /\ DecisionOption(options, d) \in Allow => d \in {"accept", "acceptForSession"}
<1> DEFINE preferred == CASE d = "accept" -> <<"allowOnce", "allowAlways">>
                          [] d = "acceptForSession" -> <<"allowAlways", "allowOnce">>
                          [] d = "decline" -> <<"rejectOnce", "rejectAlways">>
                          [] d = "cancel" -> <<>>
           offered == {i \in DOMAIN preferred : preferred[i] \in options}
<1>1. DecisionOption(options, d) = IF offered = {} THEN "cancelled" ELSE preferred[Min(offered)]
  BY DEF DecisionOption
<1>2. /\ DOMAIN preferred \subseteq {1, 2}
      /\ \A i \in DOMAIN preferred : preferred[i] \in Allow => d \in {"accept", "acceptForSession"}
  <2>1. CASE d = "accept"
    BY <2>1
  <2>2. CASE d = "acceptForSession"
    BY <2>2
  <2>3. CASE d = "decline"
    <3>1. preferred = <<"rejectOnce", "rejectAlways">>
      BY <2>3
    <3> HIDE DEF preferred
    <3>2. /\ DOMAIN preferred = {1, 2}
          /\ preferred[1] = "rejectOnce" /\ preferred[2] = "rejectAlways"
      BY <3>1, Pair
    <3> QED BY <3>2 DEF Allow
  <2>4. CASE d = "cancel"
    <3>1. preferred = <<>>
      BY <2>4
    <3>2. DOMAIN preferred = {}
      BY <3>1, EmptySequence
    <3> HIDE DEF preferred
    <3> QED BY <3>2
  <2> QED BY <2>1, <2>2, <2>3, <2>4 DEF Decisions
<1>3. "cancelled" \notin Allow
  BY DEF Allow
<1> HIDE DEF preferred
<1>4. ASSUME offered # {} PROVE Min(offered) \in offered
  <2>1. \E x \in offered : \A y \in offered : x <= y
    <3>1. CASE 1 \in offered
      BY <1>2, <3>1
    <3>2. CASE 1 \notin offered
      BY <1>2, <1>4, <3>2
    <3> QED BY <3>1, <3>2
  <2> QED BY <2>1 DEF Min
<1> QED BY <1>1, <1>2, <1>3, <1>4

\* The decision about a parked request, or the end of its turn, is told.
LEMMA FinishKeeps ==
  ASSUME SessionInv, NEW r \in Runs, FinishGatedPermission(r)
  PROVE  SessionInv'
<1>1. PICK n \in gate[r] :
        /\ \/ /\ InProgress(r)
              /\ \E d \in Decisions :
                   /\ decided' = [decided EXCEPT ![r][n] = d]
                   /\ Outcome(r, n, DecisionOption(sent[r][n].options, d))
           \/ ~InProgress(r) /\ Outcome(r, n, "cancelled") /\ UNCHANGED decided
        /\ gate' = [gate EXCEPT ![r] = @ \ {n}]
  BY DEF FinishGatedPermission
<1>2. UNCHANGED <<sid, status, pc, gated, load, history, fatal, items, ready, prompted,
                  agent, opened, sent, seen>>
  BY DEF FinishGatedPermission
<1>3. /\ gate \in [Runs -> SUBSET Nat] /\ RunInv(r) /\ seen[r] \in Nat
      /\ decided \in [Runs -> [Positions -> Decisions \cup {None}]]
  BY DEF SessionInv, SessionType
<1>4. /\ gate' \in [Runs -> SUBSET Nat] /\ gate'[r] \subseteq gate[r]
      /\ \A u \in Runs \ {r} : gate'[u] = gate[u]
  BY <1>1, <1>3
<1>5. sent[r] \in Seq(Message) /\ DOMAIN sent[r] = 1..Len(sent[r]) /\ Len(sent[r]) \in Nat
      /\ DOMAIN sent[r] \subseteq Positions
  BY InPositions
<1>6. n \in DOMAIN sent[r] /\ n \in Positions /\ n <= seen[r] /\ n \in Nat
  <2>1. n \in 1..seen[r] /\ seen[r] <= Len(sent[r])
    BY <1>1, <1>3 DEF RunInv, Work, Stream
  <2>2. n \in 1..Len(sent[r]) /\ n <= seen[r] /\ n \in Nat
    BY <1>3, <1>5, <2>1
  <2> QED BY <1>5, <2>2
<1>7. sent[r][n].live /\ sent[r][n] \in Message
  <2>1. sent[r][n] \in Message
    BY <1>5, <1>6
  <2> QED BY <1>1, <1>3, <1>6, <2>1 DEF RunInv, Work
<1>8. \E o \in Allow \cup Reject \cup {"", "cancelled"} :
        /\ Outcome(r, n, o)
        /\ decided' \in [Runs -> [Positions -> Decisions \cup {None}]]
        /\ \A u \in Runs \ {r} : decided'[u] = decided[u]
        /\ \A k \in Positions : k # n => decided'[r][k] = decided[r][k]
        /\ o \in Allow => decided'[r][n] \in {"accept", "acceptForSession"} /\ o \in sent[r][n].options
  <2>1. CASE UNCHANGED decided /\ Outcome(r, n, "cancelled")
    <3>1. "cancelled" \notin Allow
      BY DEF Allow
    <3> QED BY <1>3, <2>1, <3>1
  <2>2. ASSUME NEW d \in Decisions, decided' = [decided EXCEPT ![r][n] = d],
               Outcome(r, n, DecisionOption(sent[r][n].options, d))
        PROVE  <1>8!:
    <3> DEFINE o == DecisionOption(sent[r][n].options, d)
    <3>1. sent[r][n].options \in SUBSET (Allow \cup Reject)
      BY <1>7 DEF Message
    <3>2. o \in sent[r][n].options \cup {"cancelled"} /\ (o \in Allow => d \in {"accept", "acceptForSession"})
      BY <3>1, DecisionIsOffered
    <3>3. Outcome(r, n, o)
      BY <2>2
    <3> HIDE DEF o
    <3>4. /\ decided' \in [Runs -> [Positions -> Decisions \cup {None}]]
          /\ \A u \in Runs \ {r} : decided'[u] = decided[u]
          /\ \A k \in Positions : k # n => decided'[r][k] = decided[r][k]
          /\ decided'[r][n] = d
      BY <1>3, <1>6, <2>2
    <3>5. o \in Allow \cup Reject \cup {"", "cancelled"} /\ (o \in Allow => o \in sent[r][n].options)
      BY <3>1, <3>2 DEF Allow
    <3> QED BY <3>2, <3>3, <3>4, <3>5
  <2> QED BY <1>1, <2>1, <2>2
<1>9. PICK o \in Allow \cup Reject \cup {"", "cancelled"} :
        /\ Outcome(r, n, o)
        /\ decided' \in [Runs -> [Positions -> Decisions \cup {None}]]
        /\ \A u \in Runs \ {r} : decided'[u] = decided[u]
        /\ \A k \in Positions : k # n => decided'[r][k] = decided[r][k]
        /\ o \in Allow => decided'[r][n] \in {"accept", "acceptForSession"} /\ o \in sent[r][n].options
  BY <1>8
<1>10. /\ outcome' \in [Runs -> [Positions -> Allow \cup Reject \cup {"", "cancelled"}]]
       /\ outcome'[r][n] = o /\ \A k \in Positions : k # n => outcome'[r][k] = outcome[r][k]
       /\ \A u \in Runs \ {r} : outcome'[u] = outcome[u]
  BY <1>6, <1>9, OutcomeIs
<1>11. SessionType'
  BY <1>2, <1>4, <1>9, <1>10 DEF SessionInv, SessionType
<1>12. \A u \in Runs \ {r} : Same(u)
  BY <1>2, <1>4, <1>9, <1>10 DEF Same
<1>13. Phase(r)' /\ SessionKept(r)' /\ Stream(r)'
  BY <1>2, <1>3, PhaseStays, SessionStays, StreamStays DEF RunInv
<1>14. Bounded(r)'
  BY <1>2, <1>3, BoundSame DEF RunInv, SessionInv
<1>15. Work(r)'
  <2>1. Work(r)
    BY <1>3 DEF RunInv
  <2>2. ASSUME NEW k \in Positions, outcome'[r][k] # "" PROVE k <= seen[r]
    BY <1>6, <1>10, <2>1, <2>2 DEF Work
  <2>3. ASSUME NEW k \in DOMAIN sent[r], ~sent[r][k].live
        PROVE  outcome'[r][k] \in {"", "cancelled"}
    BY <1>5, <1>7, <1>10, <2>1, <2>3 DEF Work
  <2> QED BY <1>2, <1>4, <2>1, <2>2, <2>3 DEF Work
<1>16. Obeyed(r)'
  <2>1. Obeyed(r)
    BY <1>3 DEF RunInv
  <2>2. ASSUME r \in gated, NEW k \in Positions, outcome'[r][k] \in Allow
        PROVE  /\ decided'[r][k] \in {"accept", "acceptForSession"}
               /\ k \in DOMAIN sent[r] /\ outcome'[r][k] \in sent[r][k].options
    <3>1. CASE k = n
      BY <1>6, <1>9, <1>10, <2>2, <3>1
    <3>2. CASE k # n
      BY <1>9, <1>10, <2>1, <2>2, <3>2 DEF Obeyed
    <3> QED BY <3>1, <3>2
  <2> QED BY <1>2, <2>1, <2>2 DEF Obeyed, Refused
<1>17. RunInv(r)'
  BY <1>13, <1>14, <1>15, <1>16 DEF RunInv
<1> QED BY <1>2, <1>11, <1>12, <1>17, RunSteps

-----------------------------------------------------------------------------
(***************************************************************************)
(* From one response to the next                                           *)
(***************************************************************************)
\* A run ends: it is completed only by the answer to its prompt, which comes
\* after all the agent has sent.
LEMMA Ending ==
  ASSUME SessionInv, SessionType', NEW r \in Runs, pc[r] \in {"loading", "creating", "prompt"},
         pc'[r] = "done", agent'[r] = "dead", ready'[r] = None, gate'[r] = {},
         \A u \in Runs \ {r} : Same(u),
         UNCHANGED <<sid, gated, load, fatal, items, opened, prompted, sent, seen, outcome, decided>>,
         \/ status'[r] = status[r] \/ status'[r] \in {"interrupted", "failed"}
         \/ /\ status'[r] = "completed" /\ status[r] = "inProgress" /\ pc[r] = "prompt"
            /\ ready[r] # None /\ ~fatal[r]
  PROVE  SessionInv'
<1>1. RunInv(r)
  BY DEF SessionInv
<1>2. status[r] # "completed"
  BY <1>1 DEF RunInv, Phase
<1>3. Phase(r)' /\ SessionKept(r)' /\ Stream(r)'
  <2>1. Phase(r)'
    BY <1>1, <1>2 DEF RunInv, Phase, Starting, Opening
  <2> QED BY <1>1, <2>1, SessionStays, StreamStays DEF RunInv
<1>4. Bounded(r)'
  <2>1. Answers(r)' = 2 /\ Answers(r) \in 0..2
    BY DEF Answers, Opening
  <2> QED BY <1>1, <2>1, BoundStays DEF RunInv, SessionInv
<1>5. Work(r)' /\ Obeyed(r)'
  <2>1. CASE status'[r] = status[r] \/ status'[r] \in {"interrupted", "failed"}
    BY <1>1, <1>2, <2>1, WorkStays, ObeyedStays DEF RunInv
  <2>2. CASE /\ status'[r] = "completed" /\ status[r] = "inProgress" /\ pc[r] = "prompt"
             /\ ready[r] # None /\ ~fatal[r]
    <3>1. seen[r] = Len(sent[r]) /\ Work(r) /\ Obeyed(r)
      BY <1>1, <2>2 DEF RunInv, Stream, Taken
    <3>2. Work(r)'
      BY <2>2, <3>1 DEF Work
    <3>3. Obeyed(r)'
      BY <2>2, <3>1 DEF Obeyed, Refused
    <3> QED BY <3>2, <3>3
  <2> QED BY <2>1, <2>2
<1>6. RunInv(r)'
  BY <1>3, <1>4, <1>5 DEF RunInv
<1> QED BY <1>6, RunSteps

\* A prompt leaves after the response that names the session.
LEMMA Prompting ==
  ASSUME SessionInv, SessionType', NEW r \in Runs, pc[r] \in Opening, ready[r] # None,
         pc'[r] = "prompt", ready'[r] = None, ~history'[r], sid' # None,
         agent'[r] = (IF agent[r] = "dead" THEN "dead" ELSE "working"),
         prompted'[r] = opened[r], opened[r] # None,
         \A u \in Runs \ {r} : Same(u),
         UNCHANGED <<status, gated, load, fatal, items, opened, sent, seen, gate, outcome, decided>>
  PROVE  SessionInv'
<1>1. RunInv(r)
  BY DEF SessionInv
<1>2. /\ status[r] # "completed" /\ agent[r] \in {"ready", "dead"} /\ seen[r] = Len(sent[r])
      /\ Len(sent[r]) \in Nat /\ DOMAIN sent[r] = 1..Len(sent[r])
  BY <1>1, InPositions DEF RunInv, Phase, Stream, Taken, Opening
<1>3. Phase(r)' /\ SessionKept(r)'
  BY <1>2 DEF Phase, SessionKept, Starting, Opening
<1>4. Stream(r)'
  <2>1. ASSUME NEW n \in DOMAIN sent[r] PROVE InPlace(r, n)'
    <3>1. InPlace(r, n) /\ ~(n > seen[r])
      BY <1>1, <1>2 DEF RunInv, Stream
    <3> QED BY <3>1 DEF InPlace, Opening
  <2>2. Taken(r)'
    BY DEF Taken
  <2> QED BY <1>2, <2>1, <2>2 DEF Stream
<1>5. Bounded(r)'
  <2>1. Answers(r) = 1 /\ Answers(r)' \in {1, 2}
    BY <1>2 DEF Answers, Opening
  <2> QED BY <1>1, <2>1, BoundStays DEF RunInv, SessionInv
<1>6. Work(r)' /\ Obeyed(r)'
  BY <1>1, WorkStays, ObeyedStays DEF RunInv
<1>7. RunInv(r)'
  BY <1>3, <1>4, <1>5, <1>6 DEF RunInv
<1> QED BY <1>7, RunSteps

\* Publishing a terminal status.
LEMMA PublishIs ==
  ASSUME SessionInv, NEW r \in Runs, NEW s \in Stops, Publish(r, s)
  PROVE  /\ status' \in [Runs -> Stops \cup {"absent", "inProgress"}]
         /\ \A u \in Runs \ {r} : status'[u] = status[u]
         /\ status'[r] = status[r] \/ (status'[r] = s /\ status[r] = "inProgress")
<1>1. status \in [Runs -> Stops \cup {"absent", "inProgress"}]
  BY DEF SessionInv, SessionType
<1> QED BY <1>1 DEF Publish, InProgress

\* What the end of a run makes of the variables of the runs.
LEMMA CloseIs ==
  ASSUME SessionInv, NEW r \in Runs, Close(r)
  PROVE  /\ agent' \in [Runs -> Opening \cup {"none", "ready", "working", "dead"}]
         /\ gate' \in [Runs -> SUBSET Nat]
         /\ pc' \in [Runs -> Starting \cup Opening \cup {"prompt", "done"}]
         /\ agent'[r] = "dead" /\ gate'[r] = {} /\ pc'[r] = "done"
         /\ \A u \in Runs \ {r} : agent'[u] = agent[u] /\ gate'[u] = gate[u] /\ pc'[u] = pc[u]
<1>1. /\ agent \in [Runs -> Opening \cup {"none", "ready", "working", "dead"}]
      /\ gate \in [Runs -> SUBSET Nat]
      /\ pc \in [Runs -> Starting \cup Opening \cup {"prompt", "done"}]
  BY DEF SessionInv, SessionType
<1> QED BY <1>1 DEF Close, Goto

\* A connection that ends with an error, with the history flag left or lowered.
LEMMA EndKeeps ==
  ASSUME SessionInv, NEW r \in Runs, pc[r] \in {"loading", "creating", "prompt"}, End(r),
         ready' = [ready EXCEPT ![r] = None],
         history' = history \/ history' = [history EXCEPT ![r] = FALSE],
         UNCHANGED <<sid, gated, load, fatal, items, opened, sent, seen, outcome, decided>>
  PROVE  SessionInv'
<1>1. Publish(r, "failed") /\ Close(r) /\ UNCHANGED prompted
  BY DEF End
<1>2. /\ status' \in [Runs -> Stops \cup {"absent", "inProgress"}]
      /\ \A u \in Runs \ {r} : status'[u] = status[u]
      /\ status'[r] = status[r] \/ status'[r] = "failed"
  <2>1. "failed" \in Stops
    BY DEF Stops
  <2> QED BY <1>1, <2>1, PublishIs
<1>3. /\ agent' \in [Runs -> Opening \cup {"none", "ready", "working", "dead"}]
      /\ gate' \in [Runs -> SUBSET Nat]
      /\ pc' \in [Runs -> Starting \cup Opening \cup {"prompt", "done"}]
      /\ agent'[r] = "dead" /\ gate'[r] = {} /\ pc'[r] = "done"
      /\ \A u \in Runs \ {r} : agent'[u] = agent[u] /\ gate'[u] = gate[u] /\ pc'[u] = pc[u]
  BY <1>1, CloseIs
<1>4. /\ ready \in [Runs -> Message \cup {None}] /\ history \in [Runs -> BOOLEAN]
  BY DEF SessionInv, SessionType
<1>5. /\ ready' \in [Runs -> Message \cup {None}] /\ history' \in [Runs -> BOOLEAN]
      /\ ready'[r] = None
      /\ \A u \in Runs \ {r} : ready'[u] = ready[u] /\ history'[u] = history[u]
  BY <1>4
<1>6. SessionType'
  BY <1>1, <1>2, <1>3, <1>5 DEF SessionInv, SessionType
<1>7. \A u \in Runs \ {r} : Same(u)
  BY <1>1, <1>2, <1>3, <1>5 DEF Same
<1> QED BY <1>1, <1>2, <1>3, <1>5, <1>6, <1>7, Ending

\* The prompt leaves for the session the response has named.
LEMMA SendPromptKeeps ==
  ASSUME SessionInv, NEW r \in Runs, pc[r] \in Opening, ready[r] # None, SendPrompt(r, opened[r]),
         opened[r] \in Sessions, sid' \in Sessions, ready' = [ready EXCEPT ![r] = None],
         \/ history' = history /\ pc[r] = "creating"
         \/ history' = [history EXCEPT ![r] = FALSE],
         UNCHANGED <<gated, load, fatal, items, opened, sent, seen, outcome, decided>>
  PROVE  SessionInv'
<1>1. /\ prompted' = [prompted EXCEPT ![r] = opened[r]] /\ UNCHANGED <<status, gate>>
      /\ agent' = [agent EXCEPT ![r] = IF @ = "dead" THEN @ ELSE "working"]
      /\ pc' = [pc EXCEPT ![r] = "prompt"]
  BY DEF SendPrompt, Goto
<1>2. /\ ready \in [Runs -> Message \cup {None}] /\ history \in [Runs -> BOOLEAN]
      /\ prompted \in [Runs -> Sessions \cup {None}]
      /\ agent \in [Runs -> Opening \cup {"none", "ready", "working", "dead"}]
      /\ pc \in [Runs -> Starting \cup Opening \cup {"prompt", "done"}]
  BY DEF SessionInv, SessionType
<1>3. /\ ready' \in [Runs -> Message \cup {None}] /\ ready'[r] = None
      /\ prompted' \in [Runs -> Sessions \cup {None}] /\ prompted'[r] = opened[r]
      /\ pc' \in [Runs -> Starting \cup Opening \cup {"prompt", "done"}] /\ pc'[r] = "prompt"
      /\ \A u \in Runs \ {r} : ready'[u] = ready[u] /\ prompted'[u] = prompted[u] /\ pc'[u] = pc[u]
  BY <1>1, <1>2
<1>4. /\ agent' \in [Runs -> Opening \cup {"none", "ready", "working", "dead"}]
      /\ agent'[r] = (IF agent[r] = "dead" THEN "dead" ELSE "working")
      /\ \A u \in Runs \ {r} : agent'[u] = agent[u]
  BY <1>1, <1>2
<1>5. /\ history' \in [Runs -> BOOLEAN] /\ \A u \in Runs \ {r} : history'[u] = history[u]
      /\ ~history'[r]
  <2>1. pc[r] = "creating" => ~history[r]
    BY DEF SessionInv, RunInv, Phase
  <2> QED BY <1>2, <2>1
<1>6. SessionType'
  BY <1>1, <1>3, <1>4, <1>5 DEF SessionInv, SessionType
<1>7. \A u \in Runs \ {r} : Same(u)
  BY <1>1, <1>3, <1>4, <1>5 DEF Same
<1>8. sid' # None /\ opened[r] # None
  BY SessionNoneAssumption
<1> QED BY <1>1, <1>3, <1>4, <1>5, <1>6, <1>7, <1>8, Prompting

\* The response to session/load or session/new names the open session.
LEMMA ResponseNamesSession ==
  ASSUME SessionInv, NEW r \in Runs, pc[r] \in Opening, ready[r] # None, ready[r].kind = "ok"
  PROVE  /\ ready[r].value = opened[r] /\ opened[r] \in Sessions
         /\ pc[r] = "loading" => load[r] = opened[r] /\ sid # None
<1>1. RunInv(r) /\ DOMAIN sent[r] = 1..Len(sent[r]) /\ Len(sent[r]) \in Nat /\ seen[r] \in Nat
  BY InPositions DEF SessionInv, SessionType
<1>2. ready[r] = sent[r][seen[r]] /\ seen[r] \in DOMAIN sent[r]
  BY <1>1 DEF RunInv, Stream, Taken
<1>3. InPlace(r, seen[r])
  BY <1>1, <1>2 DEF RunInv, Stream
<1>4. pc[r] = "loading" => sid # None
  BY <1>1 DEF RunInv, Phase, SessionKept
<1> QED BY <1>2, <1>3, <1>4 DEF InPlace

\* The answer to session/load ends the history phase.
LEMMA LoadedKeeps ==
  ASSUME SessionInv, NEW r \in Runs, Loaded(r)
  PROVE  SessionInv'
<1>1. /\ pc[r] = "loading" /\ ready[r] # None /\ pc[r] \in Opening
      /\ ready' = [ready EXCEPT ![r] = None] /\ history' = [history EXCEPT ![r] = FALSE]
      /\ UNCHANGED <<sid, gated, load, fatal, items, opened, sent, seen, outcome, decided>>
  BY DEF Loaded, Opening
<1>2. CASE ready[r].kind = "ok"
  <2>1. SendPrompt(r, load[r])
    BY <1>2 DEF Loaded
  <2>2. load[r] = opened[r] /\ opened[r] \in Sessions /\ sid # None
    BY <1>1, <1>2, ResponseNamesSession
  <2>3. SendPrompt(r, opened[r]) /\ sid' \in Sessions
    BY <1>1, <2>1, <2>2 DEF SessionInv, SessionType
  <2> QED BY <1>1, <2>2, <2>3, SendPromptKeeps
<1>3. CASE ready[r].kind # "ok"
  <2>1. End(r)
    BY <1>3 DEF Loaded
  <2> QED BY <1>1, <2>1, EndKeeps
<1> QED BY <1>2, <1>3

\* The answer to session/new is stored before the prompt leaves.
LEMMA CreatedKeeps ==
  ASSUME SessionInv, NEW r \in Runs, Created(r)
  PROVE  SessionInv'
<1>1. /\ pc[r] = "creating" /\ ready[r] # None /\ pc[r] \in Opening
      /\ ready' = [ready EXCEPT ![r] = None]
      /\ UNCHANGED <<gated, load, history, fatal, items, opened, sent, seen, outcome, decided>>
  BY DEF Created, Opening
<1>2. CASE ready[r].kind = "ok" /\ sid' = ready[r].value /\ SendPrompt(r, ready[r].value)
  <2>1. ready[r].value = opened[r] /\ opened[r] \in Sessions
    BY <1>1, <1>2, ResponseNamesSession
  <2>2. SendPrompt(r, opened[r]) /\ sid' \in Sessions
    BY <1>2, <2>1
  <2> QED BY <1>1, <2>1, <2>2, SendPromptKeeps
<1>3. CASE UNCHANGED sid /\ End(r)
  BY <1>1, <1>3, EndKeeps
<1> QED BY <1>2, <1>3 DEF Created

\* publish_stop, with the stop reason of the agent or its failure.
LEMMA AnsweredKeeps ==
  ASSUME SessionInv, NEW r \in Runs, Answered(r)
  PROVE  SessionInv'
<1> DEFINE s == IF fatal[r] \/ ready[r].kind = "error" THEN "failed" ELSE ready[r].value
<1>1. /\ pc[r] = "prompt" /\ ready[r] # None /\ Publish(r, s) /\ Close(r)
      /\ ready' = [ready EXCEPT ![r] = None]
      /\ UNCHANGED <<sid, gated, load, history, fatal, items, opened, prompted, sent, seen,
                     outcome, decided>>
  BY DEF Answered
<1>2. s \in Stops /\ (s = "completed" => ~fatal[r])
  <2>1. Taken(r)
    BY DEF SessionInv, RunInv, Stream
  <2>2. ready[r].kind # "error" => ready[r].value \in Stops
    BY <1>1, <2>1 DEF Taken, Responses
  <2>3. fatal[r] \in BOOLEAN
    BY DEF SessionInv, SessionType
  <2>4. CASE fatal[r] \/ ready[r].kind = "error"
    BY <2>4 DEF Stops
  <2>5. CASE ~(fatal[r] \/ ready[r].kind = "error")
    BY <2>2, <2>5
  <2> QED BY <2>4, <2>5
<1> HIDE DEF s
<1>3. /\ status' \in [Runs -> Stops \cup {"absent", "inProgress"}]
      /\ \A u \in Runs \ {r} : status'[u] = status[u]
      /\ status'[r] = status[r] \/ (status'[r] = s /\ status[r] = "inProgress")
  BY <1>1, <1>2, PublishIs
<1>4. /\ agent' \in [Runs -> Opening \cup {"none", "ready", "working", "dead"}]
      /\ gate' \in [Runs -> SUBSET Nat]
      /\ pc' \in [Runs -> Starting \cup Opening \cup {"prompt", "done"}]
      /\ agent'[r] = "dead" /\ gate'[r] = {} /\ pc'[r] = "done"
      /\ \A u \in Runs \ {r} : agent'[u] = agent[u] /\ gate'[u] = gate[u] /\ pc'[u] = pc[u]
  BY <1>1, CloseIs
<1>5. ready \in [Runs -> Message \cup {None}]
  BY DEF SessionInv, SessionType
<1>6. /\ ready' \in [Runs -> Message \cup {None}] /\ ready'[r] = None
      /\ \A u \in Runs \ {r} : ready'[u] = ready[u]
  BY <1>1, <1>5
<1>7. SessionType'
  BY <1>1, <1>3, <1>4, <1>6 DEF SessionInv, SessionType
<1>8. \A u \in Runs \ {r} : Same(u)
  BY <1>1, <1>3, <1>4, <1>6 DEF Same
<1>9. \/ status'[r] = status[r] \/ status'[r] \in {"interrupted", "failed"}
      \/ /\ status'[r] = "completed" /\ status[r] = "inProgress" /\ pc[r] = "prompt"
         /\ ready[r] # None /\ ~fatal[r]
  BY <1>1, <1>2, <1>3 DEF Stops
<1> QED BY <1>1, <1>4, <1>6, <1>7, <1>8, <1>9, Ending

\* The end of the stream is an error.
LEMMA DisconnectedKeeps ==
  ASSUME SessionInv, NEW r \in Runs, Disconnected(r)
  PROVE  SessionInv'
<1>1. /\ pc[r] \in {"loading", "creating", "prompt"} /\ ready[r] = None /\ End(r)
      /\ UNCHANGED <<sid, gated, load, history, fatal, items, ready, opened, sent, seen,
                     outcome, decided>>
  BY DEF Disconnected
<1>2. ready' = [ready EXCEPT ![r] = None]
  <2>1. ready \in [Runs -> Message \cup {None}]
    BY DEF SessionInv, SessionType
  <2> QED BY <1>1, <2>1
<1> QED BY <1>1, <1>2, EndKeeps

\* A turn that is ended from elsewhere is not completed.
LEMMA PublishElsewhereKeeps ==
  ASSUME SessionInv, NEW r \in Runs, PublishElsewhere(r)
  PROVE  SessionInv'
<1>1. PICK s \in {"interrupted", "failed"} : Publish(r, s)
  BY DEF PublishElsewhere
<1>2. UNCHANGED <<sid, pc, gated, load, history, fatal, items, ready, prompted, agent,
                  opened, sent, seen, gate, outcome, decided>>
  BY DEF PublishElsewhere
<1>3. /\ status' \in [Runs -> Stops \cup {"absent", "inProgress"}]
      /\ \A u \in Runs \ {r} : status'[u] = status[u]
      /\ status'[r] = status[r] \/ (status'[r] = s /\ status[r] = "inProgress")
  BY <1>1, PublishIs DEF Stops
<1>4. SessionType'
  BY <1>2, <1>3 DEF SessionInv, SessionType
<1>5. \A u \in Runs \ {r} : Same(u)
  BY <1>2, <1>3 DEF Same
<1>6. RunInv(r)
  BY DEF SessionInv
<1>7. Phase(r)' /\ SessionKept(r)' /\ Stream(r)'
  BY <1>2, <1>3, <1>6, PhaseStays, SessionStays, StreamStays DEF RunInv
<1>8. Bounded(r)'
  <2>1. Answers(r)' = Answers(r) /\ Answers(r) \in Nat /\ sent'[r] = sent[r]
    BY <1>2 DEF Answers
  <2> QED BY <1>6, <2>1, BoundStays DEF RunInv, SessionInv
<1>9. Work(r)' /\ Obeyed(r)'
  BY <1>2, <1>3, <1>6, WorkStays, ObeyedStays DEF RunInv
<1>10. RunInv(r)'
  BY <1>7, <1>8, <1>9 DEF RunInv
<1> QED BY <1>2, <1>4, <1>5, <1>10, RunSteps

-----------------------------------------------------------------------------
(***************************************************************************)
(* The theorems                                                            *)
(***************************************************************************)
\* Where a run is, what its agent has sent and what the run has made of it fit
\* together after every step of every run.
THEOREM SessionInvariant == Spec => []SessionInv
<1>1. SessionInv /\ [Next]_vars => SessionInv'
  <2> SUFFICES ASSUME SessionInv, [Next]_vars PROVE SessionInv'
    OBVIOUS
  <2>1. CASE UNCHANGED vars
    <3>1. UNCHANGED <<sid, status, pc, gated, load, history, fatal, items, ready, agent,
                      opened, prompted, sent, seen, gate, outcome, decided>>
      BY <2>1 DEF vars
    <3>2. SessionType'
      BY <3>1 DEF SessionInv, SessionType
    <3>3. ASSUME NEW r \in Runs PROVE RunInv(r)'
      BY <3>1, RunStays DEF SessionInv, Same
    <3> QED BY <3>2, <3>3 DEF SessionInv
  <2>2. ASSUME NEW r \in Runs, TurnStart(r) \/ Followup(r) PROVE SessionInv'
    BY <2>2, RequestKeeps DEF TurnStart, Followup
  <2>3. ASSUME NEW r \in Runs, Preamble(r) \/ Admit(r) \/ Initialize(r) PROVE SessionInv'
    BY <2>3, PreambleKeeps, AdmitKeeps, InitializeKeeps
  <2>4. ASSUME NEW r \in Runs, AgentSends(r) \/ AgentOpens(r) \/ AgentAnswers(r) \/ AgentDies(r)
        PROVE  SessionInv'
    BY <2>4, AgentSendsKeeps, AgentOpensKeeps, AgentAnswersKeeps, AgentDiesKeeps
  <2>5. ASSUME NEW r \in Runs, Dispatch(r) \/ FinishGatedPermission(r) PROVE SessionInv'
    BY <2>5, DispatchKeeps, FinishKeeps
  <2>6. ASSUME NEW r \in Runs, Loaded(r) \/ Created(r) \/ Answered(r) PROVE SessionInv'
    BY <2>6, LoadedKeeps, CreatedKeeps, AnsweredKeeps
  <2>7. ASSUME NEW r \in Runs, Disconnected(r) \/ PublishElsewhere(r) PROVE SessionInv'
    BY <2>7, DisconnectedKeeps, PublishElsewhereKeeps
  <2> QED BY <2>1, <2>2, <2>3, <2>4, <2>5, <2>6, <2>7 DEF Next
<1> QED BY <1>1, SessionInit, PTL DEF Spec

\* ADR-0002, "fail closed": drive_prompt sends a prompt only to the session its
\* own agent has opened, and a completed turn leaves a session on the thread.
THEOREM PromptIsInOpenSession == Spec => []PromptInOpenSession
<1>1. SessionInv => PromptInOpenSession
  <2> SUFFICES ASSUME SessionInv, NEW r \in Runs
               PROVE  /\ prompted[r] # None => prompted[r] = opened[r]
                      /\ status[r] = "completed" => sid # None
    BY DEF PromptInOpenSession
  <2>1. Phase(r) /\ SessionKept(r)
    BY DEF SessionInv, RunInv
  <2> QED BY <2>1 DEF Phase, SessionKept
<1> QED BY <1>1, SessionInvariant, PTL

\* acp-item-mapping.md, "session/load history": apply_update and the permission
\* handler make nothing of what a load replays, and a completed turn has every
\* update of its own.
THEOREM TurnHasOnlyItsUpdates == Spec => []TurnHasItsOwnUpdates
<1>1. SessionInv => TurnHasItsOwnUpdates
  <2> SUFFICES ASSUME SessionInv, NEW r \in Runs
               PROVE  /\ \A n \in DOMAIN sent[r] :
                           ~sent[r][n].live =>
                             /\ n \notin items[r] /\ n \notin gate[r]
                             /\ outcome[r][n] \in {"", "cancelled"}
                             /\ fatal[r] => \E k \in Sent(r, "permission") :
                                              sent[r][k].live /\ sent[r][k].options \cap Allow = {}
                      /\ status[r] = "completed" =>
                           {n \in Sent(r, "update") : sent[r][n].live} \subseteq items[r]
    BY DEF TurnHasItsOwnUpdates
  <2>1. /\ Work(r) /\ Obeyed(r) /\ DOMAIN sent[r] = 1..Len(sent[r]) /\ Len(sent[r]) \in Nat
    BY InPositions DEF SessionInv, RunInv
  <2>2. fatal[r] => \E k \in Sent(r, "permission") :
                      sent[r][k].live /\ sent[r][k].options \cap Allow = {}
    BY <2>1 DEF Obeyed, Refused, Sent
  <2>3. ASSUME status[r] = "completed", NEW n \in Sent(r, "update"), sent[r][n].live
        PROVE  n \in items[r]
    <3>1. n \in DOMAIN sent[r] /\ sent[r][n].kind = "update" /\ n <= Len(sent[r])
      BY <2>1 DEF Sent
    <3> QED BY <2>1, <2>3, <3>1 DEF Work
  <2>4. ASSUME NEW n \in DOMAIN sent[r], ~sent[r][n].live
        PROVE  n \notin items[r] /\ n \notin gate[r] /\ outcome[r][n] \in {"", "cancelled"}
    BY <2>1, <2>4 DEF Work
  <2> QED BY <2>2, <2>3, <2>4
<1> QED BY <1>1, SessionInvariant, PTL

\* TASK-013, "untrusted does not run a shell without grok_respond", and turn.rs,
\* "session/request_permission without allow option": finish_gated_permission
\* allows what was offered and accepted and nothing else, and a turn that was
\* refused what it asked for is never completed.
THEOREM PermissionIsObeyed == Spec => []PermissionsAreObeyed
<1>1. SessionInv => PermissionsAreObeyed
  <2> SUFFICES ASSUME SessionInv PROVE PermissionsAreObeyed
    OBVIOUS
  <2>1. ASSUME NEW r \in gated, NEW n \in Positions, outcome[r][n] \in Allow
        PROVE  /\ decided[r][n] \in {"accept", "acceptForSession"}
               /\ outcome[r][n] \in sent[r][n].options
    <3>1. r \in Runs
      BY DEF SessionInv, SessionType
    <3>2. Obeyed(r)
      BY <3>1 DEF SessionInv, RunInv
    <3> QED BY <2>1, <3>2 DEF Obeyed
  <2>2. ASSUME NEW r \in Runs \ gated, status[r] = "completed", NEW n \in Sent(r, "permission"),
               sent[r][n].live, sent[r][n].options \cap Allow = {}
        PROVE  FALSE
    <3>1. Obeyed(r) /\ Work(r) /\ DOMAIN sent[r] = 1..Len(sent[r]) /\ Len(sent[r]) \in Nat
      BY InPositions DEF SessionInv, RunInv
    <3>2. n \in DOMAIN sent[r] /\ Refused(r, n)
      BY <2>2 DEF Sent, Refused
    <3>3. n <= seen[r]
      <4>1. n <= Len(sent[r])
        BY <3>1, <3>2
      <4> QED BY <2>2, <3>1, <4>1 DEF Work
    <3> QED BY <2>2, <3>1, <3>2, <3>3 DEF Obeyed
  <2> QED BY <2>1, <2>2 DEF PermissionsAreObeyed
<1> QED BY <1>1, SessionInvariant, PTL
=============================================================================
