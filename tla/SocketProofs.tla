---------------------------- MODULE SocketProofs ----------------------------
(***************************************************************************)
(* For any number of processes, any requests and any frames: the listen    *)
(* path has one owner, the upgrade follows the documented table, and the   *)
(* frames of the threads that write to a connection do not mix.            *)
(***************************************************************************)
EXTENDS Socket, TLAPS

\* ListenerOwnsPath is inductive once server is known to be a function.
PathInv ==
  /\ server \in [Servers -> {"start", "invalid", "occupied", "bind", "listen",
                             "dead"}]
  /\ ListenerOwnsPath

\* All that happens on a connection leaves the path alone.
LEMMA ConnectionLeavesPath ==
  ASSUME \/ Connect \/ ClientReads \/ ClientCloses \/ ReaderStep
         \/ \E f \in Frames : ClientSends(f)
         \/ \E w \in Watchers : WatcherStep(w)
         \/ \E t \in Threads : ThreadStep(t)
  PROVE  UNCHANGED listenVars
<1>1. ASSUME Connect \/ ClientReads \/ ClientCloses
      PROVE  UNCHANGED listenVars
  BY <1>1 DEF Connect, ClientReads, ClientCloses
<1>2. ASSUME ReaderStep
      PROVE  UNCHANGED listenVars
  BY <1>2 DEF ReaderStep, ServeConnection, ReadFrame, ReadEof, StartWatch
<1>3. ASSUME NEW f \in Frames, ClientSends(f)
      PROVE  UNCHANGED listenVars
  BY <1>3 DEF ClientSends
<1>4. ASSUME NEW w \in Watchers, WatcherStep(w)
      PROVE  UNCHANGED listenVars
  BY <1>4 DEF WatcherStep, Watch, EndWatch
<1>5. ASSUME NEW t \in Threads, ThreadStep(t)
      PROVE  UNCHANGED listenVars
  BY <1>5 DEF ThreadStep, Lock, WriteHeader, WritePayload, WriteFails
<1> QED
  BY <1>1, <1>2, <1>3, <1>4, <1>5

\* Before any process has looked at the path.
LEMMA PathInit == Init => PathInv
BY DEF Init, PathInv, ListenerOwnsPath

\* A process that binds has found no file, or has removed a dead one's.
LEMMA PathStep == PathInv /\ [Next]_vars => PathInv'
<1> SUFFICES ASSUME PathInv, [Next]_vars
             PROVE  PathInv'
  OBVIOUS
<1> USE DEF PathInv, ListenerOwnsPath
<1>1. ASSUME UNCHANGED listenVars
      PROVE  PathInv'
  BY <1>1 DEF listenVars
<1>2. ASSUME NEW s \in Servers, Start(s)
      PROVE  PathInv'
  BY <1>2 DEF Start
<1>3. ASSUME NEW s \in Servers, Bind(s)
      PROVE  PathInv'
  <2>1. CASE file # None
    BY <1>3, <2>1 DEF Bind
  <2>2. CASE file = None
    \* Whoever listened before had made the file, and there is none.
    <3>1. \A u \in Servers : server[u] = "listen" => u \in removed
      BY <2>2, SocketNoneAssumption
    <3> QED
      BY <1>3, <2>2, <3>1 DEF Bind
  <2> QED
    BY <2>1, <2>2
<1>4. ASSUME NEW s \in Servers, Die(s)
      PROVE  PathInv'
  BY <1>4 DEF Die
<1>5. CASE RemoveFile
  BY <1>5 DEF RemoveFile
<1>6. CASE UNCHANGED vars
  BY <1>1, <1>6 DEF vars, listenVars
<1> QED
  BY <1>1, <1>2, <1>3, <1>4, <1>5, <1>6, ConnectionLeavesPath DEF Next

\* However the looks, the binds and the deaths of the processes interleave
\* (bind_listen, app_server.rs), only the process that made the file at the
\* path listens on it, unless the file was removed by hand.
THEOREM PathOwnership == Spec => []ListenerOwnsPath
<1>1. PathInv => ListenerOwnsPath
  BY DEF PathInv
<1> QED
  BY PathInit, PathStep, <1>1, PTL DEF Spec

-----------------------------------------------------------------------------
\* Nothing is written, or waits to be, for a client that was not upgraded, and
\* a client that has not been answered is the one that asks.
UpgradeInv ==
  /\ UpgradeFollowsTable
  /\ client \in {"away", "asks"} => answer = None
  /\ answer # "101" =>
       /\ wire = <<>> /\ got = <<>>
       /\ \A t \in Threads : todo[t] = <<>>
       /\ \A w \in Watchers : watcher[w] = None

\* upgrade grants a request that meets no row of the table, and names a row that
\* the request meets to every other, whatever the order of its checks.
LEMMA UpgradeIsTable ==
  ASSUME NEW r
  PROVE  IF Upgrade(r) = "101" THEN Rows(r) = {} ELSE Upgrade(r) \in Rows(r)
BY DEF Upgrade, Rows, OtherVersion, Get

\* Before the request has been read.
LEMMA UpgradeInit == Init => UpgradeInv
BY SocketNoneAssumption DEF Init, UpgradeInv, UpgradeFollowsTable

\* A step that leaves the request and its answer alone keeps the table; what it
\* writes must go to a client that was upgraded.
LEMMA AnsweredKeeps ==
  ASSUME UpgradeInv, UNCHANGED <<request, answer>>,
         client' \in {"away", "asks"} => client \in {"away", "asks"},
         answer = "101" \/ UNCHANGED <<wire, got, todo, watcher>>
  PROVE  UpgradeInv'
BY DEF UpgradeInv, UpgradeFollowsTable

\* The answer is written once, and frames only after it.
LEMMA UpgradeStep == UpgradeInv /\ [Next]_vars => UpgradeInv'
<1> SUFFICES ASSUME UpgradeInv, [Next]_vars
             PROVE  UpgradeInv'
  OBVIOUS
<1> USE DEF listenVars, inVars, writeVars, outVars, connVars
<1>1. CASE UNCHANGED vars
  BY <1>1, AnsweredKeeps DEF vars
<1>2. ASSUME NEW s \in Servers, Start(s) \/ Bind(s)
      PROVE  UpgradeInv'
  BY <1>2, AnsweredKeeps DEF Start, Bind
<1>3. ASSUME NEW s \in Servers, Die(s)
      PROVE  UpgradeInv'
  BY <1>3 DEF Die, UpgradeInv, UpgradeFollowsTable
<1>4. CASE RemoveFile
  BY <1>4, AnsweredKeeps DEF RemoveFile
<1>5. CASE Connect
  BY <1>5, SocketNoneAssumption DEF Connect, UpgradeInv, UpgradeFollowsTable
<1>6. CASE ServeConnection
  \* Nobody has been answered before, so nothing is on its way.
  <2>1. answer # "101"
    BY <1>6, SocketNoneAssumption DEF ServeConnection, UpgradeInv
  <2>2. IF answer' = "101" THEN Rows(request) = {} ELSE answer' \in Rows(request)
    BY <1>6, UpgradeIsTable DEF ServeConnection
  <2>3. got \o wire = <<>>
    BY <2>1 DEF UpgradeInv
  <2> QED
    BY <1>6, <2>1, <2>2, <2>3 DEF ServeConnection, UpgradeInv, UpgradeFollowsTable
<1>7. CASE ClientReads
  BY <1>7, AnsweredKeeps DEF ClientReads, UpgradeInv
<1>8. CASE ClientCloses
  BY <1>8 DEF ClientCloses, UpgradeInv, UpgradeFollowsTable
<1>9. ASSUME NEW f \in Frames, ClientSends(f)
      PROVE  UpgradeInv'
  BY <1>9, AnsweredKeeps DEF ClientSends
<1>10. CASE ReadFrame \/ ReadEof
  BY <1>10, AnsweredKeeps DEF ReadFrame, ReadEof
<1>11. CASE StartWatch
  BY <1>11, AnsweredKeeps DEF StartWatch, UpgradeInv, Threads
<1>12. ASSUME NEW w \in Watchers, WatcherStep(w)
       PROVE  UpgradeInv'
  BY <1>12, AnsweredKeeps, SocketNoneAssumption DEF WatcherStep, Watch, EndWatch, UpgradeInv
<1>13. ASSUME NEW t \in Threads, ThreadStep(t)
       PROVE  UpgradeInv'
  <2>1. answer = "101"
    BY <1>13 DEF ThreadStep, Lock, WriteHeader, WritePayload, WriteFails, Writing,
                 UpgradeInv
  <2>2. UNCHANGED <<request, answer, client>>
    BY <1>13 DEF ThreadStep, Lock, WriteHeader, WritePayload, WriteFails
  <2> QED
    BY <2>1, <2>2, AnsweredKeeps
<1> QED
  BY <1>1, <1>2, <1>3, <1>4, <1>5, <1>6, <1>7, <1>8, <1>9, <1>10, <1>11, <1>12,
     <1>13 DEF Next, ReaderStep

\* Whatever a client asks for (upgrade, app_server.rs), it is upgraded exactly
\* when its request meets no row of the protocol's table, is told of a row it
\* meets otherwise, and gets frames only if it was upgraded.
THEOREM UpgradeIsClosed == Spec => []UpgradeFollowsTable
<1>1. UpgradeInv => UpgradeFollowsTable
  BY DEF UpgradeInv
<1> QED
  BY UpgradeInit, UpgradeStep, <1>1, PTL DEF Spec

-----------------------------------------------------------------------------
(***************************************************************************)
(* Frames on the wire                                                      *)
(***************************************************************************)
FrameSet == [kind : {"reply", "note", "watch", "pong", "event"}, n : 1..MaxSent]
PartSet == [of : FrameSet, part : {"header", "payload"}]

\* A pong and the frame of a watcher: they may interrupt each other.
Meet(f, g) == {f.kind, g.kind} = {"pong", "event"}

\* The two halves of FramesDoNotMix, of any stream of parts.
Unmixed(s) ==
  \A i, j \in DOMAIN s :
    i < j /\ s[i] = Part(s[i].of, "header") /\ s[j] = Part(s[i].of, "payload")
      /\ (\A k \in (i + 1)..(j - 1) : s[k].of # s[i].of)
    => \A k \in (i + 1)..(j - 1) : Meet(s[i].of, s[k].of)

Replied(s, n) == \E i \in DOMAIN s : s[i] = Part(Frame("reply", n), "payload")

Told(s) ==
  \A j \in DOMAIN s :
    s[j].of.kind \in {"note", "event"} =>
      \E i \in 1..(j - 1) : s[i] = Part(Frame("reply", s[j].of.n), "payload")

\* The header of f is in the stream and only what may interrupt f has followed.
Begun(s, f) ==
  \E i \in DOMAIN s :
    /\ s[i] = Part(f, "header")
    /\ \A k \in (i + 1)..Len(s) : Meet(f, s[k].of)

\* A part has the frame and the place it was made of.
LEMMA PartFields ==
  ASSUME NEW f, NEW p, NEW g, NEW q
  PROVE  /\ Part(f, p).of = f /\ Part(f, p).part = p
         /\ Part(f, p) = Part(g, q) <=> f = g /\ p = q
<1>1. Part(f, p).of = f /\ Part(f, p).part = p /\ Part(g, q).of = g /\ Part(g, q).part = q
  BY DEF Part
<1> QED BY <1>1

\* What can be said of a sequence to which something is appended.
LEMMA AppendAt ==
  ASSUME NEW S, NEW s \in Seq(S), NEW x \in S
  PROVE  /\ DOMAIN s = 1..Len(s) /\ Len(s) \in Nat
         /\ DOMAIN Append(s, x) = 1..(Len(s) + 1) /\ Len(Append(s, x)) = Len(s) + 1
         /\ \A i \in 1..Len(s) : Append(s, x)[i] = s[i]
         /\ Append(s, x)[Len(s) + 1] = x
OBVIOUS

\* A client that reads moves a part from the wire to what it has got.
LEMMA ReadMoves ==
  ASSUME NEW S, NEW g \in Seq(S), NEW w \in Seq(S), w # <<>>
  PROVE  /\ Append(g, Head(w)) \o Tail(w) = g \o w
         /\ Append(g, Head(w)) \in Seq(S) /\ Tail(w) \in Seq(S)
OBVIOUS

\* A write to the wire is a write to the stream.
LEMMA WriteAppends ==
  ASSUME NEW S, NEW g \in Seq(S), NEW w \in Seq(S), NEW x \in S
  PROVE  g \o Append(w, x) = Append(g \o w, x) /\ g \o w \in Seq(S)
OBVIOUS

\* A header extends an unmixed stream, and so does the payload of a frame that
\* has begun.
LEMMA UnmixedAppend ==
  ASSUME NEW s \in Seq(PartSet), NEW x \in PartSet, Unmixed(s),
         x.part = "payload" => Begun(s, x.of)
  PROVE  Unmixed(Append(s, x))
<1> DEFINE t == Append(s, x)
<1>1. /\ DOMAIN s = 1..Len(s) /\ Len(s) \in Nat /\ DOMAIN t = 1..(Len(s) + 1)
      /\ \A i \in 1..Len(s) : t[i] = s[i]
      /\ t[Len(s) + 1] = x
  BY AppendAt
<1> HIDE DEF t
<1> SUFFICES ASSUME NEW i \in DOMAIN t, NEW j \in DOMAIN t, i < j,
                    t[i] = Part(t[i].of, "header"), t[j] = Part(t[i].of, "payload"),
                    \A k \in (i + 1)..(j - 1) : t[k].of # t[i].of,
                    NEW k \in (i + 1)..(j - 1)
             PROVE  Meet(t[i].of, t[k].of)
  BY DEF Unmixed, t
<1>2. i \in 1..Len(s) /\ k \in 1..Len(s) /\ t[i] = s[i] /\ t[k] = s[k]
  BY <1>1
<1>3. CASE j # Len(s) + 1
  <2>1. j \in 1..Len(s) /\ t[j] = s[j]
    BY <1>1, <1>3
  <2>2. \A m \in (i + 1)..(j - 1) : t[m] = s[m]
    BY <1>1, <2>1
  <2> QED BY <1>1, <1>2, <2>1, <2>2 DEF Unmixed
<1>4. CASE j = Len(s) + 1
  <2>1. x = Part(t[i].of, "payload")
    BY <1>1, <1>4
  <2>2. x.of = t[i].of /\ x.part = "payload"
    BY <2>1, PartFields
  <2>3. PICK b \in DOMAIN s :
          /\ s[b] = Part(t[i].of, "header")
          /\ \A m \in (b + 1)..Len(s) : Meet(t[i].of, s[m].of)
    BY <2>2 DEF Begun
  \* The header at i is the one the frame has begun with.
  <2>4. b = i
    <3>1. t[b].of = t[i].of
      BY <1>1, <2>3, PartFields
    <3>2. ~(i < b)
      BY <1>1, <1>4, <3>1
    <3>3. ~(b < i)
      <4>1. ~Meet(t[i].of, t[i].of)
        BY DEF Meet
      <4> QED BY <1>1, <1>2, <2>3, <4>1
    <3> QED BY <1>1, <3>2, <3>3
  <2> QED BY <1>2, <2>3, <2>4
<1> QED BY <1>3, <1>4

\* What is read of an unmixed stream is unmixed, whatever is lost.
LEMMA UnmixedPrefix ==
  ASSUME NEW g \in Seq(PartSet), NEW w \in Seq(PartSet), Unmixed(g \o w)
  PROVE  Unmixed(g)
<1> DEFINE s == g \o w
<1>1. /\ Len(g) \in Nat /\ DOMAIN g = 1..Len(g)
      /\ \A i \in 1..Len(g) : i \in DOMAIN s /\ s[i] = g[i]
  OBVIOUS
<1>2. Unmixed(s)
  OBVIOUS
<1> HIDE DEF s
<1> SUFFICES ASSUME NEW i \in DOMAIN g, NEW j \in DOMAIN g, i < j,
                    g[i] = Part(g[i].of, "header"), g[j] = Part(g[i].of, "payload"),
                    \A k \in (i + 1)..(j - 1) : g[k].of # g[i].of,
                    NEW k \in (i + 1)..(j - 1)
             PROVE  Meet(g[i].of, g[k].of)
  BY DEF Unmixed
<1>3. \A m \in (i + 1)..(j - 1) : s[m] = g[m]
  BY <1>1
<1>4. i \in DOMAIN s /\ j \in DOMAIN s /\ s[i] = g[i] /\ s[j] = g[j] /\ s[k] = g[k]
  BY <1>1, <1>3
<1> QED BY <1>2, <1>3, <1>4 DEF Unmixed

\* News of a thread or a turn may be appended once the reply that named it is in.
LEMMA ToldAppend ==
  ASSUME NEW s \in Seq(PartSet), NEW x \in PartSet, Told(s),
         x.of.kind \in {"note", "event"} => Replied(s, x.of.n)
  PROVE  Told(Append(s, x))
<1> DEFINE t == Append(s, x)
<1>1. /\ DOMAIN s = 1..Len(s) /\ Len(s) \in Nat /\ DOMAIN t = 1..(Len(s) + 1)
      /\ \A i \in 1..Len(s) : t[i] = s[i]
      /\ t[Len(s) + 1] = x
  BY AppendAt
<1> HIDE DEF t
<1> SUFFICES ASSUME NEW j \in DOMAIN t, t[j].of.kind \in {"note", "event"}
             PROVE  \E i \in 1..(j - 1) : t[i] = Part(Frame("reply", t[j].of.n), "payload")
  BY DEF Told, t
<1>2. CASE j # Len(s) + 1
  <2>1. j \in 1..Len(s) /\ t[j] = s[j]
    BY <1>1, <1>2
  <2>2. PICK i \in 1..(j - 1) : s[i] = Part(Frame("reply", s[j].of.n), "payload")
    BY <1>1, <2>1 DEF Told
  <2>3. t[i] = s[i]
    BY <1>1, <2>1
  <2> QED BY <2>1, <2>2, <2>3
<1>3. CASE j = Len(s) + 1
  <2>1. PICK i \in DOMAIN s : s[i] = Part(Frame("reply", x.of.n), "payload")
    BY <1>1, <1>3 DEF Replied
  <2> QED BY <1>1, <1>3, <2>1
<1> QED BY <1>2, <1>3

\* What the client has got is in order if all that was written is.
LEMMA ToldPrefix ==
  ASSUME NEW g \in Seq(PartSet), NEW w \in Seq(PartSet), Told(g \o w)
  PROVE  Told(g)
<1> DEFINE s == g \o w
<1>1. /\ Len(g) \in Nat /\ DOMAIN g = 1..Len(g)
      /\ \A i \in 1..Len(g) : i \in DOMAIN s /\ s[i] = g[i]
  OBVIOUS
<1>2. Told(s)
  OBVIOUS
<1> HIDE DEF s
<1> SUFFICES ASSUME NEW j \in DOMAIN g, g[j].of.kind \in {"note", "event"}
             PROVE  \E i \in 1..(j - 1) : g[i] = Part(Frame("reply", g[j].of.n), "payload")
  BY DEF Told
<1>3. PICK i \in 1..(j - 1) : s[i] = Part(Frame("reply", s[j].of.n), "payload")
  BY <1>1, <1>2 DEF Told
<1> QED BY <1>1, <1>3

\* A reply stays in the stream, a frame stays begun for as long as only what may
\* interrupt it follows, and its header begins it.
LEMMA StreamGrows ==
  ASSUME NEW s \in Seq(PartSet), NEW x \in PartSet
  PROVE  /\ \A n : Replied(s, n) => Replied(Append(s, x), n)
         /\ \A f : Begun(s, f) /\ Meet(f, x.of) => Begun(Append(s, x), f)
         /\ \A n : x = Part(Frame("reply", n), "payload") => Replied(Append(s, x), n)
         /\ \A f : x = Part(f, "header") => Begun(Append(s, x), f)
<1> DEFINE t == Append(s, x)
<1>1. /\ DOMAIN s = 1..Len(s) /\ Len(s) \in Nat /\ DOMAIN t = 1..(Len(s) + 1)
      /\ \A i \in 1..Len(s) : t[i] = s[i]
      /\ t[Len(s) + 1] = x /\ Len(t) = Len(s) + 1
  BY AppendAt
<1> HIDE DEF t
<1>2. \A n : Replied(s, n) => Replied(t, n)
  BY <1>1 DEF Replied
<1>3. ASSUME NEW f, Begun(s, f), Meet(f, x.of) PROVE Begun(t, f)
  <2>1. PICK i \in DOMAIN s :
          s[i] = Part(f, "header") /\ \A k \in (i + 1)..Len(s) : Meet(f, s[k].of)
    BY <1>3 DEF Begun
  <2>2. i \in DOMAIN t /\ t[i] = Part(f, "header")
    BY <1>1, <2>1
  <2>3. \A k \in (i + 1)..Len(t) : Meet(f, t[k].of)
    <3> SUFFICES ASSUME NEW k \in (i + 1)..Len(t) PROVE Meet(f, t[k].of)
      OBVIOUS
    <3>1. CASE k = Len(s) + 1
      BY <1>1, <1>3, <3>1
    <3>2. CASE k # Len(s) + 1
      BY <1>1, <2>1, <3>2
    <3> QED BY <3>1, <3>2
  <2> QED BY <2>2, <2>3 DEF Begun
<1>4. \A n : x = Part(Frame("reply", n), "payload") => Replied(t, n)
  BY <1>1 DEF Replied
<1>5. \A f : x = Part(f, "header") => Begun(t, f)
  <2>1. Len(s) + 1 \in DOMAIN t /\ \A k \in ((Len(s) + 1) + 1)..Len(t) : FALSE
    BY <1>1
  <2> QED BY <1>1, <2>1 DEF Begun
<1> QED BY <1>2, <1>3, <1>4, <1>5 DEF t

-----------------------------------------------------------------------------
StreamType ==
  /\ sent \in 0..MaxSent
  /\ inbox \in Seq([frame : Frames, n : 1..MaxSent])
  /\ watcher \in [Watchers -> Nat \cup {None}]
  /\ todo \in [Threads -> Seq(FrameSet)]
  /\ part \in [Threads -> {"header", "payload"}]
  /\ wire \in Seq(PartSet) /\ got \in Seq(PartSet)

\* What the client has been sent.
Stream == got \o wire

\* What the threads have in hand: the reader a pong, or a reply and what follows
\* it; a watcher an event of its turn.
Pending(n) ==
  LET r == Frame("reply", n)
  IN {<<Frame("pong", n)>>, <<r>>, <<r, Frame("note", n)>>, <<r, Frame("watch", n)>>}

Following(n) == {<<Frame("note", n)>>, <<Frame("watch", n)>>}

Known(n) == client # "closed" => Replied(Stream, n)

QueueInv ==
  /\ \/ todo[Reader] = <<>>
     \/ \E n \in 1..MaxSent : todo[Reader] \in Pending(n)
     \/ \E n \in 1..MaxSent : todo[Reader] \in Following(n) /\ Known(n)
  /\ \A w \in Watchers : /\ todo[w] \in {<<>>, <<Frame("event", w)>>}
                         /\ todo[w] # <<>> \/ watcher[w] # None => Known(w)

\* A frame whose header is written is written under the lock, unless it is a
\* pong, and nothing but a pong or an event has come into it.
Open(t) ==
  part[t] = "payload" =>
    /\ Writing(t)
    /\ lock = t \/ Head(todo[t]).kind = "pong"
    /\ client # "closed" => Begun(Stream, Head(todo[t]))

StreamInv ==
  /\ StreamType /\ QueueInv
  /\ \A t \in Threads : Open(t)
  /\ Unmixed(Stream) /\ Told(Stream)

\* The frame a thread is about to write: an event if it is a watcher, and what
\* follows a reply only when the reply is known.
LEMMA FrameInHand ==
  ASSUME StreamInv, NEW t \in Threads, Writing(t)
  PROVE  /\ Head(todo[t]) \in FrameSet
         /\ Head(todo[t]).kind = "event" <=> t # Reader
         /\ Head(todo[t]).kind \in {"note", "event"} => Known(Head(todo[t]).n)
<1>1. todo[t] \in Seq(FrameSet) /\ todo[t] # <<>>
  BY DEF StreamInv, StreamType, Writing
<1>2. Head(todo[t]) \in FrameSet
  BY <1>1
<1>3. CASE t # Reader
  <2>1. t \in Watchers /\ todo[t] = <<Frame("event", t)>> /\ Known(t)
    BY <1>1, <1>3 DEF Threads, StreamInv, QueueInv
  <2>2. Head(todo[t]) = Frame("event", t)
    BY <2>1
  <2> QED BY <1>2, <1>3, <2>1, <2>2 DEF Frame
<1>4. CASE t = Reader
  <2>1. CASE \E n \in 1..MaxSent : todo[Reader] \in Pending(n)
    <3>1. PICK n \in 1..MaxSent : todo[t] \in Pending(n)
      BY <1>4, <2>1
    <3>2. Head(todo[t]) \in {Frame("pong", n), Frame("reply", n)}
      BY <3>1 DEF Pending
    <3>3. Head(todo[t]).kind \in {"pong", "reply"}
      BY <3>2 DEF Frame
    <3> QED BY <1>2, <1>4, <3>3
  <2>2. CASE \E n \in 1..MaxSent : todo[Reader] \in Following(n) /\ Known(n)
    <3>1. PICK n \in 1..MaxSent : todo[t] \in Following(n) /\ Known(n)
      BY <1>4, <2>2
    <3>2. Head(todo[t]) \in {Frame("note", n), Frame("watch", n)}
      BY <3>1 DEF Following
    <3>3. Head(todo[t]).kind \in {"note", "watch"} /\ Head(todo[t]).n = n
      BY <3>2 DEF Frame
    <3> QED BY <1>2, <1>4, <3>1, <3>3
  <2> QED BY <1>1, <1>4, <2>1, <2>2 DEF StreamInv, QueueInv
<1> QED BY <1>3, <1>4

\* Before anything has been written.
LEMMA StreamInit == Init => StreamInv
<1> SUFFICES ASSUME Init PROVE StreamInv
  OBVIOUS
<1> USE SocketBoundsAssumption
<1>1. StreamType
  BY DEF Init, StreamType
<1>2. Stream = <<>> /\ DOMAIN Stream = {}
  BY DEF Init, Stream
<1>3. QueueInv
  BY DEF Init, QueueInv, Threads
<1>4. \A t \in Threads : Open(t)
  BY DEF Init, Open
<1>5. Unmixed(Stream) /\ Told(Stream)
  BY <1>2 DEF Unmixed, Told
<1> QED BY <1>1, <1>3, <1>4, <1>5 DEF StreamInv

\* A step that leaves the threads and the stream alone.
LEMMA StreamStays ==
  ASSUME StreamInv, StreamType', UNCHANGED <<todo, part, lock, watcher>>,
         Stream' = Stream, client = "closed" => client' = "closed"
  PROVE  StreamInv'
<1>1. \A n : Known(n) => Known(n)'
  BY DEF Known
<1>2. QueueInv'
  BY <1>1 DEF StreamInv, QueueInv
<1>3. \A t \in Threads : Open(t)'
  BY DEF StreamInv, Open, Writing
<1> QED BY <1>2, <1>3 DEF StreamInv

\* Sequences of one length with the same elements are the same.
LEMMA SameSequence ==
  ASSUME NEW S, NEW s \in Seq(S), NEW t \in Seq(S), Len(s) = Len(t),
         \A i \in 1..Len(s) : s[i] = t[i]
  PROVE  s = t
OBVIOUS

\* Sequences of one and of two frames.
LEMMA ShortSequences ==
  ASSUME NEW S, NEW a \in S, NEW b \in S
  PROVE  /\ <<>> \in Seq(S) /\ <<a>> \in Seq(S) /\ <<a, b>> \in Seq(S)
         /\ <<a>> \o <<>> = <<a>> /\ <<a>> \o <<b>> = <<a, b>>
<1>1. <<>> \in Seq(S) /\ <<a>> \in Seq(S) /\ <<b>> \in Seq(S) /\ <<a, b>> \in Seq(S)
  OBVIOUS
<1>2. <<a>> \o <<>> = <<a>>
  BY <1>1
<1>3. <<a>> \o <<b>> = <<a, b>>
  <2>1. <<a>> \o <<b>> \in Seq(S) /\ Len(<<a>> \o <<b>>) = 2
    BY <1>1
  <2>2. (<<a>> \o <<b>>)[1] = a /\ (<<a>> \o <<b>>)[2] = b
    BY <1>1
  <2>3. Len(<<a, b>>) = 2 /\ <<a, b>>[1] = a /\ <<a, b>>[2] = b
    OBVIOUS
  <2>4. \A i \in 1..2 : i = 1 \/ i = 2
    OBVIOUS
  <2> DEFINE c == <<a>> \o <<b>>
             d == <<a, b>>
  <2>5. c \in Seq(S) /\ d \in Seq(S) /\ Len(c) = Len(d) /\ \A i \in 1..Len(c) : c[i] = d[i]
    BY <1>1, <2>1, <2>2, <2>3, <2>4
  <2> HIDE DEF c, d
  <2>6. c = d
    BY <2>5, SameSequence
  <2> QED BY <2>6 DEF c, d
<1> QED BY <1>1, <1>2, <1>3

\* The first element of a sequence, and the others.
LEMMA HeadAndTail ==
  ASSUME NEW S, NEW q \in Seq(S), q # <<>>
  PROVE  Head(q) \in S /\ Tail(q) \in Seq(S)
OBVIOUS

\* What handle_rpc and after_rpc make the reader do about a message.
LEMMA ToDoIsPending ==
  ASSUME NEW b, NEW n
  PROVE  ToDo(b, n) \in {<<>>} \cup Pending(n)
<1> DEFINE r == Frame("reply", n)
           more == IF HandleRpc(b) = "error" THEN <<>>
                   ELSE CASE b.method = "thread/start" -> <<Frame("note", n)>>
                          [] b.method = "turn/start" -> <<Frame("watch", n)>>
                          [] OTHER -> <<>>
<1>1. ToDo(b, n) \in {<<>>, <<r>> \o more}
  BY DEF ToDo
<1>2. more \in {<<>>, <<Frame("note", n)>>, <<Frame("watch", n)>>}
  OBVIOUS
<1> HIDE DEF r, more
<1>3. <<r>> \o more \in {<<r>>, <<r, Frame("note", n)>>, <<r, Frame("watch", n)>>}
  <2>1. \A x, y : <<x>> \o <<>> = <<x>> /\ <<x>> \o <<y>> = <<x, y>>
    <3> SUFFICES ASSUME NEW x, NEW y PROVE <<x>> \o <<>> = <<x>> /\ <<x>> \o <<y>> = <<x, y>>
      OBVIOUS
    <3> QED BY ShortSequences, x \in {x, y}, y \in {x, y}
  <2>2. CASE more = <<>>
    BY <2>1, <2>2
  <2>3. CASE more = <<Frame("note", n)>>
    BY <2>1, <2>3
  <2>4. CASE more = <<Frame("watch", n)>>
    BY <2>1, <2>4
  <2> QED BY <1>2, <2>2, <2>3, <2>4
<1> QED BY <1>1, <1>3 DEF Pending, r

\* What is queued is made of frames.
LEMMA PendingType ==
  ASSUME NEW n \in 1..MaxSent, NEW q \in {<<>>} \cup Pending(n) \cup Following(n)
  PROVE  q \in Seq(FrameSet)
<1>1. \A k \in {"reply", "note", "watch", "pong", "event"} : Frame(k, n) \in FrameSet
  BY DEF Frame, FrameSet
<1>2. Frame("reply", n) \in FrameSet /\ Frame("note", n) \in FrameSet
      /\ Frame("watch", n) \in FrameSet /\ Frame("pong", n) \in FrameSet
  BY <1>1
<1>3. /\ <<>> \in Seq(FrameSet)
      /\ <<Frame("pong", n)>> \in Seq(FrameSet) /\ <<Frame("reply", n)>> \in Seq(FrameSet)
      /\ <<Frame("note", n)>> \in Seq(FrameSet) /\ <<Frame("watch", n)>> \in Seq(FrameSet)
      /\ <<Frame("reply", n), Frame("note", n)>> \in Seq(FrameSet)
      /\ <<Frame("reply", n), Frame("watch", n)>> \in Seq(FrameSet)
  BY <1>2, ShortSequences
<1> QED BY <1>3 DEF Pending, Following

\* rpc_loop takes up a frame when it has nothing left to write.
LEMMA ReadKeeps == StreamInv /\ ReadFrame => StreamInv'
<1> SUFFICES ASSUME StreamInv, ReadFrame PROVE StreamInv'
  OBVIOUS
<1> USE SocketBoundsAssumption
<1>1. /\ StreamType /\ inbox # <<>> /\ todo[Reader] = <<>> /\ inbox' = Tail(inbox)
      /\ UNCHANGED <<client, sent, watcher, part, lock, wire, got>>
  BY DEF ReadFrame, StreamInv, outVars
<1> DEFINE n == Head(inbox).n
<1>2. n \in 1..MaxSent /\ inbox' \in Seq([frame : Frames, n : 1..MaxSent])
  <2>1. inbox \in Seq([frame : Frames, n : 1..MaxSent])
    BY <1>1 DEF StreamType
  <2>2. Head(inbox) \in [frame : Frames, n : 1..MaxSent]
    BY <1>1, <2>1, HeadAndTail
  <2>3. Tail(inbox) \in Seq([frame : Frames, n : 1..MaxSent])
    BY <1>1, <2>1, HeadAndTail
  <2> QED BY <1>1, <2>2, <2>3
<1>3. PICK q : q \in {<<>>} \cup Pending(n) /\ todo' = [todo EXCEPT ![Reader] = q]
  <2>1. \A m : <<Frame("pong", m)>> \in Pending(m)
    BY DEF Pending
  <2> QED BY <2>1, ToDoIsPending DEF ReadFrame
<1>4. /\ todo'[Reader] = q /\ \A w \in Watchers : todo'[w] = todo[w] /\ w # Reader
      /\ todo' \in [Threads -> Seq(FrameSet)]
  <2>1. q \in Seq(FrameSet)
    BY <1>2, <1>3, PendingType
  <2>2. Reader \in Threads /\ \A w \in Watchers : w \in Threads /\ w # Reader
    BY DEF Threads, Watchers, Reader
  <2>3. todo \in [Threads -> Seq(FrameSet)]
    BY <1>1 DEF StreamType
  <2> QED BY <1>3, <2>1, <2>2, <2>3
<1>5. Stream' = Stream /\ \A m : Known(m)' = Known(m)
  BY <1>1 DEF Stream, Known
<1>6. StreamType'
  BY <1>1, <1>2, <1>4 DEF StreamType
<1>7. QueueInv'
  BY <1>1, <1>2, <1>3, <1>4, <1>5 DEF StreamInv, QueueInv
<1>8. ASSUME NEW t \in Threads PROVE Open(t)'
  <2>1. CASE t = Reader
    BY <1>1, <2>1 DEF StreamInv, Open, Writing
  <2>2. CASE t # Reader
    BY <1>1, <1>4, <1>5, <2>2 DEF StreamInv, Open, Writing, Threads
  <2> QED BY <2>1, <2>2
<1> QED BY <1>5, <1>6, <1>7, <1>8 DEF StreamInv

\* after_rpc starts a watcher for a turn the client has been told of.
LEMMA StartWatchKeeps == StreamInv /\ StartWatch => StreamInv'
<1> SUFFICES ASSUME StreamInv, StartWatch PROVE StreamInv'
  OBVIOUS
<1> USE SocketBoundsAssumption
<1>1. /\ StreamType /\ todo[Reader] # <<>> /\ Head(todo[Reader]).kind = "watch"
      /\ watcher' = [watcher EXCEPT ![Head(todo[Reader]).n] = MaxEvents]
      /\ todo' = [todo EXCEPT ![Reader] = Tail(todo[Reader])]
      /\ UNCHANGED <<client, inbox, sent, part, lock, wire, got>>
  BY DEF StartWatch, StreamInv, inVars, outVars
<1>2. PICK n \in 1..MaxSent : todo[Reader] = <<Frame("watch", n)>> /\ Known(n)
  <2>1. ASSUME NEW m \in 1..MaxSent, todo[Reader] \in Pending(m) PROVE FALSE
    <3>1. Head(todo[Reader]) \in {Frame("pong", m), Frame("reply", m)}
      BY <2>1 DEF Pending
    <3> QED BY <1>1, <3>1 DEF Frame
  <2>2. PICK n \in 1..MaxSent : todo[Reader] \in Following(n) /\ Known(n)
    BY <1>1, <2>1 DEF StreamInv, QueueInv
  <2>3. todo[Reader] # <<Frame("note", n)>>
    BY <1>1 DEF Frame
  <2> QED BY <2>2, <2>3 DEF Following
<1>3. Head(todo[Reader]).n = n /\ Tail(todo[Reader]) = <<>>
  BY <1>2 DEF Frame
<1>4. /\ todo'[Reader] = <<>> /\ \A w \in Watchers : todo'[w] = todo[w] /\ w # Reader
      /\ todo' \in [Threads -> Seq(FrameSet)]
  BY <1>1, <1>3 DEF StreamType, Threads, Watchers, Reader
<1>5. /\ \A w \in Watchers : w # n => watcher'[w] = watcher[w]
      /\ watcher' \in [Watchers -> Nat \cup {None}]
  BY <1>1, <1>3 DEF StreamType
<1>6. Stream' = Stream /\ \A m : Known(m)' = Known(m)
  BY <1>1 DEF Stream, Known
<1>7. StreamType'
  BY <1>1, <1>4, <1>5 DEF StreamType
<1>8. QueueInv'
  BY <1>2, <1>4, <1>5, <1>6 DEF StreamInv, QueueInv
<1>9. ASSUME NEW t \in Threads PROVE Open(t)'
  <2>1. CASE t = Reader
    BY <1>1, <2>1 DEF StreamInv, Open, Writing
  <2>2. CASE t # Reader
    BY <1>1, <1>4, <1>6, <2>2 DEF StreamInv, Open, Writing, Threads
  <2> QED BY <2>1, <2>2
<1> QED BY <1>6, <1>7, <1>8, <1>9 DEF StreamInv

\* watch_turn takes up an event when it has written the last one, or ends.
LEMMA WatchKeeps ==
  ASSUME StreamInv, NEW w \in Watchers, WatcherStep(w)
  PROVE  StreamInv'
<1> USE SocketBoundsAssumption
<1>1. /\ StreamType /\ watcher[w] # None /\ todo[w] = <<>>
      /\ UNCHANGED <<client, inbox, sent, part, lock, wire, got>>
  BY SocketNoneAssumption DEF WatcherStep, Watch, EndWatch, StreamInv, inVars, writeVars, outVars
<1>2. Known(w) /\ w \in Threads /\ w # Reader
  BY <1>1 DEF StreamInv, QueueInv, Threads, Watchers, Reader
<1>3. /\ \/ todo' = todo
         \/ todo' = [todo EXCEPT ![w] = <<Frame("event", w)>>]
      /\ \/ watcher' = [watcher EXCEPT ![w] = None]
         \/ watcher[w] # 0 /\ watcher' = [watcher EXCEPT ![w] = watcher[w] - 1]
  BY DEF WatcherStep, Watch, EndWatch, writeVars
<1>4. <<Frame("event", w)>> \in Seq(FrameSet)
  BY DEF Frame, FrameSet, Watchers
<1>5. /\ todo'[w] \in {<<>>, <<Frame("event", w)>>}
      /\ \A t \in Threads : t # w => todo'[t] = todo[t]
      /\ todo' \in [Threads -> Seq(FrameSet)]
  BY <1>1, <1>2, <1>3, <1>4 DEF StreamType
<1>6. /\ \A v \in Watchers : v # w => watcher'[v] = watcher[v]
      /\ watcher' \in [Watchers -> Nat \cup {None}]
  <2>1. watcher \in [Watchers -> Nat \cup {None}] /\ watcher[w] \in Nat
    BY <1>1 DEF StreamType
  <2>2. watcher[w] # 0 => watcher[w] - 1 \in Nat
    BY <2>1
  <2> QED BY <1>3, <2>1, <2>2
<1>7. Stream' = Stream /\ \A m : Known(m)' = Known(m)
  BY <1>1 DEF Stream, Known
<1>8. StreamType'
  BY <1>1, <1>5, <1>6 DEF StreamType
<1>9. QueueInv'
  <2>1. todo'[Reader] = todo[Reader] /\ \A v \in Watchers : v \in Threads
    BY <1>2, <1>5 DEF Threads
  <2> QED BY <1>2, <1>5, <1>6, <1>7, <2>1 DEF StreamInv, QueueInv
<1>10. ASSUME NEW t \in Threads PROVE Open(t)'
  <2>1. CASE t = w
    BY <1>1, <2>1 DEF StreamInv, Open, Writing
  <2>2. CASE t # w
    BY <1>1, <1>5, <1>7, <2>2 DEF StreamInv, Open, Writing
  <2> QED BY <2>1, <2>2
<1> QED BY <1>7, <1>8, <1>9, <1>10 DEF StreamInv

-----------------------------------------------------------------------------
\* Two threads write at once only if one holds the lock, with the event of a
\* turn, and the other has a pong.
LEMMA OnlyPongInterrupts ==
  ASSUME StreamInv, NEW t \in Threads, NEW u \in Threads, t # u,
         part[t] = "payload", Writing(u), lock = u \/ Head(todo[u]).kind = "pong"
  PROVE  Meet(Head(todo[t]), Head(todo[u]))
<1>1. Writing(t) /\ (lock = t \/ Head(todo[t]).kind = "pong")
  BY DEF StreamInv, Open
<1>2. /\ Head(todo[t]).kind = "event" <=> t # Reader
      /\ Head(todo[u]).kind = "event" <=> u # Reader
  BY <1>1, FrameInHand
<1> QED BY <1>1, <1>2 DEF Meet

\* What a write does to the stream.
LEMMA WriteGrows ==
  ASSUME StreamInv, NEW t \in Threads, Writing(t), NEW p \in {"header", "payload"},
         wire' = Append(wire, Part(Head(todo[t]), p)), got' = got, client' = client
  PROVE  /\ Part(Head(todo[t]), p) \in PartSet
         /\ Stream \in Seq(PartSet) /\ wire' \in Seq(PartSet)
         /\ Stream' = Append(Stream, Part(Head(todo[t]), p))
         /\ \A n : Known(n) => Known(n)'
<1>1. Part(Head(todo[t]), p) \in PartSet
  BY FrameInHand DEF Part, PartSet
<1>2. got \in Seq(PartSet) /\ wire \in Seq(PartSet)
  BY DEF StreamInv, StreamType
<1>3. Stream \in Seq(PartSet) /\ wire' \in Seq(PartSet)
      /\ Stream' = Append(Stream, Part(Head(todo[t]), p))
  BY <1>1, <1>2, WriteAppends DEF Stream
<1>4. \A n : Known(n) => Known(n)'
  BY <1>1, <1>3, StreamGrows DEF Known
<1> QED BY <1>1, <1>3, <1>4

\* The first half of a frame is written under the lock, or is a pong.
LEMMA HeaderKeeps ==
  ASSUME StreamInv, NEW t \in Threads, WriteHeader(t)
  PROVE  StreamInv'
<1> DEFINE f == Head(todo[t])
           x == Part(f, "header")
<1>1. /\ Writing(t) /\ client = "open" /\ wire' = Append(wire, x)
      /\ part' = [part EXCEPT ![t] = "payload"]
      /\ UNCHANGED <<client, inbox, sent, watcher, todo, lock, got>>
      /\ lock = t \/ f.kind = "pong"
  BY DEF WriteHeader, inVars, MayWrite, Locks
<1>2. /\ x \in PartSet /\ Stream \in Seq(PartSet) /\ wire' \in Seq(PartSet)
      /\ Stream' = Append(Stream, x) /\ \A n : Known(n) => Known(n)'
  BY <1>1, WriteGrows
<1>3. x.of = f /\ x.part = "header"
  BY PartFields
<1>4. StreamType'
  BY <1>1, <1>2 DEF StreamInv, StreamType
<1>5. QueueInv'
  BY <1>1, <1>2 DEF StreamInv, QueueInv
<1>6. Unmixed(Stream)'
  BY <1>2, <1>3, UnmixedAppend DEF StreamInv
<1>7. Told(Stream)'
  <2>1. f.kind \in {"note", "event"} => Replied(Stream, f.n)
    BY <1>1, FrameInHand DEF Known
  <2> QED BY <1>2, <1>3, <2>1, ToldAppend DEF StreamInv
<1>8. ASSUME NEW u \in Threads, part'[u] = "payload"
      PROVE  Writing(u)' /\ (lock' = u \/ Head(todo'[u]).kind = "pong") /\ Begun(Stream, Head(todo[u]))'
  <2>1. CASE u = t
    BY <1>1, <1>2, <2>1, StreamGrows DEF Writing
  <2>2. CASE u # t
    <3>1. part[u] = "payload"
      BY <1>1, <1>8, <2>2 DEF StreamInv, StreamType
    <3>2. Writing(u) /\ (lock = u \/ Head(todo[u]).kind = "pong") /\ Begun(Stream, Head(todo[u]))
      BY <1>1, <3>1 DEF StreamInv, Open
    <3>3. Meet(Head(todo[u]), f)
      BY <1>1, <2>2, <3>1, OnlyPongInterrupts
    <3>4. Begun(Append(Stream, x), Head(todo[u]))
      BY <1>2, <1>3, <3>2, <3>3, StreamGrows
    <3> QED BY <1>1, <1>2, <3>2, <3>4 DEF Writing
  <2> QED BY <2>1, <2>2
<1>9. \A u \in Threads : Open(u)'
  BY <1>8 DEF Open
<1> QED BY <1>4, <1>5, <1>6, <1>7, <1>9 DEF StreamInv

\* What is left of one or two frames when the first is written.
LEMMA HeadsAndTails ==
  ASSUME NEW a, NEW b
  PROVE  /\ Head(<<a>>) = a /\ Tail(<<a>>) = <<>>
         /\ Head(<<a, b>>) = a /\ Tail(<<a, b>>) = <<b>>
OBVIOUS

\* The reader goes on to what follows the reply, which is known by then.
LEMMA ReaderGoesOn ==
  ASSUME StreamInv, Writing(Reader), Replied(Stream', Head(todo[Reader]).n) \/
           Head(todo[Reader]).kind # "reply"
  PROVE  \/ Tail(todo[Reader]) = <<>>
         \/ \E n \in 1..MaxSent : /\ Tail(todo[Reader]) \in Following(n)
                                  /\ Replied(Stream', n)
<1>1. CASE \E n \in 1..MaxSent : todo[Reader] \in Pending(n)
  <2>1. PICK n \in 1..MaxSent : todo[Reader] \in Pending(n)
    BY <1>1
  <2>2. CASE todo[Reader] \in {<<Frame("pong", n)>>, <<Frame("reply", n)>>}
    BY <2>2, HeadsAndTails
  <2>3. CASE todo[Reader] \in {<<Frame("reply", n), Frame("note", n)>>,
                              <<Frame("reply", n), Frame("watch", n)>>}
    <3>1. Head(todo[Reader]) = Frame("reply", n) /\ Tail(todo[Reader]) \in Following(n)
      BY <2>3, HeadsAndTails DEF Following
    <3>2. Frame("reply", n).kind = "reply" /\ Frame("reply", n).n = n
      BY DEF Frame
    <3> QED BY <3>1, <3>2
  <2> QED BY <2>1, <2>2, <2>3 DEF Pending
<1>2. CASE \E n \in 1..MaxSent : todo[Reader] \in Following(n)
  BY <1>2, HeadsAndTails DEF Following
<1> QED BY <1>1, <1>2 DEF StreamInv, QueueInv, Writing

\* The second half of a frame takes it off its queue.
LEMMA PayloadKeeps ==
  ASSUME StreamInv, NEW t \in Threads, WritePayload(t)
  PROVE  StreamInv'
<1> DEFINE f == Head(todo[t])
           x == Part(f, "payload")
<1>1. /\ Writing(t) /\ part[t] = "payload" /\ client = "open" /\ wire' = Append(wire, x)
      /\ part' = [part EXCEPT ![t] = "header"]
      /\ todo' = [todo EXCEPT ![t] = Tail(todo[t])]
      /\ lock' = (IF lock = t THEN None ELSE lock)
      /\ UNCHANGED <<client, inbox, sent, watcher, got>>
  BY DEF WritePayload, inVars, Release
<1>2. /\ x \in PartSet /\ Stream \in Seq(PartSet) /\ wire' \in Seq(PartSet)
      /\ Stream' = Append(Stream, x) /\ \A n : Known(n) => Known(n)'
  BY <1>1, WriteGrows
<1>3. x.of = f /\ x.part = "payload"
  BY PartFields
<1>o. (lock = t \/ f.kind = "pong") /\ Begun(Stream, f)
  BY <1>1 DEF StreamInv, Open
<1>d. /\ todo \in [Threads -> Seq(FrameSet)] /\ todo[t] # <<>>
      /\ part \in [Threads -> {"header", "payload"}]
  BY <1>1 DEF StreamInv, StreamType, Writing
<1>t. /\ todo'[t] = Tail(todo[t]) /\ \A u \in Threads : u # t => todo'[u] = todo[u]
      /\ todo' \in [Threads -> Seq(FrameSet)]
      /\ part'[t] = "header" /\ \A u \in Threads : u # t => part'[u] = part[u]
      /\ part' \in [Threads -> {"header", "payload"}]
  BY <1>1, <1>d, HeadAndTail
<1>4. StreamType'
  BY <1>1, <1>2, <1>t DEF StreamInv, StreamType
<1>5. QueueInv'
  <2>1. \A w \in Watchers : w \in Threads /\ w # Reader
    BY DEF Watchers, Reader, Threads
  <2>2. Reader \in Threads
    BY DEF Threads
  <2>3. CASE t = Reader
    <3>1. f.kind = "reply" => Replied(Stream', f.n)
      <4>1. f \in FrameSet
        BY <1>1, FrameInHand
      <4>2. f.kind = "reply" => f = Frame("reply", f.n)
        BY <4>1 DEF FrameSet, Frame
      <4> QED BY <1>2, <4>2, StreamGrows
    <3>2. \/ todo'[Reader] = <<>>
          \/ \E n \in 1..MaxSent : todo'[Reader] \in Following(n) /\ Known(n)'
      BY <1>1, <1>t, <2>3, <3>1, ReaderGoesOn DEF Known
    <3>3. \A w \in Watchers : todo'[w] = todo[w]
      BY <1>t, <2>1, <2>3
    <3> QED BY <1>1, <1>2, <3>2, <3>3 DEF StreamInv, QueueInv
  <2>4. CASE t # Reader
    <3>1. todo'[Reader] = todo[Reader]
      BY <1>t, <2>2, <2>4
    <3>2. \A w \in Watchers : todo'[w] \in {<<>>, todo[w]}
      <4>1. t \in Watchers /\ todo[t] = <<Frame("event", t)>>
        BY <1>d, <2>4 DEF Threads, StreamInv, QueueInv
      <4>2. todo'[t] = <<>>
        BY <1>t, <4>1
      <4> QED BY <1>t, <2>1, <4>2
    <3> QED BY <1>1, <1>2, <3>1, <3>2 DEF StreamInv, QueueInv
  <2> QED BY <2>3, <2>4
<1>6. Unmixed(Stream)'
  BY <1>2, <1>3, <1>o, UnmixedAppend DEF StreamInv
<1>7. Told(Stream)'
  <2>1. f.kind \in {"note", "event"} => Replied(Stream, f.n)
    BY <1>1, FrameInHand DEF Known
  <2> QED BY <1>2, <1>3, <2>1, ToldAppend DEF StreamInv
<1>8. ASSUME NEW u \in Threads, part'[u] = "payload"
      PROVE  Writing(u)' /\ (lock' = u \/ Head(todo'[u]).kind = "pong") /\ Begun(Stream, Head(todo[u]))'
  <2>1. u # t /\ part[u] = "payload" /\ todo'[u] = todo[u]
    BY <1>t, <1>8
  <2>2. Writing(u) /\ (lock = u \/ Head(todo[u]).kind = "pong") /\ Begun(Stream, Head(todo[u]))
    BY <1>1, <2>1 DEF StreamInv, Open
  <2>3. Meet(Head(todo[u]), f)
    BY <1>1, <1>o, <2>1, OnlyPongInterrupts
  <2>4. Begun(Append(Stream, x), Head(todo[u]))
    BY <1>2, <1>3, <2>2, <2>3, StreamGrows
  <2> QED BY <1>1, <1>2, <2>1, <2>2, <2>4 DEF Writing
<1>9. \A u \in Threads : Open(u)'
  BY <1>8 DEF Open
<1> QED BY <1>4, <1>5, <1>6, <1>7, <1>9 DEF StreamInv

\* A client that has closed is told nothing more.
LEMMA FailKeeps ==
  ASSUME StreamInv, NEW t \in Threads, WriteFails(t)
  PROVE  StreamInv'
<1>1. /\ Writing(t) /\ client = "closed"
      /\ part' = [part EXCEPT ![t] = "header"]
      /\ todo' = [todo EXCEPT ![t] = <<>>]
      /\ lock' = (IF lock = t THEN None ELSE lock)
      /\ \/ watcher' = watcher
         \/ watcher[t] # None /\ watcher' = [watcher EXCEPT ![t] = watcher[t] + 1]
      /\ UNCHANGED <<client, inbox, sent, wire, got>>
  BY DEF WriteFails, WatchGoesOn, inVars, outVars, Release
<1>d. /\ todo \in [Threads -> Seq(FrameSet)] /\ part \in [Threads -> {"header", "payload"}]
      /\ watcher \in [Watchers -> Nat \cup {None}]
  BY DEF StreamInv, StreamType
<1>t. /\ todo'[t] = <<>> /\ \A u \in Threads : u # t => todo'[u] = todo[u]
      /\ todo' \in [Threads -> Seq(FrameSet)]
      /\ part'[t] = "header" /\ \A u \in Threads : u # t => part'[u] = part[u]
      /\ part' \in [Threads -> {"header", "payload"}]
  BY <1>1, <1>d
<1>w. watcher' \in [Watchers -> Nat \cup {None}]
  <2>1. ASSUME t \in Watchers, watcher[t] # None PROVE watcher[t] + 1 \in Nat
    BY <1>d, <2>1
  <2> QED BY <1>1, <1>d, <2>1
<1>2. Stream' = Stream /\ \A n : Known(n)'
  BY <1>1 DEF Stream, Known
<1>3. StreamType'
  BY <1>1, <1>t, <1>w DEF StreamInv, StreamType
<1>4. QueueInv'
  <2>1. Reader \in Threads /\ \A w \in Watchers : w \in Threads
    BY DEF Threads
  <2>2. todo'[Reader] \in {<<>>, todo[Reader]}
    BY <1>t, <2>1
  <2>3. \A w \in Watchers : todo'[w] \in {<<>>, todo[w]}
    BY <1>t, <2>1
  <2> QED BY <1>2, <2>2, <2>3 DEF StreamInv, QueueInv
<1>5. ASSUME NEW u \in Threads PROVE Open(u)'
  <2>1. CASE u = t
    BY <1>t, <2>1 DEF Open
  <2>2. CASE u # t
    BY <1>1, <1>t, <2>2 DEF StreamInv, Open, Writing
  <2> QED BY <2>1, <2>2
<1> QED BY <1>2, <1>3, <1>4, <1>5 DEF StreamInv

\* No step mixes frames.
LEMMA StreamStep == StreamInv /\ [Next]_vars => StreamInv'
<1> SUFFICES ASSUME StreamInv, [Next]_vars
             PROVE  StreamInv'
  OBVIOUS
<1> USE SocketBoundsAssumption DEF listenVars, inVars, writeVars, outVars, connVars
<1>0. ASSUME UNCHANGED <<sent, inbox, watcher, todo, part, wire, got>>
      PROVE  StreamType' /\ Stream' = Stream
  BY <1>0 DEF StreamInv, StreamType, Stream
<1>1. CASE UNCHANGED vars
  BY <1>0, <1>1, StreamStays DEF vars
<1>2. ASSUME NEW s \in Servers, Start(s) \/ Bind(s)
      PROVE  StreamInv'
  BY <1>0, <1>2, StreamStays DEF Start, Bind
<1>3. ASSUME NEW s \in Servers, Die(s)
      PROVE  StreamInv'
  <2>1. CASE file = s /\ client # "away"
    \* The threads end with the process.
    <3>1. /\ client' = "closed" /\ watcher' = [w \in Watchers |-> None]
          /\ todo' = [t \in Threads |-> <<>>] /\ part' = [t \in Threads |-> "header"]
          /\ UNCHANGED <<inbox, sent, wire, got>>
      BY <1>3, <2>1 DEF Die
    <3>2. StreamType'
      BY <3>1 DEF StreamInv, StreamType
    <3>3. QueueInv'
      BY <3>1 DEF QueueInv, Threads, Known
    <3>4. \A t \in Threads : Open(t)'
      BY <3>1 DEF Open
    <3>5. Stream' = Stream
      BY <3>1 DEF Stream
    <3> QED BY <3>2, <3>3, <3>4, <3>5 DEF StreamInv
  <2>2. CASE ~(file = s /\ client # "away")
    BY <1>0, <1>3, <2>2, StreamStays DEF Die
  <2> QED BY <2>1, <2>2
<1>4. CASE RemoveFile
  BY <1>0, <1>4, StreamStays DEF RemoveFile
<1>5. CASE Connect
  BY <1>0, <1>5, StreamStays DEF Connect
<1>6. CASE ServeConnection
  BY <1>0, <1>6, StreamStays DEF ServeConnection
<1>7. CASE ClientReads
  <2>1. /\ wire # <<>> /\ got' = Append(got, Head(wire)) /\ wire' = Tail(wire)
        /\ UNCHANGED <<client, sent, inbox, watcher, todo, part, lock>>
    BY <1>7 DEF ClientReads
  <2>2. got \in Seq(PartSet) /\ wire \in Seq(PartSet)
    BY DEF StreamInv, StreamType
  <2>3. Stream' = Stream /\ got' \in Seq(PartSet) /\ wire' \in Seq(PartSet)
    BY <2>1, <2>2, ReadMoves DEF Stream
  <2>4. StreamType'
    BY <2>1, <2>3 DEF StreamInv, StreamType
  <2> QED BY <2>1, <2>3, <2>4, StreamStays
<1>8. CASE ClientCloses
  <2>1. /\ client' = "closed" /\ wire' = <<>>
        /\ UNCHANGED <<sent, inbox, watcher, todo, part, lock, got>>
    BY <1>8 DEF ClientCloses
  <2>2. got \in Seq(PartSet) /\ wire \in Seq(PartSet)
    BY DEF StreamInv, StreamType
  <2>3. StreamType'
    BY <2>1 DEF StreamInv, StreamType
  <2>4. Stream' = got
    BY <2>1, <2>2 DEF Stream
  <2>5. Unmixed(Stream)' /\ Told(Stream)'
    BY <2>2, <2>4, UnmixedPrefix, ToldPrefix DEF StreamInv, Stream
  <2>6. QueueInv'
    BY <2>1 DEF StreamInv, QueueInv, Known
  <2>7. \A t \in Threads : Open(t)'
    BY <2>1 DEF StreamInv, Open, Writing
  <2> QED BY <2>3, <2>5, <2>6, <2>7 DEF StreamInv
<1>9. ASSUME NEW f \in Frames, ClientSends(f)
      PROVE  StreamInv'
  <2>1. /\ sent < MaxSent /\ sent' = sent + 1
        /\ inbox' = Append(inbox, [frame |-> f, n |-> sent + 1])
        /\ UNCHANGED <<client, watcher, todo, part, lock, wire, got>>
    BY <1>9 DEF ClientSends
  <2>2. sent \in 0..MaxSent /\ inbox \in Seq([frame : Frames, n : 1..MaxSent])
    BY DEF StreamInv, StreamType
  <2>3. sent + 1 \in 1..MaxSent
    BY <2>1, <2>2
  <2>4. [frame |-> f, n |-> sent + 1] \in [frame : Frames, n : 1..MaxSent]
    BY <2>3
  <2>5. inbox' \in Seq([frame : Frames, n : 1..MaxSent])
    BY <2>1, <2>2, <2>4
  <2>6. sent' \in 0..MaxSent
    BY <2>1, <2>3
  <2>7. StreamType'
    BY <2>1, <2>5, <2>6 DEF StreamInv, StreamType
  <2>8. Stream' = Stream
    BY <2>1 DEF Stream
  <2> QED BY <2>1, <2>7, <2>8, StreamStays
<1>10. CASE ReadFrame
  BY <1>10, ReadKeeps
<1>11. CASE ReadEof
  BY <1>0, <1>11, StreamStays DEF ReadEof
<1>12. CASE StartWatch
  BY <1>12, StartWatchKeeps
<1>13. ASSUME NEW w \in Watchers, WatcherStep(w)
       PROVE  StreamInv'
  BY <1>13, WatchKeeps
<1>14. ASSUME NEW t \in Threads, Lock(t)
       PROVE  StreamInv'
  <2>1. /\ lock = None /\ lock' = t
        /\ UNCHANGED <<client, sent, inbox, watcher, todo, part, wire, got>>
    BY <1>14 DEF Lock
  <2>2. StreamType' /\ Stream' = Stream
    BY <1>0, <2>1
  <2>3. QueueInv'
    BY <2>1, <2>2 DEF StreamInv, QueueInv, Known
  <2>4. ASSUME NEW u \in Threads PROVE Open(u)'
    \* The lock was free: a frame that is begun is a pong.
    <3>1. None \notin Threads
      BY SocketNoneAssumption DEF Threads, Watchers, Reader
    <3> QED BY <2>1, <2>2, <3>1 DEF StreamInv, Open, Writing
  <2> QED BY <2>2, <2>3, <2>4 DEF StreamInv
<1>15. ASSUME NEW t \in Threads, WriteHeader(t) \/ WritePayload(t) \/ WriteFails(t)
       PROVE  StreamInv'
  BY <1>15, HeaderKeeps, PayloadKeeps, FailKeeps
<1> QED
  BY <1>1, <1>2, <1>3, <1>4, <1>5, <1>6, <1>7, <1>8, <1>9, <1>10, <1>11, <1>12,
     <1>13, <1>14, <1>15 DEF Next, ReaderStep, ThreadStep

\* Frames are written whole (write_locked, write_ws_frame), except that a pong,
\* which is written without the lock, may meet an event; and whatever is said of
\* a thread or a turn follows the reply that named it (after_rpc): for any
\* number of frames and events and a socket buffer of any size.
THEOREM FramesAreWhole == Spec => []FramesDoNotMix
<1>1. StreamInv => FramesDoNotMix
  BY DEF StreamInv, FramesDoNotMix, Unmixed, Told, Meet, Stream
<1> QED
  BY StreamInit, StreamStep, <1>1, PTL DEF Spec
=============================================================================
