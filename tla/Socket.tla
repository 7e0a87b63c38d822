------------------------------- MODULE Socket -------------------------------
(***************************************************************************)
(* The unix socket of the app-server below the messages of AppServer: who  *)
(* listens on its path, the HTTP upgrade, the frames a client sends and    *)
(* the frames the threads of a connection write, in parts, to a socket     *)
(* whose buffer is bounded (crates/gamchi/src/app_server.rs).              *)
(***************************************************************************)
EXTENDS Naturals, Sequences, SequencesExt

CONSTANTS Servers,     \* processes started with --listen on one path
          Args,        \* their command lines
          Requests,    \* upgrade requests of the client, as their fields
          Frames,      \* frames the client may send
          MaxSent,     \* bound on the frames the client sends
          MaxEvents,   \* notifications a watcher has to write
          Buffer,      \* parts of frames the socket holds in each direction
          None

ASSUME SocketNoneAssumption == None \notin Servers \cup {"101"} \cup Nat
ASSUME SocketBoundsAssumption ==
  MaxSent \in Nat /\ MaxEvents \in Nat /\ Buffer \in Nat \ {0}

VARIABLES server,   \* where each process is
          file,     \* the process that has made the file at the path, or None
          removed,  \* history: processes whose file was removed by hand
          client,   \* "away", "asks", "open" or "closed"
          request,  \* the upgrade request
          answer,   \* what the server has answered to it
          inbox,    \* frames on their way to the server, numbered
          sent,     \* how many the client has sent
          reader,   \* rpc_loop: "read", or "done"
          watcher,  \* events a watch_turn has yet to write; None before and after
          todo,     \* frames a thread has to write, the first maybe in part
          part,     \* the part of it to write next
          lock,     \* the thread that holds ConnIo.writer
          wire,     \* parts on their way to the client
          got       \* history: parts the client has read

listenVars == <<server, file, removed>>
inVars     == <<inbox, sent>>
writeVars  == <<todo, part, lock>>
outVars    == <<wire, got>>
vars == <<server, file, removed, client, request, answer, inbox, sent, reader,
          watcher, todo, part, lock, wire, got>>

Watchers == 1..MaxSent             \* a watcher has the number of its turn/start
Reader == 0
Threads == {Reader} \cup Watchers

Frame(kind, n) == [kind |-> kind, n |-> n]
Part(f, p) == [of |-> f, part |-> p]

Init ==
  /\ server = [s \in Servers |-> "start"] /\ file = None /\ removed = {}
  /\ client = "away" /\ request = None /\ answer = None
  /\ inbox = <<>> /\ sent = 0 /\ reader = "read"
  /\ watcher = [w \in Watchers |-> None]
  /\ todo = [t \in Threads |-> <<>>]
  /\ part = [t \in Threads |-> "header"]
  /\ lock = None /\ wire = <<>> /\ got = <<>>

-----------------------------------------------------------------------------
(***************************************************************************)
(* run: the arguments, the home, and the path                              *)
(***************************************************************************)
ParseListen(raw) == raw = "unix:///path"

\* parse_args refuses an unknown argument, a flag without a value and a command
\* line without --listen; open_home refuses a home that is not absolute.
ParseArgs(a) == /\ ~a.unknown /\ a.listen # None /\ ParseListen(a.listen)
                /\ a.home \notin {"", "relative"}

connVars == <<client, request, answer, inbox, sent, reader, watcher, todo, part,
              lock, wire, got>>

\* bind_listen looks at the path first,
Start(s) ==
  /\ server[s] = "start"
  /\ \E a \in Args :
       server' = [server EXCEPT ![s] = IF ~ParseArgs(a) THEN "invalid"
                                       ELSE IF file # None THEN "occupied"
                                       ELSE "bind"]
  /\ UNCHANGED <<file, removed, connVars>>

\* Mutant: a path in use is taken over.
BindAnyway(s) ==
  /\ server[s] = "bind"
  /\ server' = [server EXCEPT ![s] = "listen"] /\ file' = s
  /\ UNCHANGED <<removed, connVars>>

\* and bind fails if another process has made the file since.
Bind(s) ==
  /\ server[s] = "bind"
  /\ \/ /\ file = None
        /\ server' = [server EXCEPT ![s] = "listen"] /\ file' = s
     \/ /\ file # None
        /\ server' = [server EXCEPT ![s] = "occupied"] /\ UNCHANGED file
  /\ UNCHANGED <<removed, connVars>>

\* The process ends and leaves the file.  The connection ends with it.
Die(s) ==
  /\ server[s] = "listen"
  /\ server' = [server EXCEPT ![s] = "dead"]
  /\ IF file = s /\ client # "away"
     THEN /\ client' = "closed" /\ reader' = "done"
          /\ watcher' = [w \in Watchers |-> None]
          /\ todo' = [t \in Threads |-> <<>>]
          /\ part' = [t \in Threads |-> "header"] /\ lock' = None
     ELSE UNCHANGED <<client, reader, watcher, writeVars>>
  /\ UNCHANGED <<file, removed, request, answer, inVars, outVars>>

\* External: somebody removes the file, before there is a connection.
RemoveFile ==
  /\ file # None /\ client = "away"
  /\ file' = None /\ removed' = removed \cup {file}
  /\ UNCHANGED <<server, connVars>>

-----------------------------------------------------------------------------
(***************************************************************************)
(* upgrade.  A header is the sequence of its values; get takes the first.  *)
(***************************************************************************)
Connect ==
  /\ client = "away" /\ file # None /\ server[file] = "listen"
  /\ client' = "asks"
  /\ request' \in Requests
  /\ UNCHANGED <<listenVars, answer, inVars, reader, watcher, writeVars, outVars>>

\* HeaderMap::get, an option: the first value, or none.
Get(header) == IF header = <<>> THEN {} ELSE {Head(header)}

\* Mutant: a version that is not named is taken for 13.
OtherVersionIfNamed(r) == Get(r.ws) \notin {{}, {"13"}}

OtherVersion(r) == Get(r.ws) # {"13"}

\* The first of the checks that fails decides.
Upgrade(r) ==
  IF r.headers = "large" THEN "close"
  ELSE IF r.headers = "cut" \/ r.line # "three" THEN "400"
  ELSE IF r.method # "GET" THEN "405"
  ELSE IF r.version # "HTTP/1.1" THEN "400"
  ELSE IF r.target # "/" THEN "404"
  ELSE IF \/ r.headers = "no colon"
          \/ Get(r.upgrade) # {"websocket"}
          \/ "upgrade" \notin UNION Get(r.connection)
          \/ Get(r.key) # {16}
  THEN "400"
  ELSE IF OtherVersion(r) THEN "426"
  ELSE "101"

\* serve_connection: rpc_loop, or the refusal and the end of the connection.
ServeConnection ==
  /\ client = "asks"
  /\ answer' = Upgrade(request)
  /\ client' = IF answer' = "101" THEN "open" ELSE "closed"
  /\ reader' = IF answer' = "101" THEN "read" ELSE "done"
  /\ UNCHANGED <<listenVars, request, inVars, watcher, writeVars, outVars>>

-----------------------------------------------------------------------------
(***************************************************************************)
(* External: the client                                                    *)
(***************************************************************************)
ClientSends(f) ==
  /\ client = "open" /\ sent < MaxSent /\ Len(inbox) < Buffer
  /\ sent' = sent + 1
  /\ inbox' = Append(inbox, [frame |-> f, n |-> sent + 1])
  /\ UNCHANGED <<listenVars, client, request, answer, reader, watcher, writeVars,
                 outVars>>

ClientReads ==
  /\ client = "open" /\ wire # <<>>
  /\ got' = Append(got, Head(wire)) /\ wire' = Tail(wire)
  /\ UNCHANGED <<listenVars, client, request, answer, inVars, reader, watcher,
                 writeVars>>

\* What it has sent is still read; what it has not read is lost.
ClientCloses ==
  /\ client = "open"
  /\ client' = "closed" /\ wire' = <<>>
  /\ UNCHANGED <<listenVars, request, answer, inVars, reader, watcher, writeVars,
                 got>>

-----------------------------------------------------------------------------
(***************************************************************************)
(* rpc_loop                                                                *)
(***************************************************************************)
\* read_ws_frame refuses these.
Malformed(f) == f.reserved \/ ~f.masked \/ f.length = "more than 16 MiB"

\* read_ws_text ends the connection for these: a fragment is not supported.
Ends(f) == Malformed(f) \/ f.opcode \in {"close", "other"}
             \/ (f.opcode = "text" /\ ~f.fin)

\* handle_rpc: no answer without an id, then the refusals.
HandleRpc(b) ==
  IF ~b.id THEN None
  ELSE IF b.ccas \/ b.method \in {"thread/fork", "unknown"}
            \/ (~b.accepted /\ b.method \notin {"account/read", "model/list"})
       THEN "error"
  ELSE "result"

\* What rpc_loop does about a message: its reply, and after_rpc.
ToDo(b, n) ==
  IF ~b.json \/ b.method = None \/ HandleRpc(b) = None THEN <<>>
  ELSE <<Frame("reply", n)>>
         \o (IF HandleRpc(b) = "error" THEN <<>>
             ELSE CASE b.method = "thread/start" -> <<Frame("note", n)>>
                    [] b.method = "turn/start" -> <<Frame("watch", n)>>
                    [] OTHER -> <<>>)

ReadFrame ==
  /\ reader = "read" /\ answer = "101" /\ todo[Reader] = <<>> /\ inbox # <<>>
  /\ LET f == Head(inbox).frame
         n == Head(inbox).n
     IN /\ reader' = IF Ends(f) THEN "done" ELSE "read"
        /\ todo' = [todo EXCEPT ![Reader] =
                      IF Ends(f) \/ f.opcode = "pong" THEN <<>>
                      ELSE IF f.opcode = "ping" THEN <<Frame("pong", n)>>
                      ELSE ToDo(f.body, n)]
  /\ inbox' = Tail(inbox)
  /\ UNCHANGED <<listenVars, client, request, answer, sent, watcher, part, lock,
                 outVars>>

\* The end of the stream; a frame that is cut short ends it too.
ReadEof ==
  /\ reader = "read" /\ answer = "101" /\ todo[Reader] = <<>>
  /\ client = "closed" /\ inbox = <<>>
  /\ reader' = "done"
  /\ UNCHANGED <<listenVars, client, request, answer, inVars, watcher, writeVars,
                 outVars>>

\* after_rpc starts the watcher once the reply is written.
StartWatch ==
  /\ todo[Reader] # <<>> /\ Head(todo[Reader]).kind = "watch"
  /\ watcher' = [watcher EXCEPT ![Head(todo[Reader]).n] = MaxEvents]
  /\ todo' = [todo EXCEPT ![Reader] = Tail(@)]
  /\ UNCHANGED <<listenVars, client, request, answer, inVars, reader, part, lock,
                 outVars>>

\* watch_turn finds something to say at a poll: an item, an ask or, the last of
\* all, that the turn is over.
Watch(w) ==
  /\ watcher[w] \notin {None, 0} /\ todo[w] = <<>>
  /\ watcher' = [watcher EXCEPT ![w] = @ - 1]
  /\ todo' = [todo EXCEPT ![w] = <<Frame("event", w)>>]
  /\ UNCHANGED <<listenVars, client, request, answer, inVars, reader, part, lock,
                 outVars>>

\* It returns once turn/completed is written, or could not be.
EndWatch(w) ==
  /\ watcher[w] = 0 /\ todo[w] = <<>>
  /\ watcher' = [watcher EXCEPT ![w] = None]
  /\ UNCHANGED <<listenVars, client, request, answer, inVars, reader, writeVars,
                 outVars>>

-----------------------------------------------------------------------------
(***************************************************************************)
(* write_locked and write_ws_frame.  A pong is written without the lock.   *)
(***************************************************************************)
Writing(t) == todo[t] # <<>> /\ Head(todo[t]).kind # "watch"
Locks(t) == Head(todo[t]).kind # "pong"

Lock(t) ==
  /\ Writing(t) /\ Locks(t) /\ lock = None
  /\ lock' = t
  /\ UNCHANGED <<listenVars, client, request, answer, inVars, reader, watcher,
                 todo, part, outVars>>

\* Mutant: the frames of the watchers are not locked either.
MayWriteAny(t) == lock = t \/ (lock = None /\ Head(todo[t]).kind \in {"pong", "event"})

MayWrite(t) == lock = t \/ ~Locks(t)

\* Mutant: the guard is not dropped.
ReleaseNever(t) == lock

Release(t) == IF lock = t THEN None ELSE lock

\* A write waits for room in the socket, with the lock held.
WriteHeader(t) ==
  /\ Writing(t) /\ part[t] = "header" /\ MayWrite(t)
  /\ client = "open" /\ Len(wire) < Buffer
  /\ wire' = Append(wire, Part(Head(todo[t]), "header"))
  /\ part' = [part EXCEPT ![t] = "payload"]
  /\ UNCHANGED <<listenVars, client, request, answer, inVars, reader, watcher,
                 todo, lock, got>>

WritePayload(t) ==
  /\ Writing(t) /\ part[t] = "payload"
  /\ client = "open" /\ Len(wire) < Buffer
  /\ wire' = Append(wire, Part(Head(todo[t]), "payload"))
  /\ part' = [part EXCEPT ![t] = "header"]
  /\ todo' = [todo EXCEPT ![t] = Tail(@)]
  /\ lock' = Release(t)
  /\ UNCHANGED <<listenVars, client, request, answer, inVars, reader, watcher, got>>

\* A watcher that could not write goes on polling: an item or the end of the turn
\* is not said again, but an ask is, at the next poll.
WatchGoesOn(t) ==
  \/ UNCHANGED watcher
  \/ /\ t # Reader /\ watcher[t] \notin {None, 0}
     /\ watcher' = [watcher EXCEPT ![t] = @ + 1]

\* A failed reply or pong ends the reader; that thread/started could not be
\* written is ignored.
WriteFails(t) ==
  /\ Writing(t) /\ MayWrite(t) /\ client = "closed"
  /\ part' = [part EXCEPT ![t] = "header"]
  /\ lock' = Release(t)
  /\ todo' = [todo EXCEPT ![t] = <<>>]
  /\ reader' = IF Head(todo[t]).kind \in {"note", "event"} THEN reader ELSE "done"
  /\ WatchGoesOn(t)
  /\ UNCHANGED <<listenVars, client, request, answer, inVars, outVars>>

-----------------------------------------------------------------------------
ThreadStep(t) == Lock(t) \/ WriteHeader(t) \/ WritePayload(t) \/ WriteFails(t)
ReaderStep == ServeConnection \/ ReadFrame \/ ReadEof \/ StartWatch
WatcherStep(w) == Watch(w) \/ EndWatch(w)

Next ==
  \/ \E s \in Servers : Start(s) \/ Bind(s) \/ Die(s)
  \/ RemoveFile \/ Connect \/ ClientReads \/ ClientCloses
  \/ \E f \in Frames : ClientSends(f)
  \/ ReaderStep
  \/ \E w \in Watchers : WatcherStep(w)
  \/ \E t \in Threads : ThreadStep(t)

Spec == Init /\ [][Next]_vars

\* The threads of a live server run and a client that has not closed goes on
\* reading.  A thread that waits for the lock gets it in the end: a watcher
\* sleeps between two polls.  That a turn has something to say, or ends, is not
\* assumed.
FairSpec ==
  /\ Spec
  /\ WF_vars(ReaderStep) /\ WF_vars(ClientReads)
  /\ \A w \in Watchers : WF_vars(EndWatch(w))
  /\ \A t \in Threads : SF_vars(Lock(t)) /\ WF_vars(ThreadStep(t))

-----------------------------------------------------------------------------
\* "Occupied Unix listen paths fail closed and are not unlinked": of the
\* processes started on a path, whatever the order of their looks and binds
\* and deaths, only the one that made the file listens, unless it was removed
\* by hand.
ListenerOwnsPath ==
  \A s \in Servers : server[s] = "listen" /\ s \notin removed => file = s

\* The rows of the table of docs/protocol/README.md that a request meets.  The
\* table does not list a request line or a header that is malformed: they are
\* taken for 400 here, as upgrade does.
Rows(r) ==
  LET missing(header, value) == header = <<>> \/ Head(header) # value
  IN (IF r.headers = "large" THEN {"close"} ELSE {})
     \cup (IF r.method # "GET" THEN {"405"} ELSE {})
     \cup (IF r.target # "/" THEN {"404"} ELSE {})
     \cup (IF \/ r.version # "HTTP/1.1" \/ r.line # "three"
              \/ r.headers \in {"cut", "no colon"}
              \/ missing(r.upgrade, "websocket")
              \/ r.connection = <<>> \/ "upgrade" \notin Head(r.connection)
              \/ missing(r.key, 16)
           THEN {"400"} ELSE {})
     \cup (IF missing(r.ws, "13") THEN {"426"} ELSE {})

\* The table is closed: a client is upgraded exactly when its request meets no
\* row, and is otherwise told of a row it does meet; and no frame goes
\* to a client that was refused.
UpgradeFollowsTable ==
  /\ answer # None =>
       IF answer = "101" THEN Rows(request) = {} ELSE answer \in Rows(request)
  /\ got \o wire # <<>> => answer = "101"

\* What the client reads: the parts of two frames are mixed only where a pong,
\* which read_ws_text writes without the writer's lock, meets the frame of a
\* watcher; and whatever is said of a thread or a turn follows the whole reply
\* that named it (after_rpc).
FramesDoNotMix ==
  LET s == got \o wire
  IN /\ \A i, j \in DOMAIN s :
          i < j /\ s[i] = Part(s[i].of, "header") /\ s[j] = Part(s[i].of, "payload")
            /\ (\A k \in (i + 1)..(j - 1) : s[k].of # s[i].of)
          => \A k \in (i + 1)..(j - 1) :
               {s[i].of.kind, s[k].of.kind} = {"pong", "event"}
     /\ \A j \in DOMAIN s :
          s[j].of.kind \in {"note", "event"} =>
            \E i \in 1..(j - 1) : s[i] = Part(Frame("reply", s[j].of.n), "payload")

Owed(n) == Contains(todo[Reader], Frame("reply", n))

Heard(n) == \E i \in DOMAIN got : got[i] = Part(Frame("reply", n), "payload")

\* Every RPC that is read is answered while the client is there and reads, even
\* when watchers fill the socket and hold the writer's lock, and no watcher stays
\* in a write for ever.  When the client has gone rpc_loop ends, and so does the
\* watcher of a turn that is over.  No more is said of the others: a failed item
\* or ask does not end watch_turn, which polls until its turn ends, for ever if
\* an approval stays parked.
RepliesArrive ==
  /\ \A n \in 1..MaxSent : Owed(n) ~> (Heard(n) \/ client = "closed")
  /\ \A w \in Watchers : todo[w] # <<>> ~> todo[w] = <<>>
  /\ client = "closed" ~> (answer = "101" => reader = "done")
  /\ \A w \in Watchers : client = "closed" /\ watcher[w] = 0 ~> watcher[w] = None
=============================================================================
