# Gamchi: a TLA+ model of turns, agents and approvals

Gamchi lets a parent program (an MCP client, a CLI user, a WebSocket client)
run *turns* on a Grok agent. Every gamchi process works on the same directory
of JSON files; there is no daemon. A turn is admitted, an agent process is
spawned for it, the agent is spoken to over ACP (JSON-RPC on its stdio), and the
turn ends `completed`, `interrupted` or `failed`. Any process may die at any
point, and any other process may then look at the files.

The project models the part where that can go wrong: the ledger and its locks,
the life of the agent process, the ACP conversation, the two servers down to the
frames of the socket, and the settings (model, effort, policy, instructions,
session) that a thread hands from turn to turn and from facade to facade.

## 1. The system: components, state, operations

| component | source | state | operations |
|---|---|---|---|
| ledger | `crates/core/src/ledger.rs` | `threads/`, `turns/`, `generations/`, `turns/by-client/`; `flock`s `admit.lock`, `threads/<id>.lock`, `generations/<id>.live` | create_thread, admit_turn, observe, cancel, publish_terminal, upsert_item, set_acp_session_id, set_child_pid, mark_child_eof, park/respond/wait/clear of an approval, list, wait |
| turn runner | `crates/adapter-grok/src/turn.rs` | one call stack per turn | admit, spawn, track, record, drive, publish_stop, reap, mark eof, finish |
| teardown | `crates/adapter-grok/src/teardown.rs` | `LIVE_PIDS`, `SPAWNS_OPEN`, `SHUTTING_DOWN` | register, unregister, kill group, parent exit, signal |
| ACP session | `turn.rs` (`drive_prompt`, `apply_update`, permission handler) | `Shared{history, fatal, ...}`, the stream from the agent | initialize, session/load or session/new, session/prompt, session/update, session/request_permission |
| MCP host | `crates/gamchi/src/mcp.rs`, `ops.rs` | one loop over stdin | grok_spawn/followup/await/wait/status/respond/cancel, EOF |
| app-server | `crates/gamchi/src/app_server.rs` | the file at the listen path; per connection: pending asks, the writer and its lock; per turn: a watcher with its snapshot sets | bind, upgrade, frames, thread/start, thread/resume, turn/start, turn/interrupt, notifications, approval asks |
| mapper | `crates/adapter-grok/src/map.rs` | open items of a turn | one ACP update to items |
| launch, defaults, home | `launch.rs`, `defaults.rs`, `core/src/home.rs` | `config.yaml` of the user | home, model, effort, what cannot be enforced, command line |
| worker CLI | `crates/gamchi/src/worker.rs` | none | flags; one ledger or runner call per verb |

Interactions. The hosts call `run_turn` on background threads and wait for the
*admission* only. The runner writes items and the end of the turn into the
ledger; hosts and watchers poll it. An approval is parked in the turn record by
the runner's permission task and answered by whoever calls `respond`: another
MCP call, a CLI verb, a socket watcher. Cancel writes `interrupted` first and
then kills the process group recorded in the generation. A turn whose owner or
child is gone is closed (`failed`, `worker_gone`) by the next one who looks.

What is hard here, and therefore what the properties are about:

- *crashes between two writes* of an admission or of a publish (no rollback
  exists: the next reader repairs);
- *two locks and a scan without a lock*, in several processes;
- *windows around spawn*: a cancel, an EOF or a signal between the spawn and the
  moment the pid is in the table or in the generation;
- *races for the end of a turn*: the agent's stop, a cancel, an observer;
- *approvals*: late, double, misdirected answers; waiters that nobody will wake;
- *replay*: `session/load` sends old updates as if they were new;
- *one thread for everything* in the MCP loop;
- *settings read before they are used*: a thread record and the list of its turns
  are read before the admission, `config.yaml` changes between turns, and three
  facades fill in what a request leaves out each in its own way;
- *several writers of one socket*, one of them without the lock, and a client that
  may be slow.

`PROJECT.json` lists the hazards line by line with the properties that cover
them.

## 2. Modules

| module | models | composes |
|---|---|---|
| `TurnStore` | abstract: admit, finish, ask, answer, withdraw, each in one step | |
| `Ledger` | the ledger, write by write | implements `TurnStore` (`ImplementsStore`) |
| `LedgerInv` | its inductive invariant and the order of its locks | extends `Ledger` |
| `LedgerProofs` | theorems on admission, ends, answers, records, locks and the refinement | extends `LedgerInv`, `TLAPS` |
| `TurnRunner` | run_turn, teardown, cancel_turn, over hosts | ledger calls atomic |
| `TurnRunnerProofs` | theorems | extends `TurnRunner`, `TLAPS` |
| `AcpSession` | the ACP client side of the turns of one thread | ledger calls atomic |
| `AcpSessionProofs` | theorems | extends `AcpSession`, `TLAPS` |
| `AppServer` | one connection and its watchers | ledger calls atomic |
| `AppServerProofs` | theorems | extends `AppServer`, `TLAPS` |
| `Mapper` | updates to items, and items to the turn record | |
| `MapperProofs` | theorems | extends `Mapper`, `TLAPS` |
| `McpHost` | the stdin loop and its tools | turns and agents reduced |
| `McpHostProofs` | theorems | extends `McpHost`, `TLAPS` |
| `Launch` | the functions that turn a request, a thread and `config.yaml` into a command line | |
| `Settings` | calls of the three facades on the threads of one home | uses `Launch`; ledger calls atomic |
| `SettingsProofs` | theorems | extends `Settings`, `TLAPS` |
| `Socket` | the listen path, the upgrade, and the frames of a connection | below `AppServer` |
| `SocketProofs` | theorems | extends `Socket`, `TLAPS` |
| `MC*` | constants and symmetry for TLC | |

The modules above `Ledger` use each ledger operation as one atomic step. That is
what `ImplementsStore` justifies: whatever the writes of an operation are, and
wherever it dies, a caller sees a step of `TurnStore` or nothing.

### Ledger

*State.* `thread`, `turn`, `gen`, `client` are the four kinds of files (`None`:
no file). `admitLock` and `threadLock` are the flocks, `hold` the `LiveHold`s of
the owners: the path in `PROCESS_LIVE`, which the owner's process sees, and the
`.live` lock, which others try and the kernel drops when a process dies. `hold_live`
drops the error of that lock (`ledger.rs:732`); the turns held without it are in
`bare`, and `OwnerInstanceAlive(a, t)` is what the caller `a` finds: its own
process's table, else the lock. A caller whose try of the lock fails goes by
`process_alive` instead (`ledger.rs:755`): it may take a turn for live whose
instance has gone, so an observation may find a turn dead or live wherever the two
differ (`SeenDead`, `SeenLive`). `ProcessOf` says which callers share a process, and
`running` which children live. `pc`/`op` are the position and locals of each
caller. `answered`, `gone` and (for the agent's view) `outcome` are history.

*Grain.* Files are replaced by rename, so a write is atomic. An action ends at
every file somebody else can read or a crash can leave behind; what happens
between two writes under one lock is one action. So `admit_turn` is
`AdmitTurn` (admit lock), `LookupClient`, `ScanClient`, `LockThread`,
`CheckPointer`, `ScanThread`, `WriteGeneration`, `WriteTurn`, `WritePointer`,
`StoreClient`, `HoldLive`; every write and the live lock may fail and the actor may
die at any of them (`Exit`). `publish_terminal` is the write of the turn
(`PublishTerminalLocked`) and the thread's pointer (`ClearPointer`). Where an
observer inside another operation closes a dead turn, `op.ret` is the place it
goes back to. `respond` is `ListTurns`, a lock-free scan turn by turn
(`ListTurn`, `ListTurnsStep`), and `Respond`, under the lock of the thread it
found. The gate's task is `ParkApproval`, `WaitPendingDecision`,
`ClearPending`. A generation has exactly one turn and is indexed by it.
`process_alive` is taken as exact (see the `numeric_edge` hazard).

### TurnRunner

A *runner* is one call of `run_turn`. `pc` follows `run_turn_async`: `Admit`,
`BeginAcpSpawn`, `CheckShutdown`, `Spawn`, `TrackChild`, `SetChildPid`,
`Recheck`, then the connection (`Answer`: the agent's stop, and `PublishStop`, the
record of it while the connection is open; or `ConnectionError`), `Reap`,
`MarkChildEof`, and `Finish`, which publishes what is not published yet. The
reads and writes of a runner in `Failing` may fail: their errors are dropped or end
the run where the code does so, and `publish_stop`'s leaves the turn to `Finish`,
after the child's end (`unpublished`). A runner in `Lockless` holds its turn without
the `.live` lock, so observers of other processes see it dead.

`table` is `LIVE_PIDS` with `MaxLive` slots, `exit`/`how`/`sweep` the exit of a
host: `StdinEof` closes the gate for spawns, sweeps the table slot by slot
(`SweepSlot`, `SweepKill`, `EndSweep`), waits for open spawns, sweeps again, exits.
A signal runs its handler on one thread while the others go on: `Signal` raises
`SHUTTING_DOWN`, `SignalSlot` is a slot the walk comes to, `SignalExit` is `_exit`
after the last one. A child that was in the table when the walk began has been
killed by then; one whose spawn was under way (`opened`) may be registered in a slot
the walk has passed, or not at all. `KillHost` is SIGKILL, after which the agent is
alive and nobody's. `Cancel`/`CancelTeardown` are `ops::cancel_turn`. `SlowSpawns`
says whether a spawn may outlast the two seconds `parent_exit_teardown` waits.
`Answers` is what the agent's stop reasons map to.

### AcpSession

A *run* of a thread: `TurnStart` and `Followup` read the thread's session id and
decide between load and new; `Admit`, `Initialize`, `StartSession`, `Loaded` or
`Created`, `SendPrompt`, `Answered`, and `Disconnected`/`End`. The agent is
external: it sends updates and permission requests (`AgentSends`), opens a
session, answers, dies; what it sends while loading is a replay
(`live = FALSE`). Messages arrive in order (`Dispatch`), gate tasks run
concurrently with later messages. A permission request is answered by
`AutoAllow` (policy never), or parked and finished by `FinishGatedPermission`
with the option `DecisionOption` picks.

Assumptions: item writes succeed; an update becomes an item of its own (what it
really becomes is module `Mapper`); `fs/*` requests have no effect on a turn.

### Mapper

`items` and `tools` are the `Mapper`, `wire` the items in the turn record;
`AgentMessageChunk`, `Plan`, `ToolCall`, `ToolCallUpdate` are the branches of
`Mapper::apply`, each followed by `UpsertItem`, which the record refuses once
the turn is over. `heard` keeps the updates, and the *reference* is a definition
of the items from that history at once: which message opens an item, which later
ones set its status, title and type, and the order of first mention. A text is a
sequence of words, of which `map_kind` looks for two. `IdOf` stands for
`sanitize_id`; two of the calls share an id. `ReservedAssumption` leaves out tool
calls that are named like one of the three fixed items (see the hazards).

### AppServer

`reader` is `rpc_loop`: it handles one message at a time; while a turn/start
waits for its admission it *is* that turn. `AfterRpc` starts the watcher after
the reply is written. A watcher polls (`Observe`), emits item notifications one
by one (`EmitItem`), finishes (`FinishWatch`), receives its ask's reply
(`TryRecv`), asks (`Ask`). `chan`/`pending`/`ask` are the reply channels.
Admissions may be late, replies may be no decision at all (`Bad`), and others
may answer the same request (`RespondElsewhere`). The client may close.

### McpHost

`loop` is what `run_mcp` is doing; `stdin` what the parent has written and the
loop has not read. A parent may write ahead and close at any point.

### Launch and Settings

`Launch` has no state. A text is a member of a small set that has what the code
tells apart: absent, null, another JSON value, blank, padded, quoted, the alias
`grok`. `ResolveHome`, `Malformed`/`DefaultOf` (config.yaml), `ResolveLayer`,
`ResolveFirstTurn` and `ResolveFollowUp` (model and effort), `Parse` and
`ToThreadSandbox` (policies), `WorkerStartRequest`, `SpawnRequest`,
`FollowupRequest`, `TurnRequest`, `ThreadRequest` (what each facade makes of its
parameters, or refuses), `PlanRefuses` and `PlanLaunch` (the command line) each
have the name of the function they translate. A refusal is a value of its own.
The constant `Texts` is the set of all texts there are; it has at least those the
code names (`LaunchTextsAssumption`), and is `STRING` for TLC.

`Settings` lets calls of the CLI, the MCP server and the app-server work on the
same threads. `thread`, `turn` and `live` are the records; `call` is the position
of a call in `run_turn_async`: `Receive` (the request is built), `Preamble`
(`PreambleFirst` or `PreambleLater`: the thread, the previous effort and the
session to load are *read*), `Admit`, `Spawn` (`plan_launch`), `SessionNew`,
`StoreSession`, and the two ends `RunEnds` and `TurnEnds`, since a turn may be
over (cancelled) while its run goes on. `argv` is the command line of the agent,
`rules` what a session was opened with; `order`, `asked` and `stored` are history.
Reading `config.yaml` or the clock gives any value of `ConfigFiles` and
`0..MaxNow`: the user edits the file at any time, and a clock may step back.
A turn has the id of the call that admitted it; `Pid` is its process, because
`new_id` begins with it and `previous_turn_effort` compares ids; pids go up to
`MaxPid`.

### Socket

`server` and `file` are the processes started on one path; `Start` looks, `Bind`
binds, `Die` leaves the file behind, `RemoveFile` is the user. `Upgrade` takes the
request by its fields, a header being the sequence of its values. Then frames: the
reader (`ReadFrame`, `ReadEof`, `StartWatch`) and the watchers (`Watch`) put frames
into `todo`, and `WriteHeader`/`WritePayload` are the two `write_all`s of
`write_ws_frame`, each of which needs room in a socket that holds `Buffer` parts.
`Lock`/`Release` is the mutex of `ConnIo`; a pong does not take it. A watcher has
`MaxEvents` things to say, turn/completed being the last, after which it returns
(`EndWatch`). `WriteFails` is a write after the client has gone: the loop returns, a
failed notification of thread/start is ignored, and a watcher polls on
(`WatchGoesOn`): an item that could not be written is not said again
(`app_server.rs:433`), an ask is, at the next poll (`app_server.rs:552`), and only a
failed turn/completed ends it (`app_server.rs:447`).

## 3. Runs

| run | question | bounds |
|---|---|---|
| `ledger_admission` | is a thread, and a client key, ever given two turns in flight? does the ledger implement `TurnStore`? | 2 processes, 2 threads, 2 turns, 1 key |
| `ledger_records` | is `worker_gone` ever said of a living worker; does the first end of a turn stay; is a session id ever lost to a stale record? | 2 processes, 1 thread, 2 turns, 1 child pid, 2 session ids; a live lock may fail |
| `ledger_approval` | is the agent told what was decided for *that* request, once? | 1 runner, 2 watchers, 1 turn, 2 requests, 2 decisions |
| `ledger_live` | do waits for the dead end, do answers arrive, do calls come to an end? | 2 processes, 1 turn, 1 request, 1 child; fair |
| `runner_runs` | which ways of ending a run, a host or a turn leave an agent behind? | 2 runs with one key, 1 host, 1 cancel, a table of 1; the ledger may fail one run, the other has no live lock; the agent answers `completed`; 1.1 million states |
| `runner_dedup` | *violation*: one agent per turn | as above, a table of 2 |
| `app_watch` | order and completeness of notifications; is a reply recorded for the request it answers, is a parked request decided in the end; is the end announced? | 1 turn, 1 item, 2 requests; fair |
| `mapper_items` | are the items of a turn, in the mapper and in the record, what all the updates together say? | any 4 of 12 updates, 3 tool calls with 2 ids |
| `acp_turn` | replay, updates, permissions, session of the prompt | 1 run, 3 unsolicited messages, 3 option sets |
| `mcp_calls` | are calls answered, is EOF honoured, does an await of the dead return? | 2 turns, 4 calls; fair |
| `settings_threads` | do model, rules, policy, effort and session pass from call to call as documented? | 2 calls of any facade, an old, an unused and new threads, 19 parameter sets, 3 files, 2 seconds, 2 sessions |
| `socket_frames` | who listens, is the upgrade the documented table, which frames can be mixed, do replies arrive, and who ends when the client has gone? | 2 processes, requests with up to two faults, 2 of 8 frames, 2 notifications, a socket of 2 parts; fair |

Why the bounds are enough to show something. Two admitting processes are what a
lock protocol needs to go wrong, and with deaths between any two writes the
second one meets every partial state the first can leave. Two turns give a stale
pointer and a stale index a new turn to hurt; one key with two threads makes the
index and the thread lock independent. Two requests on one turn are needed for
an answer to hit the wrong one. A table of one slot makes it full with two
runs. Three messages are a replay, a permission request and an update in any
order. Four updates are enough for a tool to be mentioned without a type, opened,
changed by a call with the same id and updated once more. One turn on the socket
is enough for two asks to be out, since an ask outlives a request that somebody
else has answered; two watchers share only the writer and the counter of ids.
Two calls are what it takes for one to read before and act after the other; the
old thread already has a turn and a session, so an effort has up to two
predecessors. On the socket two frames give two watchers, or a watcher and a pong
or a reply; a buffer of one frame makes every writer wait.
Every property is known to fail on a mutant of the model (a dropped
check, a swapped write, a missing reset; the operators next to the ones they
mutate), under the same bounds.

Deadlock is checked in the ledger runs: whatever state the files are in, somebody
can go on or call. In the others the end of all activity
(the runs are over, the parent has left) is a legal stop, hence
`CHECK_DEADLOCK FALSE`.

Symmetry is used in safety runs only, over identities no definition tells
apart.

### Properties

*Ledger.* `OneInProgressPerThread`, `OneInFlightPerKey`: exclusion in spite of
deaths. `ImplementsStore`: refinement; in particular a request is answered once
and a turn ends once. `WorkerGoneIsHonest`: a turn is closed as worker_gone only
if its owner or child had gone, also in the window in which a new turn is on disk
and not yet held; excepted is a turn held without its lock and observed by another
process than its owner's. `FirstTerminalWins`. `AcpSessionNeverLost`: whole-record writes
of a thread do not undo one another. `GateObeysItsAnswer`. `DeadWaitEnds` (whoever
waits for a turn, or at a gate, whose worker is dead goes on),
`AnswerIsDelivered`, `CallsEnd` (no deadlock or livelock over the two locks).

*TurnRunner.* `DoneLeavesNoChild`, `EofLeavesNoChild`. `SignalKillsTracked`: no spawn
begins under the signal handler, and what outlives the host was being spawned when
the handler began or had just been taken out of the table by a sweep.
`AnsweredIsNotWorkerGone`, with the ways the code leaves open as its exceptions
(section 4). `CancelKillsChild`.

*AcpSession.* `TurnHasItsOwnUpdates`: nothing replayed is in a turn, and a completed
one lacks nothing that was sent to it. `PermissionsAreObeyed`: nothing gated is
allowed without an accept, and a turn with a request that could not be allowed
does not complete. `PromptInOpenSession`.

*Mapper.* `ItemsAreWhatWasHeard` (in the mapper and in the turn record),
`CompletedTurnHasItsMessage`.

*AppServer.* `NotificationOrder` (started, completed, turn/completed last and with
nothing left out), `SocketAnswersItsAsk`, `ParkedIsDecided`,
`CompletionIsAnnounced`.

*McpHost.* `EofTearsDownUnlessAwaiting`; `CallsAreAnswered`, a grok_await of a turn
whose agent has died included.

*Settings.* `ModelIsFrozen`, `PolicyIsInForce`, `RulesAreFrozen`: what the agent of a
turn was started with, and the session it was given. The model is compared with the
thread of the *turn*; the agent of a duplicate spawn, which drives the turn of
another thread, is excepted and judged by its own call, here and in
`PolicyIsInForce`. `EffortIsPrevious` and
`SessionIsKept` say exactly when an omitted effort is the previous turn's and when
a session may be replaced; the code guarantees no more (section 4).

*Socket.* `ListenerOwnsPath`, `UpgradeFollowsTable` (against the table of
`docs/protocol/README.md`, in which the order of the rows is open; malformed
request lines and headers, which it does not list, are counted as its 400),
`FramesDoNotMix`, `RepliesArrive` (replies reach a client that reads, no watcher
stays in a write, and with the client gone the loop ends and so do the watchers of
turns that are over; the others poll on).

### Fairness

Only what the code schedules by itself is fair.

- `Ledger`: strong fairness of each actor's `Step`. A call that has begun is a
  thread that runs; `flock` queues its waiters; the polls re-read every 20 ms.
  Strong, because a lock that is free infinitely often must be obtained. No
  fairness for calling, dying or answering.
- `TurnRunner`: weak fairness of the runner's own steps, of noticing that a dead
  child's stream has closed, of a cancel's second half, of a host's exit and of the
  walk of its signal handler. The agent may never answer.
- `AppServer`: weak fairness of watchers, admissions and the reader's
  continuation. `ParkedIsDecided` also needs a client that answers: an answer to
  each ask that was written is fair, as long as the client is there.
- `Socket`: weak fairness of the reader, of the return of a watcher that has said
  its last, of each thread's next lock or write, and of a client's reading as long as
  it has not closed; strong fairness of taking the lock, since a watcher that keeps
  asking in vain sleeps 20 ms between two polls and leaves the lock free. That a turn
  ever has something to say, or ends, is not assumed. A client
  owes nothing else; without its reading a full socket stops everyone, which is
  what the code does.
- `McpHost`: weak fairness of the loop and of admissions. Agents and parents owe
  nothing.

## 4. Findings

One run ends in a counterexample to what a document of the repository says.

- `runner_dedup` / `OneChildPerTurn`. `docs/specs/mcp-async-host-contract.md`
  says duplicate in-flight keys return the existing ids. They do; and `run_turn`
  then goes on and drives that turn with a second agent.

Met while modelling, without a run of their own:

- `turn_start` reads the thread's session id before the admission, so two starts
  on a fresh thread both open a session and the later replaces the earlier, while
  `docs/specs/grok-launch.md:157-159` says the next turn loads the stored one; the
  late session/new of a cancelled first run replaces the next turn's session in the
  same way, and a duplicate spawn stores its session on the other's thread, with an
  agent of its own model and policy (`docs/specs/grok-launch.md:114` has a thread
  freeze its model). `SessionIsKept` says that nothing else does, and `ModelIsFrozen`
  that no other agent has another model than the thread of its turn;
- `hold_live` goes on when it cannot lock the `.live` file (`ledger.rs:732`): to every
  other process the turn then has no owner, and is closed as worker_gone while its
  worker lives;
- an agent that exits between its answer and `publish_stop`, or a `publish_stop` whose
  write fails (its error is dropped, `turn.rs:417`, and `finish_turn` comes back to it
  only after the reap), lets an observer close an answered turn as worker_gone;
- a watcher whose client has gone polls until its turn ends, and keeps asking at every
  poll for an approval that is parked; with nobody else to answer, for ever;
- the MCP loop does not read stdin while it is in grok_await, so end of file tears
  nothing down until the turn is over; hence `EofTearsDownUnlessAwaiting`;
- an omitted effort is that of the turn with the greatest `started_epoch`, in
  seconds, and then id, which begins with the pid: two turns of one second in two
  processes may be taken in the wrong order, and a turn admitted after the list was
  read is not seen. `EffortIsPrevious` has these as its conditions;
- an `approvalPolicy` that is no string is taken for an omitted one
  (`app_server.rs:786`), and the CLI's followup parses `--approval-policy` and
  ignores it;
- a blank default in `config.yaml` is refused only where that layer is used, and the
  alias `grok` is replaced in an effort as well as in a model;
- a spawn that `plan_launch` refuses (a relative directory, a read-only sandbox)
  leaves the thread it has created;
- a pong may fall between the header and the payload of a watcher's frame
  (`app_server.rs:956`): `FramesDoNotMix` says that it is the only such case;
- when the reader has returned, the socket stays open until the last watcher has;
- the HTTP version is looked at before the target, unlike the order of the table;
- the signal handler does not wait for open spawns (`teardown.rs:140`) as the
  graceful exit does, and the other threads run while it walks the table: a child
  registered in a slot it has passed is left. `SignalKillsTracked` states what
  remains true;
- a second `cancel` of a turn finds it interrupted and tears down again, while
  the comment at `ops.rs:128-130` reserves the teardown to the one that
  published;
- a request may be parked over one that is answered and not yet consumed
  (`ledger.rs:389`); the older gate then waits, without its answer, until the turn is
  over. `AnswerIsDelivered` excepts exactly that;
- a plan item never leaves `inProgress`: nothing in `map.rs` completes it, so the
  socket never announces its end;
- with two runs on one turn, the generation has only the pid recorded last, so a
  cancel kills that one; `CancelKillsChild` is stated for a turn with one run.

## 5. Proofs

All theorems hold for every value of the constants under the named assumptions
next to the constants, which TLC evaluates in the runs:

- *distinct values*: `None` is neither an id nor a record (`NoneAssumption`,
  `SlotAssumption`, `RunnerNoneAssumption`, `SocketNoneAssumption`,
  `SessionNoneAssumption`, `AppNoneAssumption`, `McpNoneAssumption`,
  `SettingsNoneAssumption`, `MapperNoneAssumption`); a decision is none of the three other outcomes of a
  gate (`DecisionsAssumption`); a turn is not one of the two other places of the
  socket's reader (`AppTurnsAssumption`); calls and stored threads have different
  names (`SettingsNamesAssumption`);
- *shapes*: runners and watchers are actors (`RolesAssumption`), a runner has a host
  (`HostsAssumption`), an actor a process (`ProcessAssumption`), a stop reason maps to
  one of the three ends of a turn (`AnswersAssumption`), only runners fail
  (`FailingAssumption`), an option is of the four kinds of ACP (`OptionsAssumption`),
  an update has the fields of its kind (`UpdatesAssumption`), no tool call is named like
  a fixed item (`ReservedAssumption`),
  parameters and files have the fields the code reads (`SettingsParamsAssumption`,
  `SettingsFilesAssumption`), bounds are naturals;
- *what is on disk at the start*: sessions of ACP threads (`SessionsAssumption`), and
  threads and efforts that this program has written: an effort is empty or was
  resolved, and a stored session is none that an agent opens later
  (`SettingsStoredAssumption`).

Each proof has the same outline: an inductive invariant as a conjunction of named
parts, one lemma for the initial states, one lemma per action or group of actions
with a step for each part it can disturb, one for the next-state relation, and then
the properties, each of which follows from the invariant in a state (or from the
invariant and one step).

**LedgerProofs.** `AdmissionInvariant` (`Spec => []AdmissionInv`), and from it
`TypeCorrect`, `ThreadExclusion` and `KeyExclusion`. Exclusion is not inductive:
a process about to write a turn knows the thread is free only from a scan it
made earlier. The strengthening says

- `LockInv`: at each label the locks the code has taken are held;
- `ScanInv`: what a scan has passed is *still* not in progress on the thread (or
  with the key): others that could change that need the lock this one holds. A
  turn only leaves `inProgress`, never returns;
- `CallInv`, `FreshInv`: the locals of a call are about turns that exist, and a
  scan begins with nothing seen;
- `FileInv`: pointers and index entries refer to admitted turns of the right
  thread.

Deaths keep it because a death drops locks and only locks: what it leaves behind
is a file the invariant already allowed. `LookupClient` needs nothing from the
index (which may be missing or stale): the scan that follows is what
`OneInFlightPerKey` rests on.

On top of it, `StepKinds` is the lemma everything else cites: a step writes no turn
record, or is one of the six writes of one turn (admit, item, park, answer, withdraw,
end). From it:

- `TerminalIsFinal` (`FirstTerminalWins`) and `LedgerImplementsStore`
  (`ImplementsStore`): each of the six writes is a step of `TurnStore` on the mapped
  state and everything else a stutter, death and failed write included;
- `LedgerInvariant`: `IInv`, which is `AdmissionInv` with
  `LiveInv` (a turn in progress that nobody holds is new, and its admitter still has
  the thread lock, or its worker has really gone; this is the window between the
  write of a turn and its `.live` lock; a hold is its owner's, with the lock or
  without, so that only a hold without it can mislead an observer), `AnswerInv` (a request id is pending on at
  most one turn, and a decision in the file, at the gate or with the agent is the one
  recorded for it) and `CopyInv` (the session id in a copy of a thread record
  that is about to be written back is the file's);
- `WorkerGoneIsTrue` (`WorkerGoneIsHonest`), `AnswersAreObeyed`
  (`GateObeysItsAnswer`), `SessionIsNeverLost` (`AcpSessionNeverLost`);
- `NoLockCycle` (`LocksAreOrdered`): a call that has the lock of a thread waits for no
  other, neither another thread's nor, by calling itself, its own (the hazard of an
  observer that is run inside an admission), and only an admission has the admission
  lock. `LockInv` says that a call has the locks its place needs; the converse is
  needed here, `HolderInv`: who has a lock is at a place that will drop it, on the
  thread of that lock. It rests on `ThreadOfTurn`, since the lock of a publishing
  call is named only through the turn it publishes. This is the safety core of
  `CallsEnd`: no reachable state has calls waiting in a circle, for any number of
  processes. TLC finds no violation of the two formulas in the instances of the
  admission, approval and records runs, and of `CallsEnd` in that of the live run.

**TurnRunnerProofs.** `RunInvariant` (`RunInv == TypeOK /\ JobInv /\ ReapInv`), and
`RunTypes`, `NoChildAfterRun`, `NoChildAfterEof`, `NoTrackedChildAfterSignal`.
`ReapInv` says of a living child: its run is still at a label from which it will reap
it; on a host that is up it is in the table or in the hands of a sweep from the
moment it is tracked; a host at its last sweep has no spawn under way, and so none is
missed; and a run that is about to spawn or to track while a signal handler walks the
table was so when the handler began, since the flag it raised stops all others.
`NoChildAfterEof` is under `SlowSpawns = FALSE`, the code's own deadline.
`AnswerInvariant` adds `GrantInv`, `TableInv` and `AloneInv`: while a turn has one
runner, its host is up and nobody cancels, its child is alive from the record of its
pid until the answer is recorded, unless it ended by itself, so an observer finds
nothing to close; after that the turn is over unless the record failed. That gives
`AnswerIsNotLost` (`AnsweredIsNotWorkerGone`), for any set of runners that may fail
and of runners without a live lock.

**SocketProofs.** `PathOwnership`: `ListenerOwnsPath` is inductive, since a process
binds only where there is no file and so nobody listens whose file was not removed.
`UpgradeIsClosed` (`UpgradeFollowsTable`): `UpgradeIsTable` compares the chain of
checks with the table for *any* request, and `UpgradeInv` adds that nothing is
written or waits to be written before an upgrade, so that the answer is still the
one given to this request when a frame arrives. `FramesAreWhole` (`FramesDoNotMix`)
rests on `StreamInv`, about what the client has got followed by what is on the wire:
a frame that has begun and not ended belongs to the holder of the lock or is a pong,
at most one of each, and every thread or turn named in it, or waiting in a queue to
be named, was named by a reply before.

**AcpSessionProofs.** `SessionInvariant`, and from it `PromptIsInOpenSession`,
`TurnHasOnlyItsUpdates`, `PermissionIsObeyed`. Of a run the invariant says where it
is and what it has by then (`Phase`, `SessionKept`), that what its agent sent
before the load was answered, and nothing else, is replay, in a stream of which a
prefix was dispatched (`Stream`, `Bounded`), that what was dispatched live is an item
or a request at work (`Work`), and what each answered request was answered with
(`Obeyed`).

**AppServerProofs.** `AppInvariant`, `AnswersReachTheirAsk`, `TurnIsToldInOrder`.
`OwnInv`: a request is one turn's, and one that a watcher has asked about is not
asked about again, since `last_request` still has it. `ChanInv`: an id is pending or
answered, never both, and what is in its channel is what the client said about the
request of that id; late replies and requests answered elsewhere change neither.
`LogInv`, for each turn: what the client was told is in order, the reply comes before
the watcher starts, the watcher's sets are what it has told, and a terminal turn that
was observed is the record for good, so that the last look is complete.

**McpHostProofs.** `McpInvariant` (`Account`: what was written is in the pipe, in the
hands of the loop, or answered), `McpTypes`, `NothingIsLeftUnanswered`.

**SettingsProofs.** `SettingsInvariant`, and from it `SettingsTypes`,
`AgentHasTheFrozenModel`, `AgentHasThePolicyInForce`, `SessionHasTheFrozenRules`,
`TurnKeepsTheEffort`, `ThreadKeepsItsSession`. A call reads the thread, the list of
turns and `config.yaml` before its admission and acts on them afterwards; the
invariant says of each call that what it has read is still so: `ReceivedInv`,
`PlanInv` (model, instructions and policies are those of the record), `SawInv` (the
turns it saw were admitted before its own, and the effort it took is that of the
latest), `JobInv`, `OpenInv`, `ResumeInv`. `PlanStays` and `SawStays` show that the
steps of others keep it: the fields in question of a thread or a turn are written
once. `TurnInv` and `ThreadInv` are about the files: a turn record is the work of the
call of its name, the order of admissions has each turn once, and a session was
opened with the instructions of the thread that has it. The lemmas that carry the
weight: `PreviousIs` (the CHOOSE of `previous_turn_effort` has a value, since a
non-empty set of turns has a greatest by second, pid and position) and `StoresItsOwn`
(a duplicate spawn stores its session on another's thread, but both are first turns
and have no instructions).

**MapperProofs.** `MapperInvariant`, and from it `ItemsTellTheHistory`
(`ItemsAreWhatWasHeard`) and `CompletedTurnIsWhole` (`CompletedTurnHasItsMessage`), for
histories of any length. The reference computes the items from the whole history; no
induction over a history is made, the induction is the one over steps, and so the
question is what one more update does to each set of positions the reference is made
of (`Saying`, `About`, `Opening`, `Setting`, `Merging`, `Mentioned`: `SayingsGrow`,
`ChangesGrow`, `FirstStays`, `MentionedGrows`). From these: what the reference says of a
tool that the update is not about (`ToolKept`), that it sets again (`ToolReplaced`), that
it merges into (`ToolMerged`) or that it opens (`ToolOpened`), of the message
(`MessageGrows`) and of the plan (`PlanIs`). The order of first mention is the rank of a
position in a set of positions (`Ranks`, `Orders`); a last position is added at the end
and moves no other (`OrderGrows`). On the other side, `Places`, `PutIs`, `Revised`
and `Extended` say what an upsert does to a list with one item per id. One lemma per
handler (`ChunkStep`, `PlanStep`, `CallStep`, `UpdateStep`, `ThoughtStep`, `FinishStep`)
puts the two together. The strengthening, `MapInv`, is what the code relies on without a
check: `tools` has for each id the place of the item its first typed mention made, so that
a merge finds the right item in a list that only grows.

*Model-checked only*: liveness, which is outside the prover's reach: `DeadWaitEnds`,
`CallsEnd`, `AnswerIsDelivered`, `CancelKillsChild`, `ParkedIsDecided`,
`CompletionIsAnnounced`, `EofTearsDownUnlessAwaiting`, `CallsAreAnswered`,
`RepliesArrive`. Every invariant and every action property of the passing runs is
stated by a theorem.

## 6. Not modelled

- JSON, and the bytes of a frame (masks, lengths, UTF-8): a frame is malformed or
  it is not.
- The CLI's wait, status, result, respond, cancel and list: one call each of an
  operation that is modelled, and printing. `thread/read`, `model/list`,
  `grok_list`, `grok_models`: reads.
- `fs/read_text_file` and `fs/write_text_file` of the agent: no state of the program.
- The waiters' condition variables: they shorten a poll. Every call opens a ledger
  of its own, so the map of waiters is never shared.
- `AgentCommand::Override`, with which tests skip `plan_launch`.
- Tool calls named like one of the mapper's fixed items, and `process_alive` when the
  boot clock steps (see the hazards).
- `docscheck`, the fake agent, live capture: not part of the shipped behaviour.
- Disk loss and partial writes inside a file: the code renames over, and a crash
  of the machine is not something it claims to survive.

## 7. Plan

Done: `Ledger` with `TurnStore` first (everything rests on it), its admission
proof, `TurnRunner` and its proof, then `AcpSession`, `AppServer`, `McpHost` and
`Mapper`, then the settings of threads (`Launch`, `Settings`) and the socket; then
the proofs of every safety property of the runs, of the refinement of `TurnStore` and
of the order of the ledger's locks.

What could follow:

1. More safety parts of the liveness properties, as `NoLockCycle` is of `CallsEnd`:
   that a request of the socket's client which is not yet answered is in a queue, that a
   parked request has a watcher or a gate that looks at it.
2. Leaves that take several seconds, split.
