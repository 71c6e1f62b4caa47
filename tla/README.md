# Twilight Bark in TLA+

Twilight Bark is a fabric on which AI agents find each other and hand each other
tasks. On every machine a daemon owns a Zenoh session (the bus) and a Unix socket;
agents, through an MCP gateway, a Python or JS bridge or the CLI, talk JSON lines
to the socket. The daemon keeps the registry of agents, routes task requests, keeps
a ledger of the tasks in flight and answers those nobody answers.

This directory holds TLA+ modules for the parts of that system, the TLC
configurations that check them, and proofs for TLAPS.

`tlc -config <X>.cfg <MC module>` checks a run; `tlapm <X>Proofs.tla` checks proofs.

## Inventory

| part | state it keeps | operations | hard behaviour |
|---|---|---|---|
| IPC server (`twilight-daemon/src/ipc.rs`) | per connection: phase, `registered`, push channel; shared: `task_senders`, `pending_tasks` | register, subscribe_tasks, ping, get_registry, list_tasks, publish_task, ask_agent, reply_task, end of file | handlers interleave with each other, the router and the orchestrator at every await; the ledger is written after the publish; a failed write skips cleanup; the channel drops when full |
| Router and orchestrator (`twilight-daemon/src/daemon.rs`) | none of its own; the router's targets and the orchestrator's list of stale tasks are local snapshots | route a TaskRequest, push it, collect stale records, time them out | snapshots used after the maps changed; records overwritten; timeouts racing late answers |
| Traffic controller (`twilight-traffic-controller`) | `registry` with `last_seen` and status, `traffic_matrix` | update_presence, update_heartbeat, cleanup_stale_agents, get_targets, get_all_identities, remove_agent, record_traffic | the node's own presence comes back over the bus after the agent has gone; collect-then-remove eviction; deduplication by name |
| Bus (`twilight-bus`) | the Zenoh session | publish/subscribe of envelopes, presence, heartbeats | loss across nodes, subscription after publication |
| Daemon process (`daemon.rs`, `process.rs`, `twilight-cli` daemon commands) | PID file, socket file, tunnel process | start, stop, status, shutdown | two daemons, a slow shutdown overlapping a start, stale files |
| MCP client and gateway (`twilight-mcp-server`) | one connection, response channel, task queue; the gateway's cached client | call, reader task, get_pending_tasks; first request connects | calls serialised over one connection, a daemon restart under a cached client |
| Python and JS bridges | one connection, response queue, reader | call, read loop, close | callers waiting when the socket closes, a cancelled call's response |
| Scripts (`scripts/lmstudio-bridge.py`, `scripts/multi-turn-loop.py`) | one connection and a queue each; the turn, the task it waits for | serve a model's tasks and reconnect; ask, wait for the result, go on | lines of other tasks in between, three timeouts, a daemon that goes while the model works |
| CLI (`twilight-cli`) | one connection per command, or a bus session and a controller of its own | run, list, inject, smoke test, scenarios, agent listen/send | result pushed before the command subscribes; agents on the bus that answer tasks of a socket |
| Console (`twilight-console`) | `state.daemon` and its lock, poll loops, bus session; in the page `myUuid`, `pendingTask`, `reconnectTimer` | connect, chat, reply, start/stop daemon | timers that overlap, replaced clients that live on, state used after an await |
| Ziti, event log, adapters, core, proto | little or none | wrappers and data types | |

How they interact. A client writes one JSON command per line; the daemon's handler of
that connection answers each before it reads the next, and in phase 2 (after
`subscribe_tasks`) also writes what others push into the connection's channel. A
`publish_task` or `ask_agent` becomes an envelope on the bus; the router of the same
daemon reads it back, records it in the ledger and pushes a `task_request` to every
target; `reply_task` takes the record out and pushes a `task_result` to the requester;
the orchestrator does the same, with an error, for a record that is too old. Every
register and every leave is published as presence; every daemon, the publishing one
included, feeds what it reads to its traffic controller. No lock is held across any
of these steps, except the gateway's, which is held across `connect`.

What makes each part correct:

- *Tasks.* A result reaches only the client that asked and a request only the agent
  asked, however uuids, connections and records come and go; every task is answered
  and how often it can be; the ledger empties; who stays reachable.
- *Registry.* An agent that is there is listed at its own node; one that has left
  is not shown as present; ghosts fade; a live agent is what its name stands for; who
  takes over a live agent's name is noticed.
- *Membership.* What a process knows of the agents of others survives as many lost
  and late heartbeats as the threshold allows, and who has gone is dropped; the documents
  also say that who is there is seen.
- *Traffic.* Whoever waits for the answer to a task gets it, or there is a cause; the
  documents also say that the result of whichever agent was asked flows back.
- *Daemon process.* Files and child processes that outlive a daemon mean that it was
  killed; starts and stops end.
- *Clients.* A call gets its own answer or an error, events are not lost, and no
  caller waits for ever. A program that reconnects gets back, registers no more often
  than it means to, and takes an answer for what it has asked.

## Modules

| module | what it is | code |
|---|---|---|
| `TaskOrchestrator` | connections, ledger, push channels, router and orchestrator of one daemon | `ipc.rs`, `daemon.rs`, `twilight-bus` |
| `TaskPromise` | the abstract ledger that `TaskOrchestrator` implements | |
| `Registry` | registries of several nodes, their presence on the bus, cleanup, restarts | `twilight-traffic-controller`, `ipc.rs`, `daemon.rs`, `twilight-bus` |
| `Continuity` | `Registry` with what a register does when its name is taken | `ipc.rs` |
| `Membership` | what one process knows of the agents of others, from presence and heartbeats | `twilight-traffic-controller`, `twilight-bus`, `twilight-cli`, `daemon.rs`, console |
| `Traffic` | the CLI's commands that send tasks, the agents they reach over a socket or the bus | `twilight-cli/src/main.rs`, `twilight-bus` |
| `DaemonLifecycle` | daemon processes that share one socket path, their tunnels and files, the stop command | `daemon.rs`, `process.rs`, `ipc.rs`, `twilight-cli` |
| `DaemonClient` | a client shared by the tasks of one program, in Rust, Python or JavaScript | `twilight-mcp-server/src/lib.rs`, `bridges/` |
| `Gateway` | the HTTP gateway and its cached clients over daemon restarts | `twilight-mcp-server/src/main.rs` |
| `ConversationLoop` | a conversation with the bridge of a language model | `scripts/` |
| `Console` | the desktop console, backend and page | `twilight-console` |
| `MC...` | instances for TLC | |
| `TaskOrchestratorProofs`, `RegistryProofs` (also of `Continuity`), `MembershipProofs`, `TrafficProofs`, `DaemonLifecycleProofs`, `ClientProofs` (`DaemonClient` and `Gateway`), `ConversationLoopProofs`, `ConsoleProofs` | theorems | |

Every definition that stands for code is listed with its lines in `PROJECT.json`.
Operators named `<Definition>_<how>` are variants of the definition they precede, with
a plausible bug; each shows that some property would notice it, and none is part of
a specification.

### TaskOrchestrator

`phase[c]` is where the handler of connection c is (phase 1, phase 2, the two halves of
cleanup, ended, or returned by `?` without cleanup: "aborted"); `registered`, `sending`
are its locals, `task_senders`, `pending_tasks` and `identities` the shared maps, `chan`
the mpsc channels of capacity `ChanCap` (64 in the code), `bus` the envelopes the router
has yet to read, `routing` and `targets` its locals, `expired` the orchestrator's list.

A step of the model ends where the code awaits or lets a map go. So `SendTask` runs to
the await of `publish_envelope` and `FinishSend` or `FailSend` from there: `FailSend` is a
failure of the second put, of the JSON signal, when the envelope is already out.
`CleanupSender` and `CleanupIdentity` are the two maps that cleanup edits, `RouteTask`
computes the targets and writes the record, `RoutePush` pushes to one of them at a time,
`ReplyTask` is a reply by any registered client to any task, whether it was asked or not,
`TimeoutScan` collects and `TimeoutFire` removes and answers. `RegisterAgain` is a
registration that also broadcasts an identity-continuity event, a task like any other. The
registry is reduced to which uuids it knows (`identities`), from which cleanup of stale
agents takes any at any time (`EvictStale`): `Registry` says when.

`Unknown` is the source of a task whose sender the registry no longer knew. Histories:
`owner` (the connection Register gave a uuid to), `sent`, `asked`, `told`, `overflowed`,
`refused`, `answers`.

### TaskPromise

What the daemon promises about a task with everything else left out: a published task
may be recorded by its handler and once by the router, each record makes one result when
it is taken out, and neither is forgotten. It is the strongest such promise the code
keeps, and so allows a second result: the router and the handler write the record
independently, and a reply can come between the two.

### Registry

A session is one uuid, that is one Register. `entry[n][s]` is what node n's controller
holds, with an age in ticks in place of `last_seen`, and `later` the order in which entries
were last seen, which decides what `get_all_identities` shows of a name. `wire[h][n]` is
the presence published at h that n has yet to read, in order; only messages between
different nodes can be lost (`Lose`), and a node that has not subscribed yet gets none.
`Register` runs to the await of `publish_presence`, `FinishRegister` from there; `Leave` and
`FinishLeave` are the same halves of cleanup. `Abandon` is a connection that ends without
cleanup, or registers again. `Scan` and `Evict` are `cleanup_stale_agents` with its list
in between, `Restart` empties a node.

`Tick` cannot pass while a client that pings (`Pinging`) has let its entry reach the
threshold, or while a handler waits that long for the bus. The two scripts that keep an
agent alive ping every twenty seconds, and the threshold is thirty; the other clients do
not ping by themselves, and are sessions outside `Pinging`, which the cleanup evicts
although they are connected.

### Continuity

`Continuity` superposes on `Registry` the lookup that `Register` makes of its own name before
it publishes (`prior`, kept over the await as the handler keeps it) and the event it
sends afterwards when the model differs (`events`); every step of `Registry` is a step of it.
`holder` is a history: who alone had the name when the session registered. The publish of the
event may fail, with the event out or not (`Announce`): the handler warns of it, which `warned`
remembers, and the register is ok all the same.

### Membership

A daemon knows its own clients from their sockets, which is `Registry`; of everybody else
a process knows what it reads off the bus. `Membership` has one observer of four kinds, by
what it subscribes to (`reads`) and whether it cleans up: a daemon and the console read the
presence and heartbeats of all nodes, `list` the presence and `run` the heartbeats of its
own; a daemon and `run` have a cleanup loop. `wire` is the presence under way; it is not
ordered with the beats, because the subscriptions are tasks of their own.

A tick is a unit of time as small as one likes: `Interval` and `Timeout` are the ten seconds
between two beats and the thirty of the threshold in ticks, `phase[m]` the time since the last
beat of m was due, and an age counts ticks, so that it is compared as the code compares
elapsed milliseconds. A beat that is `due` is read (`BeatHeard`) or lost (`BeatLost`) up to
`Delay` ticks later: cleanup may scan in between, when the entry is already older than the
threshold. Histories: `missed`, the beats lost in a row, and `met`, the members the
observer has read an Online of since it started.

### Traffic

`Way[t]` is how task t is sent: by `agent send` through the socket ("send"), by the smoke test
or the observer of a2a, which subscribe to the bus and wait for a result there ("scenario"), or
by `inject` and the dogs, which wait for nothing ("inject"). `Near` is the key of the bus
that carries the traffic of one node, and `Answers[w]` the tasks a scenario's worker answers of those it
hears. The listener's side is `lines`, `listener` and `requested`: it reads line by line and takes the line
after its reply for the reply's answer. Of the daemon there is what these commands see
(`Route`, `TakeReply`, `TimeOut`), and no more of the ledger than `task`. `Send` may be
answered with an error, with the task on the bus or not, but without a record (`refused`): the command does
not look at `ok`, subscribes and waits all the same. A daemon may stop (`Stop`) with what it
has not yet written; `ConnectionClosed` and `ListenerCloses` are how the commands on its socket end.

### DaemonLifecycle

One process per element of `Daemons`, started at most once, its own pid. `proc` follows
`start` and `run_until_signal` step by step; the IPC server is a task of its own, which
unlinks and then binds. The tunnel child binds the local port or dies because
another process has it; `wait_port_ready` only looks whether somebody accepts on the port.
A signal before the handler is installed, or a crash, ends the process without its
shutdown code. A stop command reads the PID file, signals, and removes the file, in
three steps. `met` remembers which daemons have overlapped with another process or with
a stop command meant for one.

### DaemonClient, Gateway

`DaemonClient` is a connected client: calls take their turn (a tokio Mutex, an asyncio Lock,
a chain of promises: all first come, first served), write, and take the next answer the
reader hands on; the daemon answers in order, pushes events in between, and may close.
The libraries differ in three actions: `Disconnected` (Rust only notices a closed reader),
`Cancel` (Python, `asyncio.wait_for`) and `FailPoisoned` (JavaScript, a rejected promise in
the chain), and in the chunk JavaScript drops when it connects. Its reader ends when the
daemon's end is closed (`ReadEnd`), and Python's also while the daemon stays, at a line longer than the 64 KiB
that asyncio's `readline` takes by default (`ReadFails`).

`Gateway` holds `lock` across `DaemonClient::connect` and keeps what it connected in
`routers` for good; `life` counts the daemon's lives. `HangUp` is an HTTP client that goes
away: the server drops the handler at whichever await it is, and the lock with it.

### ConversationLoop, Console

`ConversationLoop` has two scripts, each with the queue its reader thread fills, and of the
daemon what they see: `ledger` of the loop's tasks (the task of turn n is n) and of
those that others broadcast. `RecordAgain` stands for the late insert of `TaskOrchestrator`,
by which a task can get a second result. `Stop` ends both connections: the reader
queues `None`, or, when the daemon had left something unread and the connection is reset,
its `recv` raises and it queues nothing (`deaf`).

`WaitTimeout` is the end of the loop's own wait, ninety-five seconds by default and less if
LMS_TIMEOUT says so: it may come at any time, and is a disturbance when the daemon is still
waiting for the reply. `AskDies`, five seconds, comes once the command has been read and what
it was answered had no `task_id`, or the daemon has gone. A daemon need not be there at the
start (`up`); a conversation that begins without one is not `calm`, nor is one that anything
in the list of `StopsForCause` has come into.

`Console`: `attempt[k]` is one run of `connectDaemon` with the client it makes, `client` is
`state.daemon` and `guard` its lock. `retry` is `reconnectTimer`; `loose` counts the timers for
`connectDaemon` that variable does not hold: the button's, and one that another failure
has overwritten. A replaced client keeps its connection, because its poll loop owns it.
`about[i]` is the task id a reply has read before its await. `Poll` takes the queue and shows it
one event at a time; that the page may handle a click between two events is the same
as a click between two polls.

## Runs

| run | instance | shows |
|---|---|---|
| `task_safety` | 2 connections, 3 uuids, 1 task, channels of 1, symmetry | uuids stay with their connection (`Ownership`), results and requests go to the right client, at most two results (`AnswerBudget`), a pushed request is in the ledger or answered (`RequestedIsTracked`), a subscribed client keeps a sender (`SubscribedStaysReachable`), a dead sender has one of two causes (`DeadSenderHasCause`) |
| `task_liveness` | 1 connection, 3 uuids, 1 task | every task is answered, a requester that stays, under its uuid, and loses nothing to a full channel, is told, and `TaskPromise` is implemented with its fairness, by which the ledger drains |
| `registry_safety` | 2 nodes, 2 sessions of a name, the second at the other node, 1 restart | an agent whose pings come in time stays listed at home, a node never takes an Offline back |
| `registry_liveness` | `Continuity`: 1 node, 2 sessions of a name with two models, 1 restart | ghosts fade; a live agent that alone has its name is what its node shows; a takeover of a live agent's name is announced if the model differs and only then, or warned of when the event cannot be sent (`TakeoverIsNoticed`) |
| `registry_shadow` | 1 node, 2 sessions | violation: the Offline echo of a former session hides the live one |
| `sees_all_agents` | each kind of observer, 2 members, one of which beats, 1 restart | violation: a live client of another daemon is dropped although nothing of it was lost |
| `lifecycle` | 2 daemons, 2 stop commands, tunnels | a stale PID file or an orphaned tunnel means a killed daemon, a daemon that has met no other is found, starts and stops end (`StartAndStopEnd`) |
| `clients` | `DaemonClient`: 3 calls (one rejected), 2 events, each library; `Gateway`: 3 requests of 2 agents, each of which may hang up, 2 restarts | which answers a call can get, events are kept, when calls end; one registration per agent and life, every request that does not hang up is answered |
| `cli_sends` | 2 runs of `agent send`, a scenario, an injected task; a listener and a worker on one node, a worker on another; daemons that refuse and stop | who waits in vain was late or was refused (`WaitsInVainWithCause`), a reply costs the listener one request at most |
| `result_flows_back` | the same | violation: a task asked of a worker that has answered it, or never hears of it, is timed out |
| `conversation_and_members` | `ConversationLoop`: 2 turns, 1 task of others, 1 restart; `Membership`: each kind of observer, 2 members, one of which beats, 1 restart | a turn ends with its own result (`TurnsOwnReply`), the loop gives up only for a cause, the bridge comes back unless its socket fails under it; staleness takes as many lost beats as the threshold allows (`ToleratesLostBeats`), who has gone is dropped for good (`GoneMembersFade`) |
| `console` | 2 clicks, 1 request, 1 click on Start Daemon, 1 restart, 3 connections | one registration and one more per click (`TwinHasCause`), a lone request stays until dealt with, the page says Connected, and is if no daemon ran before (`PageConnects`), requests are shown |

`clients` and `conversation_and_members` check two modules that have nothing to do with each
other: of the two `part` says which one moves. The other stays as it begins, and fairness is
asked of the one that moves; each module's behaviours, stuttering of the other aside, are those
of its own specification.

**Why the bounds are enough.** The properties of the task side are about one task at a
time, and two tasks meet only in a handler, which sends one after the other, and in a
channel, where another task's event takes a slot as an earlier event of the same task
does: with a capacity of one both are there with one task. Two connections are a requester and a target, which
may also be the same; the third uuid lets one of them register again while the
other is registered, before or after it subscribes. The proofs cover every
invariant for any numbers. On the registry side two sessions are what a ghost and its
successor need, two nodes what a lost or delayed message needs, and a threshold of one
tick already tells fresh, old and stale apart; `Continuity` needs an agent and the one
that takes its name. Members of `Membership` do not meet, so one of each sort is enough; its ticks
are five seconds, which gives the code's own ratio, thirty seconds to ten, and a beat that
can come after the scan it was due before. In `Traffic` three requests reach the
listener, one that it reads, one that it takes for an answer and one after that, and what
the workers pass over are tasks whose answers nobody would wait for. Two daemons are an old one and its
successor; two stop commands can act for each and on each other's file. Three calls are
one that goes wrong, one behind it, and one behind that. Two turns are one that goes
well and one that what is left of it can disturb. The console's third connection is never
used: with one click it makes two, which is what `TwinHasCause` says; of
its two clicks one holds the lock and the other waits.

`CHECK_DEADLOCK FALSE` stands in every configuration: uuids, calls, requests and daemon
processes are used up, and a system whose clients have all gone just waits.

**Fairness.** Only what the program itself drives is fair: a handler that has begun to send
goes on, the router reads, the orchestrator's interval fires and a record's time passes
(`TaskOrchestrator`); nodes read their presence, cleanup runs, clients in `Pinging` ping,
handlers finish, time passes (`Registry`, `Continuity`); a presence that has arrived is read, a beat that is due
is read or lost, cleanup runs and time passes (`Membership`); a process that runs executes its next step, while
a tunnel may never open its port, and nobody has to start, stop or crash (`DaemonLifecycle`);
a daemon answers or closes, readers and calls run (`DaemonClient`); the waiters of the
gateway's lock get it, by strong fairness because the lock is taken and released
again in between and tokio's RwLock hands it on in order (`Gateway`); the bridge goes on
and the model's requests time out (`ConversationLoop`); timers fire and poll loops run (`Console`, where clicks are
finitely many, so that weak fairness is enough for its lock). No client has to
subscribe, read, ping (outside `Pinging`), reply, stay or leave. The fairness of the bus
inside one daemon is that of its own router task; between nodes nothing has to arrive. A connect of
the gateway ends: a daemon that accepts and never answers stops every request, and that
is assumed away, as is a client library whose daemon neither answers nor closes.

## What the runs that fail show

- `registry_shadow`: cleanup publishes Offline and removes the agent, and then the node's own
  subscription puts it back, with the newest `last_seen` of its name. `get_all_identities`
  does not look at the status and returns it instead of the live agent, although it "prevents
  stale Zenoh-replayed presence entries from shadowing live agents" (traffic-controller lib.rs:156).
- `sees_all_agents`: daemons and the console are to "see ALL agents across all nodes"
  (ROADMAP.md:31), but presence is published once and a ping of a client is not published at
  all, so a daemon drops every client of another after thirty seconds. Nor does a heartbeat make an entry: a
  restarted daemon, and a `list` started later, see nobody who is there already, and `run`, which
  reads only heartbeats, never anybody.
- `result_flows_back`: the asked agent, which may be a "native Twilight agent", "receives the
  request and processes it", and its result "flows back" (docs/mcp-integration.md:33-34). The
  router looks at requests only, so the result of an agent on the bus completes no record,
  and a node subscribes to its own traffic only, so an agent of another node gets no request, although
  the registry offers it as a target.

Some passing properties say how far the code falls short:

- `OwnAnswer`: in Python a call behind a cancelled one can get the answer of another, in
  JavaScript every call behind a rejected one is rejected with it.
- `EveryCallReturns`: only the Rust client notices while it waits that the daemon has gone.
  "Raised when the daemon [...] closes the socket" (client.py:20) is true in Python of a write
  and not of a call that waits; a reader that a long line has ended leaves every call waiting.
- `WaitsInVainWithCause`: `agent send` subscribes after it has sent, and misses an answer that
  comes before; and it waits for the answer to a task the daemon has refused.
- `OneMissPerReply`: `agent listen` takes the next line for the answer to its reply, a request
  among them.
- `DeadSenderHasCause`: the two ways to leave a sender behind.
- `AnswerBudget`: a record is to stay "until replied or timed out" (ipc.rs:24), but
  `send_task_envelope` inserts it after the await of the publish: a reply that comes in between
  removes the router's record, the task is pending again and its timeout follows the reply.
- `TakeoverIsNoticed`: the event is for when a "previously seen agent name reappears"
  (ROADMAP.md:55), and is certain only for a name whose agent is still there, and then only
  if its publish, of which a failure is warned about and no more, succeeds.
- `AloneIsFound`: only a daemon that has met no other. Shutdown, after a tunnel stop that takes
  time, and `daemon stop` remove the PID file without looking whose pid it holds, and a successor
  that has written its own is not found.
- `BridgeComesBack`: the model bridge does not reconnect if the daemon goes while the model
  works, because the send of its reply is in no `try`, nor if a reset kills its reader thread.
- `StopsForCause`: the loop's `ask` takes the task id of any line, and a request of another
  agent makes it wait for the wrong task.
- `TwinHasCause`: the button's timer is not `reconnectTimer`, and the console can be registered
  twice.
- `LoneRequestStays`: a second request replaces the first in the bar, and one that arrives
  while a reply to the first is under way is cleared with it.
- `PageConnects`: once connected, the page stays at "Connected" whatever becomes of the daemon,
  and nothing connects again; there is a live client behind it for sure only if no daemon ran before the
  one that stays.

Behaviours that the models have and no property forbids: a late daemon or a `daemon stop` removes a
successor's PID file, and a daemon serves on a tunnel that is not its own (`DaemonLifecycle`);
requests of the gateway fail on a client of a daemon that has gone (`Gateway`); the model's bridge
crashes or goes deaf (`ConversationLoop`); the second request in the bar is lost, and the
page says Connected over a dead client (`Console`); cleanup removes an entry that was renewed
after the scan (`Membership`; `Registry` has its pings come in time). The hazards in `PROJECT.json`
that these are say so in a note.

## Proofs

Checked by TLAPS for every value of the constants that satisfies the modules' assumptions:
every invariant of the passing runs, and that `TaskOrchestrator` implements
`TaskPromise` but for fairness.

`TaskOrchestratorProofs`, for any connections, uuids, tasks and channel capacity:

- `Typing`: `Spec => []TypeOK`; `UuidsStayOwned`: `Spec => []Ownership`.
- `ResultsReachOnlyTheRequester`, `RequestsReachOnlyTheTarget`.
- `SubscribersStayReachable`: `Spec => []SubscribedStaysReachable`;
  `DeadSendersHaveACause`: `Spec => []DeadSenderHasCause`.
- `RequestsAreTracked`: `Spec => []RequestedIsTracked`.
- `DaemonKeepsPromise`: `Spec => Promise!PromiseSpec`.
- `AnswersAreBounded`: `Spec => []AnswerBudget`.

That a result is pushed to the requester is not inductive: it follows from the uuid in the
record, which comes from the envelope, which comes from the handler's `registered`; and
from the sender stored under that uuid. `Ownership` is the conjunction of what each
of these places has to satisfy: `owner` of a uuid is the connection whose channel or
task it is used for. `Inv == TypeOK /\ Ownership` is inductive, each conjunct preserved by a
lemma of its own (`StepSenderOwned`, ...), after lemmas that say what a step can do to
a channel, a record and a sender. The two theorems on the channels then need only what
a step appends, and so do the two on senders: under `Ownership` nobody but a connection itself
touches the sender it subscribed under.

`RequestedIsTracked` needs that the task the router has in its hands is tracked too
(`RoutedIsTracked`), since the record is written before the first push. For the refinement
each action is mapped to the action of `TaskPromise` that it implements (`Issued`,
`Dispatching` and `Ledger` are the abstract state, a channel or a sender none of it), under
`Inv`. `AnswerBudget` then is an argument about the abstract steps: `Spent(t)` adds the
results made, the open record and the records to be written, and no step raises it but the
one that issues the task, which makes it two at most.

`RegistryProofs`, for any nodes, sessions, names and threshold, and any loss between nodes:

- `RegistryTyping`: `Spec => []TypeOK`.
- `PingingAgentsStayListed`: `Spec => []PingingStaysListed`.
- `OfflineIsNeverRevoked`: `Spec => []OfflineIsFinal`.
- `TakeoversAreNoticed`: `ContinuitySpec => []TakeoverIsNoticed`, also where the event fails.

`OfflineIsFinal` needs that no Online of a session follows its Offline: on a wire
(`OfflineLast`), behind one that was read (`ToldLast`), and to come (`ToldGone`,
`WireKnown`: a session whose Offline is anywhere has ended and publishes nothing more).
`PingingStaysListed` needs that the cleanup loop's list holds no session that is there
and pings (`PingingSpared`), which follows from `Tick`'s guard (`PingingFresh`).
`ContinuityInv` adds to that invariant that an entry is only ever hidden behind one that is
there (`LaterListed`), so that the lookup of a name finds its holder, and that a register
under way remembers what it found and has told nobody yet (`HolderIsPrior`,
`ToldWhenRegistered`).

`MembershipProofs`, for any members, any kind of observer and any interval, threshold and delay:

- `LostBeatsAreTolerated`: `MembershipSpec => []ToleratesLostBeats`.

An entry is at most as old as an interval for each beat that has been lost since it was renewed, and
for the one that is awaited if one is, and the time since the last was due (`AgeIsMissed`);
that time is less than an interval, and no more than the delay while the beat is awaited
(`PhaseIsBounded`). Who has not been announced has no entry (`NewIsUnknown`).

`TrafficProofs`, for any tasks, targets and workers:

- `SendersInTimeAreTold`: `Spec => []WaitsInVainWithCause`.
- `MissesAreBounded`: `Spec => []OneMissPerReply`.

`Placed` says that every task in a queue of an agent was sent on that agent's node. For the
first theorem, a command that waits with nothing to read and in time is still owed a result (`Owed`):
its task is in the ledger, or a worker of its node has it in hand; if there is no record, the task
was refused and nobody has got it (`Unrecorded`), and nothing of it is on the way once the command
gives up (`GaveUpLast`). The second counts sets: the requests missed, and one more while the listener waits for
an answer, are no more than the requests seen (`MissesPaid`), as long as the daemon is
there; it needs that a request is in one place at a time, on its way, in a line or seen (`PushedOnce`).

`DaemonLifecycleProofs`, for any daemons and stop commands:

- `StalePidsAreOfTheKilled`: `Spec => []StalePidMeansKilled`.
- `TunnelsGoWithTheirDaemons`: `Spec => []TunnelGoesWithDaemon`.
- `LoneDaemonsAreFound`: `Spec => []AloneIsFound`.

The first two follow from where a process is when its file and its tunnel are there
(`LeftByKilled`). The third says of a daemon that has met no other, at each step from its start
on, what the files are and that no stop command can remove them: `UnmetIsAlone`, and
`AimIsTrue` for a command, which has an aim that has heard its signal by the time it
removes the file.

`ClientProofs`, for any calls, rejections and events, each library:

- `CallsGetTheirAnswers`: `Spec => []OwnAnswer`.
- `EventsAreKept`: `Spec => []EventsKept`.

As long as no call of Python was cancelled there is one thing under way between the write of
a command and the return of its call: the command, its answer on the socket, or its answer
in the reader's queue (`OneUnderWay`), and it belongs to the call whose turn it is. For
the events, what the program has and what it has yet to read are two intervals of numbers that
meet (`Got`, `Holds`).

and for any agents, requests and restarts:

- `AgentsHaveOneClient`: `GatewaySpec => []OneClientPerAgent`.

Only the holder of the lock connects, and only while its agent has no router
(`OneConnects`); a client registered in an earlier life, or whose router is cached, or whose
daemon is down, meets no other (`ClientsSettled`).

`ConversationLoopProofs`, for any number of turns, tasks of others and restarts:

- `LoopStopsForCause`: `Spec => []StopsForCause`.
- `LoopTurnsOwnReply`: `Spec => []TurnsOwnReply`.

An undisturbed conversation is known exactly: `TurnSoFar` says for each state of the loop
what the ledger and the queue hold. `TurnsOwnReply` counts the results that can still be
read of a task: two in all, one once its turn has read one, none once another
turn has taken the second for its own answer (`ResultsLeft`), after which that turn waits
in vain; and a turn's acknowledgement comes before its results (`AckFirst`).

`ConsoleProofs`, for any number of connections, clicks, requests and restarts:

- `LoneRequestIsKept`: `Spec => []LoneRequestStays`.
- `TwinsHaveCauses`: `Spec => []TwinHasCause`.

The bar holds only what was shown, and a reply that was taken has dealt with a request
that was shown (`BarInv`). For the registrations `ChancesPaid` counts: the connections that
are the daemon's or may become so, and the timers that will start another, are no more than
the first attempt and the clicks.

The assumptions on the constants (`ConstantsAssumption`, `RegistryAssumption`,
`ContinuityAssumption`, `MembershipAssumption`, `TrafficAssumption`, `LifecycleAssumption`,
`ClientAssumption`, `GatewayAssumption`, `LoopAssumption`, `ConsoleAssumption`) say that the
functions among them have the right domains, that the values that stand for nothing (and
`"closed"` and `"cancelled"`, which stand for the outcome of a call) are
not members of the sets, that capacities, the registry's threshold and the number of turns are
positive, that a beat is read or lost before the next is due, and that the worker a scenario's command starts answers its task.

Only model-checked: all liveness properties and the fairness of `TaskPromise` (liveness
under fairness and `ENABLED` are beyond the prover). The invariants the proofs rest
on are stated in the proof modules; TLC checks the properties they imply.

## Not modelled

- The controller's `get_targets` and `traffic_matrix`, which only the console's chart reads.
- The console's drawing, its enrolment and its provisioning.
- Which fields of a model identity a client gives: `Continuity` has whether they differ.
- `daemon status`, which only reads; reuse of a pid; a tunnel that crashes by itself.
- `close()` by the program in the client libraries.
- Ziti, event log, configuration, adapters and the protobuf types: no state of the fabric.

## Plan

1. `TaskOrchestrator`, `TaskPromise` and their first theorems (done).
2. `Registry` and its theorems (done).
3. `DaemonLifecycle`, `DaemonClient`, `Gateway`, `ConversationLoop`, `Console` (done).
4. Several processes on one bus: `Membership`, `Traffic`, `Continuity` (done).
5. Theorems: every invariant of the passing runs and the refinement of `TaskPromise` without its
   fairness (done).
6. Theorems about steps: that `TaskOrchestrator` takes a record out only to make a result and
   `Registry` a session through its phases in one direction, as action properties.
