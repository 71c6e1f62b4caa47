--------------------------- MODULE TaskOrchestrator ---------------------------
(***************************************************************************)
(* The task side of the Twilight daemon: the IPC connection handlers of    *)
(* crates/twilight-daemon/src/ipc.rs, and the router and the timeout task  *)
(* that crates/twilight-daemon/src/daemon.rs spawns beside them.           *)
(*                                                                         *)
(* Four kinds of tokio tasks share two concurrent maps, with no lock held  *)
(* from one access to the next:                                            *)
(*   - one handler per IPC connection (IpcServer::handle, dispatch),       *)
(*   - the router, which reads the node's own traffic from the bus,        *)
(*   - the orchestrator, which turns stale records into timeout results,   *)
(*   - the controller's cleanup loop, which evicts silent agents.          *)
(* An action is what one of them does between two points at which another  *)
(* can be seen to act: an await, or an access to a shared map.             *)
(***************************************************************************)
EXTENDS Naturals, Sequences, FiniteSets

CONSTANTS
  Conns,      \* IPC connections; each is accepted once
  Uuids,      \* uuids that Register can generate
  Tasks,      \* task ids that send_task_envelope can generate
  ChanCap,    \* capacity of a connection's push channel (64 in the code)
  None,       \* Option::None, and an absent map entry
  Unknown     \* the fresh uuid of an "unknown" identity: no agent's uuid

Phases   == {"new", "phase1", "phase2", "leaving", "closed", "aborted"}
Event    == [event : {"task_request", "task_result"}, task_id : Tasks]
Target   == [kind : {"Unicast", "Broadcast"}, agents : SUBSET Uuids]
Record   == [source_uuid : Uuids \cup {Unknown}, stale : BOOLEAN]
Envelope == [from : Conns, source : Uuids \cup {Unknown}, target : Target]

ASSUME ConstantsAssumption ==
  /\ ChanCap \in Nat \ {0}
  /\ None \notin Conns \cup Uuids \cup Tasks \cup Record \cup Envelope
  /\ Unknown \notin Uuids

VARIABLES
  open,           \* open[c]: the client has not closed its end of the socket
  phase,          \* phase[c]: where c's handler is
  registered,     \* registered[c]: the handler's local Option<String>
  sending,        \* sending[c]: the task whose publish the handler awaits
  task_senders,   \* task_senders[u]: the connection whose channel u maps to
  chan,           \* chan[c]: the events in c's push channel
  pending_tasks,  \* pending_tasks[t]: the ledger record of t
  identities,     \* uuids of this daemon's agents in the controller's registry
  bus,            \* tasks whose request envelope the router has yet to read
  routerUp,       \* subscribe_traffic has returned
  routing,        \* the task the router is pushing
  targets,        \* the agents it still has to push it to
  expired,        \* the orchestrator's list of stale tasks
  sent,           \* history: the envelope of every published task
  owner,          \* history: the connection Register gave a uuid to
  asked,          \* history: the task requests written to c's client
  told,           \* history: tasks with a result written to their issuer
  answers,        \* history: how many results were made for t
  overflowed,     \* history: tasks that lost a result to a full channel
  refused         \* history: tasks whose publish failed half-way

handlerVars == <<open, phase, registered, sending>>
busVars     == <<bus, routerUp, routing, targets, sent>>
history     == <<owner, asked, told, answers, overflowed, refused>>
vars == <<handlerVars, task_senders, chan, pending_tasks, identities, busVars,
          expired, history>>

TypeOK ==
  /\ open \in [Conns -> BOOLEAN]
  /\ phase \in [Conns -> Phases]
  /\ registered \in [Conns -> Uuids \cup {None}]
  /\ sending \in [Conns -> Tasks \cup {None}]
  /\ task_senders \in [Uuids -> Conns \cup {None}]
  /\ chan \in [Conns -> Seq(Event)]
  /\ pending_tasks \in [Tasks -> Record \cup {None}]
  /\ identities \in SUBSET Uuids
  /\ bus \in SUBSET Tasks
  /\ routerUp \in BOOLEAN
  /\ routing \in Tasks \cup {None}
  /\ targets \in SUBSET Uuids
  /\ expired \in SUBSET Tasks
  /\ sent \in [Tasks -> Envelope \cup {None}]
  /\ owner \in [Uuids -> Conns \cup {None}]
  /\ asked \in [Conns -> SUBSET Tasks]
  /\ told \in SUBSET Tasks
  /\ answers \in [Tasks -> Nat]
  /\ overflowed \in SUBSET Tasks
  /\ refused \in SUBSET Tasks

Init ==
  /\ open = [c \in Conns |-> FALSE]
  /\ phase = [c \in Conns |-> "new"]
  /\ registered = [c \in Conns |-> None]
  /\ sending = [c \in Conns |-> None]
  /\ task_senders = [u \in Uuids |-> None]
  /\ chan = [c \in Conns |-> << >>]
  /\ pending_tasks = [t \in Tasks |-> None]
  /\ identities = {}
  /\ bus = {}
  /\ routerUp = FALSE
  /\ routing = None
  /\ targets = {}
  /\ expired = {}
  /\ sent = [t \in Tasks |-> None]
  /\ owner = [u \in Uuids |-> None]
  /\ asked = [c \in Conns |-> {}]
  /\ told = {}
  /\ answers = [t \in Tasks |-> 0]
  /\ overflowed = {}
  /\ refused = {}

-----------------------------------------------------------------------------
(* Helpers shared by the tasks. *)

Request(t) == [event |-> "task_request", task_id |-> t]
Result(t)  == [event |-> "task_result", task_id |-> t]

\* The receiving half of a channel lives as long as its handler is in phase 2.
Listening(u) ==
  u \in Uuids /\ task_senders[u] # None /\ phase[task_senders[u]] = "phase2"

HasRoom(u) == Len(chan[task_senders[u]]) < ChanCap

\* push_task_event: no sender, a closed channel and a full one all drop the event.
push_task_event(u, e) ==
  IF Listening(u) /\ HasRoom(u)
  THEN [chan EXCEPT ![task_senders[u]] = Append(@, e)]
  ELSE chan

\* pending_tasks.insert(t, ...): whatever was there is overwritten.
InsertRecord(t, src) ==
  pending_tasks' = [pending_tasks EXCEPT ![t] = [source_uuid |-> src, stale |-> FALSE]]

\* Variant: the record is read, and stays.
RemoveRecord_kept(t) ==
  /\ UNCHANGED <<pending_tasks, overflowed>>
  /\ answers' = IF pending_tasks[t] = None THEN answers
                ELSE [answers EXCEPT ![t] = @ + 1]

\* reply_task and the orchestrator both remove t's record and push a result to
\* the agent it names; without a record they do neither.
RemoveRecord(t) ==
  /\ pending_tasks' = [pending_tasks EXCEPT ![t] = None]
  /\ answers' = IF pending_tasks[t] = None THEN answers
                ELSE [answers EXCEPT ![t] = @ + 1]
  /\ overflowed' = IF /\ pending_tasks[t] # None
                      /\ Listening(pending_tasks[t].source_uuid)
                      /\ ~HasRoom(pending_tasks[t].source_uuid)
                   THEN overflowed \cup {t} ELSE overflowed

ResultPushed(t) ==
  IF pending_tasks[t] = None THEN chan
  ELSE push_task_event(pending_tasks[t].source_uuid, Result(t))

\* The handler waits for the next request line.
Waiting(c) == phase[c] \in {"phase1", "phase2"} /\ sending[c] = None

\* write_resp(..).await? at the end of a request: the write fails once the
\* client has closed, the handler returns at once, and its channel goes with it.
WriteResponse(c, ph, ch) ==
  IF open[c]
  THEN phase' = [phase EXCEPT ![c] = ph] /\ chan' = ch
  ELSE phase' = [phase EXCEPT ![c] = "aborted"] /\ chan' = [ch EXCEPT ![c] = << >>]

-----------------------------------------------------------------------------
(* Clients and connection handlers. *)

Connect(c) ==
  /\ phase[c] = "new"
  /\ phase' = [phase EXCEPT ![c] = "phase1"]
  /\ open' = [open EXCEPT ![c] = TRUE]
  /\ UNCHANGED <<registered, sending, task_senders, chan, pending_tasks,
                 identities, busVars, expired, history>>

\* The client exits or closes; request lines it wrote before stay readable, so
\* the request actions below do not ask whether it is still there.
Disconnect(c) ==
  /\ open[c]
  /\ open' = [open EXCEPT ![c] = FALSE]
  /\ UNCHANGED <<phase, registered, sending, task_senders, chan, pending_tasks,
                 identities, busVars, expired, history>>

\* Variant: an agent may be given the uuid of an earlier one.
AssignUuid_reused(c, u) ==
  /\ Waiting(c)
  /\ registered' = [registered EXCEPT ![c] = u]
  /\ owner' = [owner EXCEPT ![u] = c]
  /\ identities' = identities \cup {u}

\* What the Register arm does to the handler's identity, in either phase: a
\* fresh uuid replaces the old one, and only the registry learns of it.
AssignUuid(c, u) ==
  /\ Waiting(c)
  /\ owner[u] = None
  /\ registered' = [registered EXCEPT ![c] = u]
  /\ owner' = [owner EXCEPT ![u] = c]
  /\ identities' = identities \cup {u}

\* Variant: registering anew drops the sender of the old uuid.
Register_unsubscribes(c, u) ==
  /\ AssignUuid(c, u)
  /\ WriteResponse(c, phase[c], chan)
  /\ task_senders' = IF registered[c] = None THEN task_senders
                     ELSE [task_senders EXCEPT ![registered[c]] = None]
  /\ UNCHANGED <<open, sending, pending_tasks, busVars, expired,
                 asked, told, answers, overflowed, refused>>

Register(c, u) ==
  /\ AssignUuid(c, u)
  /\ WriteResponse(c, phase[c], chan)
  /\ UNCHANGED <<open, sending, task_senders, pending_tasks, busVars, expired,
                 asked, told, answers, overflowed, refused>>

\* subscribe_tasks of a registered connection in phase 1. (It is refused, with
\* no effect, before Register and in phase 2.)
SubscribeTasks(c) ==
  /\ phase[c] = "phase1" /\ Waiting(c)
  /\ registered[c] # None
  /\ task_senders' = [task_senders EXCEPT ![registered[c]] = c]
  /\ WriteResponse(c, "phase2", chan)
  /\ UNCHANGED <<open, registered, sending, pending_tasks, identities, busVars,
                 expired, history>>

\* The first half of send_task_envelope, up to the await of publish_envelope.
\* An evicted source is replaced by an "unknown" identity with a random uuid.
\* What is published before the router has subscribed reaches nobody.
PublishEnvelope(c, t, src, known, tgt) ==
  /\ sent[t] = None
  /\ sent' = [sent EXCEPT ![t] = [from   |-> c,
                                  source |-> IF src \in known THEN src ELSE Unknown,
                                  target |-> tgt]]
  /\ bus' = IF routerUp THEN bus \cup {t} ELSE bus
  /\ sending' = [sending EXCEPT ![c] = t]
  /\ UNCHANGED <<routerUp, routing, targets>>

\* Variant: the "must register" guard is missing.
SendTask_unregistered(c, t) ==
  /\ Waiting(c)
  /\ \E u \in Uuids :
       PublishEnvelope(c, t, registered[c], identities, [kind |-> "Unicast", agents |-> {u}])
  /\ UNCHANGED <<open, phase, registered, task_senders, chan, pending_tasks,
                 identities, expired, history>>

\* ask_agent (unicast to one uuid) and publish_task (broadcast).
SendTask(c, t) ==
  /\ Waiting(c)
  /\ registered[c] # None
  /\ \E tgt \in [kind : {"Unicast"}, agents : {{u} : u \in Uuids}]
                  \cup [kind : {"Broadcast"}, agents : {{}}] :
       PublishEnvelope(c, t, registered[c], identities, tgt)
  /\ UNCHANGED <<open, phase, registered, task_senders, chan, pending_tasks,
                 identities, expired, history>>

\* Register under the name of an agent still in the registry whose model
\* differs: the handler also broadcasts an identity_continuity_event, a task
\* like any other, in the name of the new agent.
RegisterAgain(c, u, t) ==
  /\ identities # {}
  /\ AssignUuid(c, u)
  /\ PublishEnvelope(c, t, u, identities', [kind |-> "Broadcast", agents |-> {}])
  /\ UNCHANGED <<open, phase, task_senders, chan, pending_tasks, expired,
                 asked, told, answers, overflowed, refused>>

\* Variant: the record is left to the router.
FinishSend_unrecorded(c) ==
  /\ sending[c] # None
  /\ sending' = [sending EXCEPT ![c] = None]
  /\ WriteResponse(c, phase[c], chan)
  /\ UNCHANGED <<open, registered, task_senders, pending_tasks, identities, busVars,
                 expired, history>>

\* Variant: the handler records the task under whatever agent a lookup by name
\* finds.
FinishSend_misfiled(c) ==
  /\ sending[c] # None
  /\ \E u \in identities : InsertRecord(sending[c], u)
  /\ sending' = [sending EXCEPT ![c] = None]
  /\ WriteResponse(c, phase[c], chan)
  /\ UNCHANGED <<open, registered, task_senders, identities, busVars, expired,
                 history>>

\* The second half of send_task_envelope: only now does the ledger get the
\* record, and the client its task id.
FinishSend(c) ==
  /\ sending[c] # None
  /\ InsertRecord(sending[c], registered[c])
  /\ sending' = [sending EXCEPT ![c] = None]
  /\ WriteResponse(c, phase[c], chan)
  /\ UNCHANGED <<open, registered, task_senders, identities, busVars, expired,
                 history>>

\* publish_envelope puts the envelope on the traffic topic and then a JSON copy
\* on the signal topic. When the second put fails the client gets an error and
\* the ledger nothing, but the envelope is under way.
FailSend(c) ==
  /\ sending[c] # None
  /\ refused' = refused \cup {sending[c]}
  /\ sending' = [sending EXCEPT ![c] = None]
  /\ WriteResponse(c, phase[c], chan)
  /\ UNCHANGED <<open, registered, task_senders, pending_tasks, identities, busVars,
                 expired, owner, asked, told, answers, overflowed>>

\* reply_task of any registered client, for whatever task it names (list_tasks
\* shows it all the ids): nobody looks whether it was the one asked. The reply is
\* acknowledged whether or not there was a record left to remove.
ReplyTask(c, t) ==
  /\ Waiting(c)
  /\ registered[c] # None
  /\ RemoveRecord(t)
  /\ WriteResponse(c, phase[c], ResultPushed(t))
  /\ UNCHANGED <<open, registered, sending, task_senders, identities, busVars,
                 expired, owner, asked, told, refused>>

\* Phase 2 writes the next event of the channel to the client.
DeliverEvent(c) ==
  /\ phase[c] = "phase2" /\ Waiting(c)
  /\ open[c]
  /\ chan[c] # << >>
  /\ LET e == Head(chan[c]) IN
       IF e.event = "task_request"
       THEN asked' = [asked EXCEPT ![c] = @ \cup {e.task_id}] /\ UNCHANGED told
       ELSE told' = told \cup {e.task_id} /\ UNCHANGED asked
  /\ chan' = [chan EXCEPT ![c] = Tail(@)]
  /\ UNCHANGED <<handlerVars, task_senders, pending_tasks, identities, busVars,
                 expired, owner, answers, overflowed, refused>>

\* Any other write to a client that has gone: the response to a request that
\* changes nothing (ping, get_registry, list_tasks, a line that does not parse,
\* a refused request, a failed publish), or an event. The ? skips cleanup.
Abort(c) ==
  /\ Waiting(c)
  /\ ~open[c]
  /\ WriteResponse(c, phase[c], chan)
  /\ UNCHANGED <<open, registered, sending, task_senders, pending_tasks,
                 identities, busVars, expired, history>>

\* Variant: the sender goes only with an agent still in the registry.
CleanupSender_ifKnown(c) ==
  /\ Waiting(c)
  /\ ~open[c]
  /\ phase' = [phase EXCEPT ![c] = "leaving"]
  /\ chan' = [chan EXCEPT ![c] = << >>]
  /\ task_senders' = IF registered[c] \notin identities THEN task_senders
                     ELSE [task_senders EXCEPT ![registered[c]] = None]
  /\ UNCHANGED <<open, registered, sending, pending_tasks, identities, busVars,
                 expired, history>>

\* End of file: cleanup removes the sender of the uuid last registered, then
\* awaits the publication of the Offline presence.
CleanupSender(c) ==
  /\ Waiting(c)
  /\ ~open[c]
  /\ phase' = [phase EXCEPT ![c] = "leaving"]
  /\ chan' = [chan EXCEPT ![c] = << >>]
  /\ task_senders' = IF registered[c] = None THEN task_senders
                     ELSE [task_senders EXCEPT ![registered[c]] = None]
  /\ UNCHANGED <<open, registered, sending, pending_tasks, identities, busVars,
                 expired, history>>

CleanupIdentity(c) ==
  /\ phase[c] = "leaving"
  /\ phase' = [phase EXCEPT ![c] = "closed"]
  /\ identities' = identities \ {registered[c]}
  /\ UNCHANGED <<open, registered, sending, task_senders, chan, pending_tasks,
                 busVars, expired, history>>

-----------------------------------------------------------------------------
(* The router: one envelope at a time, then one push per target. *)

RouterReady ==
  /\ ~routerUp
  /\ routerUp' = TRUE
  /\ UNCHANGED <<handlerVars, task_senders, chan, pending_tasks, identities,
                 bus, routing, targets, sent, expired, history>>

Subscribers == {u \in Uuids : task_senders[u] # None}

\* Variant: every target kind is a broadcast.
Recipients_everyone(tgt) == Subscribers

Recipients(tgt) == IF tgt.kind = "Unicast" THEN tgt.agents ELSE Subscribers

\* Variant: the record is left to the handler.
RouteTask_unrecorded(t) ==
  /\ routing = None
  /\ t \in bus
  /\ bus' = bus \ {t}
  /\ LET rs == Recipients(sent[t].target) IN
       IF rs \cap Subscribers # {}
       THEN routing' = t /\ targets' = rs
       ELSE UNCHANGED <<routing, targets>>
  /\ UNCHANGED <<handlerVars, task_senders, chan, pending_tasks, identities,
                 routerUp, sent, expired, history>>

\* The record is (over)written under the envelope's source, but only if one of
\* the recipients has a sender.
RouteTask(t) ==
  /\ routing = None
  /\ t \in bus
  /\ bus' = bus \ {t}
  /\ LET rs == Recipients(sent[t].target) IN
       IF rs \cap Subscribers # {}
       THEN /\ InsertRecord(t, sent[t].source)
            /\ routing' = t
            /\ targets' = rs
       ELSE UNCHANGED <<pending_tasks, routing, targets>>
  /\ UNCHANGED <<handlerVars, task_senders, chan, identities, routerUp, sent,
                 expired, history>>

RoutePush(u) ==
  /\ routing # None
  /\ u \in targets
  /\ chan' = push_task_event(u, Request(routing))
  /\ targets' = targets \ {u}
  /\ routing' = IF targets' = {} THEN None ELSE routing
  /\ UNCHANGED <<handlerVars, task_senders, pending_tasks, identities, bus,
                 routerUp, sent, expired, history>>

-----------------------------------------------------------------------------
(* Time, the orchestrator's one-second tick, and the eviction of agents. *)

\* timeout_ms have passed since the record was created.
Elapse(t) ==
  /\ pending_tasks[t] # None
  /\ ~pending_tasks[t].stale
  /\ pending_tasks' = [pending_tasks EXCEPT ![t].stale = TRUE]
  /\ UNCHANGED <<handlerVars, task_senders, chan, identities, busVars, expired,
                 history>>

Stale == {t \in Tasks : pending_tasks[t] # None /\ pending_tasks[t].stale}

TimeoutScan ==
  /\ expired = {}
  /\ Stale # {}
  /\ expired' = Stale
  /\ UNCHANGED <<handlerVars, task_senders, chan, pending_tasks, identities,
                 busVars, history>>

\* Variant: the record is dropped without a word.
TimeoutFire_silent(t) ==
  /\ t \in expired
  /\ expired' = expired \ {t}
  /\ RemoveRecord(t)
  /\ UNCHANGED <<handlerVars, task_senders, chan, identities, busVars, owner, asked,
                 told, refused>>

\* The record is not looked at again before it is removed.
TimeoutFire(t) ==
  /\ t \in expired
  /\ expired' = expired \ {t}
  /\ RemoveRecord(t)
  /\ chan' = ResultPushed(t)
  /\ UNCHANGED <<handlerVars, task_senders, identities, busVars, owner, asked,
                 told, refused>>

\* The controller's cleanup loop: any agent that has not pinged for 30 s.
EvictStale(u) ==
  /\ u \in identities
  /\ identities' = identities \ {u}
  /\ UNCHANGED <<handlerVars, task_senders, chan, pending_tasks, busVars,
                 expired, history>>

-----------------------------------------------------------------------------

HandlerStep(c) ==
  \/ Connect(c) \/ Disconnect(c)
  \/ \E u \in Uuids : Register(c, u)
  \/ \E u \in Uuids, t \in Tasks : RegisterAgain(c, u, t)
  \/ SubscribeTasks(c)
  \/ \E t \in Tasks : SendTask(c, t)
  \/ FinishSend(c) \/ FailSend(c)
  \/ \E t \in Tasks : ReplyTask(c, t)
  \/ DeliverEvent(c)
  \/ Abort(c)
  \/ CleanupSender(c) \/ CleanupIdentity(c)

RouterStep ==
  \/ RouterReady
  \/ \E t \in Tasks : RouteTask(t)
  \/ \E u \in Uuids : RoutePush(u)

OrchestratorStep ==
  \/ \E t \in Tasks : Elapse(t)
  \/ TimeoutScan
  \/ \E t \in Tasks : TimeoutFire(t)

ControllerStep == \E u \in Uuids : EvictStale(u)

Next ==
  \/ \E c \in Conns : HandlerStep(c)
  \/ RouterStep
  \/ OrchestratorStep
  \/ ControllerStep

\* Every spawned task is polled again and again, time passes, and a client that
\* is there reads its socket. Clients owe nothing else: they need not ask,
\* answer, subscribe or leave, and agents need not be evicted.
Fairness ==
  /\ \A c \in Conns : WF_vars(FinishSend(c) \/ FailSend(c)) /\ WF_vars(DeliverEvent(c))
  /\ WF_vars(RouterStep)
  /\ \A t \in Tasks : WF_vars(Elapse(t)) /\ WF_vars(TimeoutFire(t))
  /\ WF_vars(TimeoutScan)

Spec == Init /\ [][Next]_vars
FairSpec == Spec /\ Fairness

-----------------------------------------------------------------------------
(* Safety. *)

\* A result travels only on the channel of the connection that asked: whatever
\* the order of re-registrations, evictions, overwritten records and late
\* timeouts, the uuid in a ledger record never leads to another client.
ResultOnlyToRequester ==
  \A c \in Conns : \A i \in 1 .. Len(chan[c]) :
    chan[c][i].event = "task_result" => sent[chan[c][i].task_id].from = c

\* A task asked of one agent is pushed only to the connection that registered
\* under that agent's uuid, however often connections register and leave while
\* the envelope is under way.
RequestOnlyToTarget ==
  \A c \in Conns : \A i \in 1 .. Len(chan[c]) :
    LET e == chan[c][i]
        tgt == sent[e.task_id].target IN
    (e.event = "task_request" /\ tgt.kind = "Unicast") =>
      \E u \in tgt.agents : owner[u] = c

\* How often a record of t may still be written: once by the handler that
\* awaits its publish, once by the router that has yet to read its envelope.
Credits(t) ==
  (IF \E c \in Conns : sending[c] = t THEN 1 ELSE 0) + (IF t \in bus THEN 1 ELSE 0)

Open(t) == IF pending_tasks[t] = None THEN 0 ELSE 1

\* A task never yields more than two results: answers made, the record that is
\* open and the records still to be written add up to two at most. (One result
\* is not guaranteed: when the reply overtakes the insert of send_task_envelope,
\* the task replied to is in the ledger again, and a timeout follows.)
AnswerBudget == \A t \in Tasks : answers[t] + Open(t) + Credits(t) <= 2

\* A connection in phase 2 stays reachable under the uuid it subscribed with,
\* through its own re-registrations and the cleanup of every other connection:
\* so its channel's senders are never all gone, and the loop's "None => break"
\* is never taken while the client is there.
SubscribedStaysReachable ==
  \A c \in Conns : phase[c] = "phase2" => \E u \in Uuids : task_senders[u] = c

\* The only ways to leave a dead sender behind: a handler that returned by the ?
\* of a failed write, and one that registered again after it subscribed.
DeadSenderHasCause ==
  \A u \in Uuids : LET c == task_senders[u] IN
    (c # None /\ phase[c] # "phase2") =>
      phase[c] = "aborted" \/ registered[c] # u

\* A request that has been pushed to an agent is in the ledger until a result is
\* made for it: whatever the publishing handler is doing, the agent's reply
\* finds a record to answer.
RequestedIsTracked ==
  \A c \in Conns, t \in Tasks :
    (t \in asked[c] \/ \E i \in 1 .. Len(chan[c]) : chan[c][i] = Request(t)) =>
      pending_tasks[t] # None \/ answers[t] > 0

\* Why results and requests find the right client: a uuid belongs for ever to
\* the connection Register gave it to, and every uuid stored anywhere (a sender,
\* a handler's registered, an envelope's source, a ledger record, the router's
\* targets) is used on that connection's behalf only.
SenderOwned == \A u \in Uuids : task_senders[u] # None => owner[u] = task_senders[u]

RegisteredOwned == \A c \in Conns : registered[c] # None => owner[registered[c]] = c

SendingRegistered == \A c \in Conns : sending[c] # None => registered[c] # None

SendingOwned ==
  \A c \in Conns : sending[c] # None =>
    /\ sent[sending[c]] # None
    /\ sent[sending[c]].from = c

SourceOwned ==
  \A t \in Tasks : (sent[t] # None /\ sent[t].source # Unknown) =>
    owner[sent[t].source] = sent[t].from

RecordOwned ==
  \A t \in Tasks : pending_tasks[t] # None =>
    /\ sent[t] # None
    /\ pending_tasks[t].source_uuid # Unknown =>
         owner[pending_tasks[t].source_uuid] = sent[t].from

BusSent == \A t \in bus : sent[t] # None

RouterOwned ==
  routing # None =>
    /\ sent[routing] # None
    /\ sent[routing].target.kind = "Unicast" => targets \subseteq sent[routing].target.agents

EventsSent ==
  \A c \in Conns : \A i \in 1 .. Len(chan[c]) : sent[chan[c][i].task_id] # None

Ownership ==
  /\ SenderOwned /\ RegisteredOwned /\ SendingRegistered /\ SendingOwned
  /\ SourceOwned /\ RecordOwned /\ BusSent /\ RouterOwned /\ EventsSent

-----------------------------------------------------------------------------
(* Liveness. *)

\* Every task that was published is answered, by a reply or a timeout, unless
\* the client was told that it could not be sent: no order of publish, routing,
\* overwriting and scanning forgets it.
EveryTaskAnswered ==
  \A t \in Tasks : sent[t] # None ~> answers[t] > 0 \/ t \in refused

\* t was sent without an error by an agent in the registry, and its issuer is
\* there, listens under the same uuid and has lost no result to a full channel.
Attentive(t) ==
  LET e == sent[t] IN
  /\ e.source # Unknown
  /\ task_senders[e.source] = e.from
  /\ phase[e.from] = "phase2"
  /\ open[e.from]
  /\ t \notin overflowed
  /\ t \notin refused

\* A requester that stays attentive is told a result of every task it sends.
AttentiveRequesterTold ==
  \A t \in Tasks :
    [](sent[t] # None => Attentive(t)) => (sent[t] # None ~> t \in told)

-----------------------------------------------------------------------------
(* The abstract specification. *)

Promise == INSTANCE TaskPromise WITH
  issued      <- {t \in Tasks : sent[t] # None},
  dispatching <- {t \in Tasks : \E c \in Conns : sending[c] = t},
  routable    <- bus,
  ledger      <- {t \in Tasks : pending_tasks[t] # None}

\* The daemon implements TaskPromise: every step of a handler, the router or the
\* orchestrator is one of its steps or changes nothing it can see, and tasks
\* that are dispatched or recorded are not left so for ever.
ImplementsPromise == Promise!FairPromiseSpec
=============================================================================
