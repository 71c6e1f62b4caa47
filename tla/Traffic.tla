------------------------------- MODULE Traffic -------------------------------
(***************************************************************************)
(* Tasks and who answers them: the commands of the CLI that send one       *)
(* (crates/twilight-cli/src/main.rs), the agents they may reach, and the    *)
(* two keys of the bus on which they meet (crates/twilight-bus).            *)
(*                                                                         *)
(* `agent send` goes through the socket of its daemon. The smoke test and  *)
(* the observer of a2a ("scenario") have the bus to themselves, and so do  *)
(* inject and the dogs, which wait for no result ("inject"). Of the agents *)
(* one is `agent listen --auto-reply`, a client of the daemon of its node; *)
(* the others are the workers of the scenarios, which read the bus.        *)
(*                                                                         *)
(* Neither `listen` nor `send` has a reader task: they read the socket     *)
(* line by line, and the next line after a command is taken for its        *)
(* answer. Of the daemon there is what they see of it, that it refuses a   *)
(* task and that it stops included: TaskOrchestrator is the daemon itself. *)
(* All of the traffic of a node is on one key, which is all that is        *)
(* subscribed to; a worker answers one task after another.                 *)
(***************************************************************************)
EXTENDS Naturals, Sequences, FiniteSets, Functions

CONSTANTS
  Tasks,    \* tasks, each the one of a run of its command
  Workers,  \* agents of the scenarios, on the bus
  Listener, \* the agent on a socket
  Home,     \* the node of each task's command, each worker and the listener
  Way,      \* Way[t]: "send", "scenario" or "inject"
  Target,   \* Target[t]: the agent t is for
  Everyone, \* the target of a broadcast
  Answers   \* Answers[w]: the tasks w answers of those it hears

Agents == Workers \cup {Listener}

ASSUME TrafficAssumption ==
  /\ Listener \notin Workers
  /\ Everyone \notin Agents
  /\ Tasks \cap Agents = {}
  /\ DOMAIN Home = Tasks \cup Agents
  /\ Way \in [Tasks -> {"send", "scenario", "inject"}]
  /\ Target \in [Tasks -> Agents \cup {Everyone}]
  /\ Answers \in [Workers -> SUBSET Tasks]
  /\ \A t \in Tasks : Way[t] = "scenario" => \E w \in Workers : Home[w] = Home[t] /\ t \in Answers[w]

VARIABLES
  asker,     \* asker[t]: where the command that sends t is; a scenario is "subscribed" first
  inbox,     \* inbox[t]: what it has to read: "reply", "timeout", or "answer" on the bus
  routing,   \* tasks the listener's daemon has yet to read off the bus
  in_hand,   \* in_hand[w]: what worker w has heard and not answered
  task,      \* task[t]: none, pending, replied or timed_out in the ledger of t's daemon
  lines,     \* lines for the listener to read
  listener,  \* what it waits for: the next event, or the answer to its reply
  requested, \* commands of the listener the daemon has yet to answer
  stopped,   \* the nodes whose daemon has stopped
  pushed,    \* history: the tasks routed to the listener
  seen,      \* history: the task requests the listener took as such
  refused,   \* history: the tasks whose send was answered with an error
  late       \* history: the tasks that were over before their sender subscribed

asks    == <<asker, inbox, refused, late>>
bus     == <<routing, in_hand>>
ledger  == <<task, pushed, stopped>>
listens == <<lines, listener, requested, seen>>
vars    == <<asks, bus, ledger, listens>>

Request(t) == [kind |-> "task_request", task |-> t]
Reply(t)   == [kind |-> "answer", task |-> t]

Init ==
  /\ asker = [t \in Tasks |-> "new"]
  /\ inbox = [t \in Tasks |-> << >>]
  /\ routing = {}
  /\ in_hand = [w \in Workers |-> << >>]
  /\ task = [t \in Tasks |-> "none"]
  /\ lines = << >>
  /\ listener = "event"
  /\ requested = << >>
  /\ stopped = {}
  /\ pushed = {}
  /\ seen = {}
  /\ refused = {}
  /\ late = {}

-----------------------------------------------------------------------------
(* The bus.                                                                 *)

\* The traffic of a node is all that is subscribed to there.
Near(t) == {w \in Workers : Home[w] = Home[t]}

\* Whoever hears a request answers it, for it or not; an echo its own alone.
WillAnswer(t) == {w \in Near(t) : t \in Answers[w]}

PublishRequest(t) ==
  /\ routing' = IF Home[t] = Home[Listener] /\ Home[t] \notin stopped
                THEN routing \cup {t} ELSE routing
  /\ in_hand' = [w \in Workers |-> IF w \in WillAnswer(t) THEN Append(in_hand[w], t) ELSE in_hand[w]]

\* A result on the key of node h: only a scenario listens for one.
Hears(t, h) == Way[t] = "scenario" /\ asker[t] = "subscribed" /\ Home[t] = h

\* The router: a task request for a subscriber gets a record and is pushed.
Route(t) ==
  /\ t \in routing
  /\ routing' = routing \ {t}
  /\ IF Target[t] \in {Listener, Everyone}
     THEN /\ task' = [task EXCEPT ![t] = "pending"]
          /\ lines' = Append(lines, Request(t))
          /\ pushed' = pushed \cup {t}
     ELSE UNCHANGED <<task, lines, pushed>>
  /\ UNCHANGED <<asks, in_hand, stopped, listener, requested, seen>>

\* A worker's answer goes to the key of its node. The router there passes over
\* it: it handles requests, and the ledger does not change.
Answer(w) ==
  /\ in_hand[w] # << >>
  /\ LET t == Head(in_hand[w]) IN
       inbox' = IF Hears(t, Home[w]) THEN [inbox EXCEPT ![t] = Append(@, "answer")] ELSE inbox
  /\ in_hand' = [in_hand EXCEPT ![w] = Tail(@)]
  /\ UNCHANGED <<asker, refused, late, routing, ledger, listens>>

-----------------------------------------------------------------------------
(* The commands.                                                            *)

\* agent send: ask_agent or publish_task is written and its answer read. If that is
\* ok, the daemon has published the task and recorded it by then. If the publish
\* has failed it is an error, whether or not the task is on the bus, and there is
\* no record; the command looks for the id of the task alone and goes on.
Send(t) ==
  /\ Way[t] = "send" /\ asker[t] = "new" /\ Home[t] \notin stopped
  /\ asker' = [asker EXCEPT ![t] = "sent"]
  /\ \/ /\ PublishRequest(t)
        /\ task' = [task EXCEPT ![t] = "pending"]
        /\ UNCHANGED refused
     \/ /\ PublishRequest(t) \/ UNCHANGED bus
        /\ refused' = refused \cup {t}
        /\ UNCHANGED task
  /\ UNCHANGED <<inbox, late, pushed, stopped, listens>>

\* Only then does it subscribe.
Subscribe(t) ==
  /\ Way[t] = "send" /\ asker[t] = "sent" /\ Home[t] \notin stopped
  /\ asker' = [asker EXCEPT ![t] = "subscribed"]
  /\ late' = IF task[t] \in {"replied", "timed_out"} THEN late \cup {t} ELSE late
  /\ UNCHANGED <<inbox, refused, bus, ledger, listens>>

\* The smoke test and the observer subscribe before they publish.
RunScenario(t) ==
  /\ Way[t] = "scenario" /\ asker[t] = "new"
  /\ asker' = [asker EXCEPT ![t] = "subscribed"]
  /\ PublishRequest(t)
  /\ UNCHANGED <<inbox, refused, late, ledger, listens>>

\* inject and the dogs publish and look no further.
Inject(t) ==
  /\ Way[t] = "inject" /\ asker[t] = "new"
  /\ asker' = [asker EXCEPT ![t] = "done"]
  /\ PublishRequest(t)
  /\ UNCHANGED <<inbox, refused, late, ledger, listens>>

\* The first result of the task, whoever it is from, is the reply.
Told(t) ==
  /\ asker[t] = "subscribed" /\ inbox[t] # << >>
  /\ asker' = [asker EXCEPT ![t] = "told"]
  /\ inbox' = [inbox EXCEPT ![t] = Tail(@)]
  /\ UNCHANGED <<refused, late, bus, ledger, listens>>

\* Sixty seconds are twice what the daemon gives a task, and far more than a task
\* that is on the bus takes to be routed. A scenario waits at least twice as long as
\* its worker takes (five seconds for an echo, ten for an answer of two, with fewer
\* than five tasks at a time).
Overdue(t) ==
  IF Way[t] = "send"
  THEN task[t] # "pending" /\ t \notin routing /\ Home[t] \notin stopped
  ELSE \A w \in Workers : t \notin Range(in_hand[w])

GiveUp(t) ==
  /\ asker[t] = "subscribed" /\ inbox[t] = << >> /\ Overdue(t)
  /\ asker' = [asker EXCEPT ![t] = "gave_up"]
  /\ UNCHANGED <<inbox, refused, late, bus, ledger, listens>>

\* The other end of agent send: the socket is closed, or subscribing fails by that.
ConnectionClosed(t) ==
  /\ Way[t] = "send" /\ Home[t] \in stopped
  /\ asker[t] \in {"sent", "subscribed"} /\ inbox[t] = << >>
  /\ asker' = [asker EXCEPT ![t] = "closed"]
  /\ UNCHANGED <<inbox, refused, late, bus, ledger, listens>>

-----------------------------------------------------------------------------
(* The daemon, as its clients see it.                                       *)

\* Variant: only a reply is pushed.
Pushed_replyOnly(t, r) == Way[t] = "send" /\ asker[t] = "subscribed" /\ r = "reply"

\* A result goes to the sender if that is subscribed, and nowhere if not; the
\* sender of a task from the bus is nobody the daemon knows.
Pushed(t, r) == Way[t] = "send" /\ asker[t] = "subscribed"

PushIf(b, t, r) == inbox' = IF b THEN [inbox EXCEPT ![t] = Append(@, r)] ELSE inbox

\* reply_task: a record makes a result for the sender, and record or not the
\* result is published and the command is ok.
TakeReply ==
  /\ requested # << >>
  /\ LET t == Head(requested) IN
       /\ task' = [task EXCEPT ![t] = IF @ = "pending" THEN "replied" ELSE @]
       /\ \/ task[t] = "pending" /\ Way[t] = "send" /\ PushIf(Pushed(t, "reply"), t, "reply")
          \/ ~(task[t] = "pending" /\ Way[t] = "send") /\ PushIf(Hears(t, Home[Listener]), t, "answer")
       /\ lines' = Append(lines, Reply(t))
  /\ requested' = Tail(requested)
  /\ UNCHANGED <<asker, refused, late, bus, pushed, stopped, listener, seen>>

TimeOut(t) ==
  /\ task[t] = "pending" /\ t \notin routing
  /\ task' = [task EXCEPT ![t] = "timed_out"]
  /\ PushIf(Pushed(t, "timeout"), t, "timeout")
  /\ UNCHANGED <<asker, refused, late, bus, pushed, stopped, listens>>

\* The daemon of a node stops, with its ledger, what it has yet to read and any
\* part of what it has yet to write. None of the commands connects again.
Stop(h) ==
  /\ h \notin stopped
  /\ stopped' = stopped \cup {h}
  /\ task' = [t \in Tasks |-> IF Home[t] = h /\ task[t] = "pending" THEN "none" ELSE task[t]]
  /\ \E lost \in SUBSET {t \in Tasks : Home[t] = h /\ Way[t] = "send"} :
       inbox' = [t \in Tasks |-> IF t \in lost THEN << >> ELSE inbox[t]]
  /\ IF h = Home[Listener]
     THEN /\ routing' = {} /\ requested' = << >>
          /\ \E n \in 0 .. Len(lines) : lines' = SubSeq(lines, 1, n)
     ELSE UNCHANGED <<routing, requested, lines>>
  /\ UNCHANGED <<asker, refused, late, in_hand, pushed, listener, seen>>

-----------------------------------------------------------------------------
(* agent listen --auto-reply.                                               *)

\* A task request: the reply is written, and its answer is what comes next. If the
\* daemon is gone, that fails and is the end.
ReadRequest(t) ==
  /\ listener = "event"
  /\ lines # << >> /\ Head(lines) = Request(t)
  /\ lines' = Tail(lines)
  /\ seen' = seen \cup {t}
  /\ IF Home[Listener] \in stopped
     THEN listener' = "closed" /\ UNCHANGED requested
     ELSE listener' = "answer" /\ requested' = Append(requested, t)
  /\ UNCHANGED <<asks, bus, ledger>>

\* Variant: lines are passed over until the answer comes.
ReadAnswer_skipping ==
  /\ listener = "answer" /\ lines # << >>
  /\ lines' = Tail(lines)
  /\ listener' = IF Head(lines).kind = "answer" THEN "event" ELSE "answer"
  /\ UNCHANGED <<asks, bus, ledger, requested, seen>>

\* ipc_read: whatever the line is.
ReadAnswer ==
  /\ listener = "answer" /\ lines # << >>
  /\ lines' = Tail(lines)
  /\ listener' = "event"
  /\ UNCHANGED <<asks, bus, ledger, requested, seen>>

\* The loop passes over what is no event.
SkipLine ==
  /\ listener = "event"
  /\ lines # << >> /\ Head(lines).kind = "answer"
  /\ lines' = Tail(lines)
  /\ UNCHANGED <<asks, bus, ledger, listener, requested, seen>>

\* End of file ends the loop, and the wait for an answer with an error.
ListenerCloses ==
  /\ Home[Listener] \in stopped /\ lines = << >> /\ listener # "closed"
  /\ listener' = "closed"
  /\ UNCHANGED <<asks, bus, ledger, lines, requested, seen>>

-----------------------------------------------------------------------------

CommandStep(t) ==
  \/ Send(t) \/ Subscribe(t) \/ RunScenario(t) \/ Inject(t)
  \/ Told(t) \/ GiveUp(t) \/ ConnectionClosed(t)

Next ==
  \/ \E t \in Tasks : CommandStep(t) \/ Route(t) \/ TimeOut(t) \/ ReadRequest(t)
  \/ \E w \in Workers : Answer(w)
  \/ \E h \in {Home[a] : a \in Tasks \cup {Listener}} : Stop(h)
  \/ TakeReply \/ ReadAnswer \/ SkipLine \/ ListenerCloses

Spec == Init /\ [][Next]_vars

-----------------------------------------------------------------------------

Waiting(t) == \E i \in 1 .. Len(lines) : lines[i] = Request(t)

\* The listener may take a request for the answer to the reply it has just sent,
\* and then it is lost; but as long as the daemon is there each reply costs it one
\* request at most. (main.rs: auto-reply is to "Immediately send a canned success
\* reply to every received task".)
OneMissPerReply ==
  Home[Listener] \notin stopped =>
    Cardinality({t \in pushed \ seen : ~Waiting(t)}) <= Cardinality(seen)

\* Who waits out its time has missed the result before it subscribed, or the daemon
\* had refused its task and no agent of a socket ever got it. Only `agent send` can:
\* a scenario, and whoever else is subscribed in time, hears of a reply, an answer,
\* the timeout or the end of the connection.
WaitsInVainWithCause ==
  \A t \in Tasks : asker[t] = "gave_up" => t \in late \cup (refused \ pushed)

\* docs/mcp-integration.md of a task for another agent: "The target agent (which also
\* has a Bridge or is a native Twilight agent) receives the request and processes it.
\* [...] The result flows back as a TaskResult". When a task of the socket is timed
\* out, its target, if it is one that answers it, is still at it.
ResultFlowsBack ==
  [][\A t \in Tasks :
       LET a == Target[t] IN
       (Way[t] = "send" /\ a \in Workers /\ task[t] = "pending" /\ task'[t] = "timed_out")
         => (t \in Answers[a] => t \in Range(in_hand[a]))]_vars
=============================================================================
