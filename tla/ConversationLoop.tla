--------------------------- MODULE ConversationLoop ---------------------------
(***************************************************************************)
(* Two scripts that talk over the fabric: the bridge of a language model    *)
(* (scripts/lmstudio-bridge.py), which answers every task request and        *)
(* reconnects when the daemon goes, and the loop (scripts/multi-turn-loop.py)*)
(* that holds a conversation with it, one task per turn.                    *)
(*                                                                         *)
(* Each has a reader thread that queues the lines of its socket. Answers to  *)
(* pings are left out: both scripts pass over them. Of the daemon there is   *)
(* what the two see; that a task may get a second result is                  *)
(* TaskOrchestrator's AnswerBudget.                                          *)
(***************************************************************************)
EXTENDS Naturals, Sequences

CONSTANTS
  Turns,        \* LOOP_TURNS
  MaxNoise,     \* bound on the tasks other agents broadcast
  MaxRestarts,  \* bound on the daemon's restarts
  None

ASSUME LoopAssumption ==
  /\ Turns \in Nat \ {0}
  /\ MaxNoise \in Nat
  /\ MaxRestarts \in Nat
  /\ None \notin Nat

VARIABLES
  up,          \* the daemon runs
  life,        \* its present life
  ledger,      \* ledger[t]: what the daemon knows of t: none, pending, over
  again,       \* tasks whose record was written a second time
  noise,       \* how many tasks others have broadcast
  bridge,      \* the bridge's main thread: down, registering, serving, thinking, crashed
  bridgeLife,  \* the life of the daemon it has connected to
  bridgeIn,    \* its queue of incoming lines
  deaf,        \* its reader thread has died of a reset connection
  working,     \* the task it has given to the model
  replies,     \* its reply_task commands the daemon has yet to read
  driver,      \* the loop: new, ready, asking, waiting, composing, or Over
  driverLife,  \* the life of the daemon it has connected to
  driverIn,    \* its queue
  asking,      \* its ask_agent command is yet to be read
  turn,        \* the turn it is at
  want,        \* the task_id that ask has returned
  reply,       \* history: the task whose result has ended a turn
  calm         \* history: nothing has disturbed the conversation; the daemon was there

daemonVars == <<up, life, ledger, again, noise>>
bridgeVars == <<bridge, bridgeLife, bridgeIn, deaf, working, replies>>
driverVars == <<driver, driverLife, driverIn, asking, turn, want, reply>>
vars == <<daemonVars, bridgeVars, driverVars, calm>>

\* The task of turn n is n; those of others come after.
Tasks == 1 .. Turns + MaxNoise
Own   == 1 .. Turns

Ack(t)        == [kind |-> "ack", task |-> t, ok |-> TRUE]
Request(t)    == [kind |-> "task_request", task |-> t, ok |-> TRUE]
Result(t, ok) == [kind |-> "task_result", task |-> t, ok |-> ok]
Eof           == [kind |-> "eof", task |-> 0, ok |-> FALSE]

Over  == {"stopped", "failed", "done"}

Init ==
  /\ up \in BOOLEAN /\ life = 0
  /\ ledger = [t \in Tasks |-> "none"] /\ again = {} /\ noise = 0
  /\ bridge = "down" /\ bridgeLife = 0 /\ bridgeIn = << >>
  /\ deaf = FALSE /\ working = None /\ replies = << >>
  /\ driver = "new" /\ driverLife = 0 /\ driverIn = << >>
  /\ asking = FALSE /\ turn = 1 /\ want = None
  /\ reply = [n \in Own |-> None]
  /\ calm = up

\* The daemon has a connection of the one or the other that is subscribed; the bridge
\* is in its registry.
Serves       == bridge \in {"serving", "thinking"} /\ bridgeLife = life /\ up
BridgeListed == bridge \in {"registering", "serving", "thinking"} /\ bridgeLife = life /\ up
Converses    == driver \notin Over \cup {"new"} /\ driverLife = life /\ up
ToBridge(l)  == bridgeIn' = IF Serves THEN Append(bridgeIn, l) ELSE bridgeIn
ToDriver(l)  == driverIn' = IF Converses THEN Append(driverIn, l) ELSE driverIn

-----------------------------------------------------------------------------
(* The daemon.                                                              *)

\* ask_agent: the task goes to the bridge, and its id back.
TakeAsk ==
  /\ up /\ asking
  /\ asking' = FALSE
  /\ ledger' = [ledger EXCEPT ![turn] = "pending"]
  /\ ToBridge(Request(turn))
  /\ ToDriver(Ack(turn))
  /\ UNCHANGED <<up, life, again, noise, bridge, bridgeLife, deaf, working, replies, driver,
                 driverLife, turn, want, reply, calm>>

\* Publishing fails half-way: the answer is an error, which has no task_id, and
\* the task is under way all the same, or it is not.
RefuseAsk ==
  /\ up /\ asking
  /\ asking' = FALSE
  /\ calm' = FALSE
  /\ \/ ledger' = [ledger EXCEPT ![turn] = "pending"] /\ ToBridge(Request(turn))
     \/ UNCHANGED <<ledger, bridgeIn>>
  /\ UNCHANGED <<up, life, again, noise, bridge, bridgeLife, deaf, working, replies, driver,
                 driverLife, driverIn, turn, want, reply>>

\* A result of t, which goes to the loop if the task is its own.
Resolve(t, ok) ==
  /\ ledger' = [ledger EXCEPT ![t] = "over"]
  /\ IF t \in Own THEN ToDriver(Result(t, ok)) ELSE UNCHANGED driverIn

\* reply_task: without a record there is nothing to tell anybody.
TakeReply ==
  /\ up /\ replies # << >>
  /\ LET r == Head(replies) IN
       /\ IF ledger[r.task] = "pending" THEN Resolve(r.task, r.ok)
                                        ELSE UNCHANGED <<ledger, driverIn>>
       /\ calm' = (calm /\ r.ok)
  /\ replies' = Tail(replies)
  /\ UNCHANGED <<up, life, again, noise, bridge, bridgeLife, bridgeIn, deaf, working, driver,
                 driverLife, asking, turn, want, reply>>

\* Thirty seconds pass.
TimeOut(t) ==
  /\ up /\ ledger[t] = "pending"
  /\ Resolve(t, FALSE)
  /\ calm' = FALSE
  /\ UNCHANGED <<up, life, again, noise, bridgeVars, driver, driverLife, asking, turn,
                 want, reply>>

\* The handler that published t records it after it was answered.
RecordAgain(t) ==
  /\ up /\ ledger[t] = "over" /\ t \notin again
  /\ ledger' = [ledger EXCEPT ![t] = "pending"]
  /\ again' = again \cup {t}
  /\ calm' = FALSE
  /\ UNCHANGED <<up, life, noise, bridgeVars, driverVars>>

\* Another agent broadcasts a task; so does the daemon when an agent comes back
\* with another model.
Broadcast ==
  /\ up /\ noise < MaxNoise
  /\ noise' = noise + 1
  /\ LET t == Turns + noise + 1 IN
       /\ ledger' = [ledger EXCEPT ![t] = "pending"]
       /\ ToBridge(Request(t))
       /\ ToDriver(Request(t))
  /\ calm' = FALSE
  /\ UNCHANGED <<up, life, again, bridge, bridgeLife, deaf, working, replies, driver, driverLife,
                 asking, turn, want, reply>>

\* Variant: the readers break at end of file and queue nothing.
Stop_silent ==
  /\ up
  /\ up' = FALSE
  /\ ledger' = [t \in Tasks |-> IF ledger[t] = "pending" THEN "over" ELSE ledger[t]]
  /\ replies' = << >>
  /\ asking' = FALSE
  /\ calm' = FALSE
  /\ UNCHANGED <<life, again, noise, bridge, bridgeLife, bridgeIn, deaf, working, driver,
                 driverLife, driverIn, turn, want, reply>>

\* The daemon stops, and the readers queue None behind what they have; or, a command
\* or a ping unread, the connection is reset and the recv of the thread raises.
Stop ==
  /\ up
  /\ up' = FALSE
  /\ ledger' = [t \in Tasks |-> IF ledger[t] = "pending" THEN "over" ELSE ledger[t]]
  /\ again' = Tasks
  /\ \/ ToBridge(Eof) /\ UNCHANGED deaf
     \/ deaf' = (deaf \/ Serves) /\ UNCHANGED bridgeIn
  /\ ToDriver(Eof) \/ UNCHANGED driverIn
  /\ replies' = << >>
  /\ asking' = FALSE
  /\ calm' = FALSE
  /\ UNCHANGED <<life, noise, bridge, bridgeLife, working, driver, driverLife, turn, want,
                 reply>>

Start ==
  /\ ~up /\ life < MaxRestarts
  /\ up' = TRUE
  /\ life' = life + 1
  /\ UNCHANGED <<ledger, again, noise, bridgeVars, driverVars, calm>>

-----------------------------------------------------------------------------
(* lmstudio-bridge.py.                                                      *)

\* _run_once: it connects and registers.
BridgeConnect ==
  /\ bridge = "down" /\ up
  /\ bridge' = "registering"
  /\ bridgeLife' = life
  /\ bridgeIn' = << >>
  /\ UNCHANGED <<daemonVars, deaf, working, replies, driverVars, calm>>

\* subscribe_tasks is acknowledged...
BridgeSubscribe ==
  /\ bridge = "registering" /\ up /\ bridgeLife = life
  /\ bridge' = "serving"
  /\ UNCHANGED <<daemonVars, deaf, bridgeLife, bridgeIn, working, replies, driverVars, calm>>

\* ...or the daemon has gone: an empty answer is a failed registration, to be
\* tried again, but a write that fails is an exception nobody catches.
BridgeCutOff ==
  /\ bridge = "registering" /\ (~up \/ bridgeLife # life)
  /\ bridge' \in {"down", "crashed"}
  /\ UNCHANGED <<daemonVars, deaf, bridgeLife, bridgeIn, working, replies, driverVars, calm>>

\* The main thread takes the next line of the queue.
BridgeTake ==
  /\ bridge = "serving" /\ bridgeIn # << >>
  /\ bridgeIn' = Tail(bridgeIn)
  /\ IF Head(bridgeIn) = Eof
     THEN bridge' = "down" /\ UNCHANGED working
     ELSE bridge' = "thinking" /\ working' = Head(bridgeIn).task
  /\ UNCHANGED <<daemonVars, deaf, bridgeLife, replies, driverVars, calm>>

\* The model has answered, or failed to, and the bridge replies.
BridgeReply ==
  /\ bridge = "thinking" /\ Serves
  /\ \E ok \in BOOLEAN : replies' = Append(replies, [task |-> working, ok |-> ok])
  /\ bridge' = "serving"
  /\ working' = None
  /\ UNCHANGED <<daemonVars, deaf, bridgeLife, bridgeIn, driverVars, calm>>

\* The daemon went while the model was at work: the send raises, and nobody
\* catches it.
BridgeBroken ==
  /\ bridge = "thinking" /\ ~Serves
  /\ bridge' = "crashed"
  /\ working' = None
  /\ UNCHANGED <<daemonVars, deaf, bridgeLife, bridgeIn, replies, driverVars, calm>>

-----------------------------------------------------------------------------
(* multi-turn-loop.py.                                                      *)

\* IpcAgent and the look for the target, which has to be there.
DriverStart ==
  /\ driver = "new"
  /\ IF BridgeListed THEN driver' = "ready" /\ driverLife' = life
                     ELSE driver' = "failed" /\ UNCHANGED driverLife
  /\ UNCHANGED <<daemonVars, bridgeVars, driverIn, asking, turn, want, reply, calm>>

\* ask: the command is written, or the write raises.
Ask ==
  /\ driver = "ready"
  /\ IF Converses THEN driver' = "asking" /\ asking' = TRUE
                  ELSE driver' = "failed" /\ UNCHANGED asking
  /\ UNCHANGED <<daemonVars, bridgeVars, driverLife, driverIn, turn, want, reply, calm>>

\* The next line that has a task_id, whatever it is, is taken for the answer.
AskReads ==
  /\ driver = "asking" /\ driverIn # << >>
  /\ driverIn' = Tail(driverIn)
  /\ IF Head(driverIn) = Eof
     THEN UNCHANGED <<driver, want>>
     ELSE driver' = "waiting" /\ want' = Head(driverIn).task
  /\ UNCHANGED <<daemonVars, bridgeVars, driverLife, asking, turn, reply, calm>>

\* No line comes for five seconds: queue.Empty ends the script.
AskDies ==
  /\ driver = "asking" /\ driverIn = << >> /\ ~asking
  /\ driver' = "failed"
  /\ UNCHANGED <<daemonVars, bridgeVars, driverLife, driverIn, asking, turn, want, reply,
                 calm>>

\* The result l ends the turn, and the loop unless it is a success.
EndTurn(l) ==
  /\ reply' = [reply EXCEPT ![turn] = l.task]
  /\ driver' = IF ~l.ok THEN "stopped" ELSE IF turn = Turns THEN "done" ELSE "composing"

\* Variant: any result will do.
WaitReads_any ==
  /\ driver = "waiting" /\ driverIn # << >>
  /\ driverIn' = Tail(driverIn)
  /\ LET l == Head(driverIn) IN
       IF l = Eof THEN driver' = "stopped" /\ UNCHANGED reply
       ELSE IF l.kind # "task_result" THEN UNCHANGED <<driver, reply>>
       ELSE EndTurn(l)
  /\ UNCHANGED <<daemonVars, bridgeVars, driverLife, asking, turn, want, calm>>

\* wait_result: None ends the wait, and any line but the result of that task is
\* passed over.
WaitReads ==
  /\ driver = "waiting" /\ driverIn # << >>
  /\ driverIn' = Tail(driverIn)
  /\ LET l == Head(driverIn) IN
       IF l = Eof THEN driver' = "stopped" /\ UNCHANGED reply
       ELSE IF l.kind # "task_result" \/ l.task # want THEN UNCHANGED <<driver, reply>>
       ELSE EndTurn(l)
  /\ UNCHANGED <<daemonVars, bridgeVars, driverLife, asking, turn, want, calm>>

\* Variant: the default wait is shorter than the daemon's.
WaitTimeout_short ==
  /\ driver = "waiting" /\ driverIn = << >>
  /\ driver' = "stopped"
  /\ UNCHANGED <<daemonVars, bridgeVars, driverLife, driverIn, asking, turn, want, reply,
                 calm>>

\* LMS_TIMEOUT and five seconds pass: by default three times what the daemon gives a
\* task, but where less than that is configured the daemon may be waiting still.
WaitTimeout ==
  /\ driver = "waiting" /\ driverIn = << >>
  /\ driver' = "stopped"
  /\ calm' = (calm /\ ledger[want] # "pending")
  /\ UNCHANGED <<daemonVars, bridgeVars, driverLife, driverIn, asking, turn, want, reply>>

\* The model makes the next message, or it fails and the script ends.
Compose ==
  /\ driver = "composing"
  /\ \/ driver' = "ready" /\ turn' = turn + 1 /\ UNCHANGED calm
     \/ driver' = "failed" /\ calm' = FALSE /\ UNCHANGED turn
  /\ UNCHANGED <<daemonVars, bridgeVars, driverLife, driverIn, asking, want, reply>>

-----------------------------------------------------------------------------

DaemonStep ==
  \/ TakeAsk \/ RefuseAsk \/ TakeReply
  \/ \E t \in Tasks : TimeOut(t) \/ RecordAgain(t)
  \/ Broadcast \/ Stop \/ Start
BridgeStep ==
  \/ BridgeConnect \/ BridgeSubscribe \/ BridgeCutOff \/ BridgeTake
  \/ BridgeReply \/ BridgeBroken
DriverStep ==
  \/ DriverStart \/ Ask \/ AskReads \/ AskDies \/ WaitReads \/ WaitTimeout \/ Compose

Next == DaemonStep \/ BridgeStep \/ DriverStep

\* The bridge goes on, and the model's requests have timeouts of their own. Nobody
\* has to ask, broadcast, start or stop.
Fairness ==
  /\ WF_vars(BridgeConnect) /\ WF_vars(BridgeSubscribe \/ BridgeCutOff)
  /\ WF_vars(BridgeTake) /\ WF_vars(BridgeReply \/ BridgeBroken)

Spec == Init /\ [][Next]_vars
FairSpec == Spec /\ Fairness

-----------------------------------------------------------------------------

\* A result that ends a turn, a success or not, is that of the turn's own task,
\* although ask takes the task_id of any line for its own, and requests of others and
\* second results come in between.
TurnsOwnReply == \A n \in Own : reply[n] \in {None, n}

\* Left alone, the conversation is never given up: the loop stops or fails only if
\* a task of others, a second or failed result, a timeout of the daemon, an error
\* of the bus or the model or the daemon's end has come between, if it was told to
\* wait for less than the daemon does, or if the bridge or the daemon was not there at
\* the start.
StopsForCause ==
  (calm /\ driver \in {"stopped", "failed"}) => turn = 1 /\ want = None

\* "Connect, register, and serve until the daemon disconnects", and reconnect:
\* when the daemon is back for good so is the bridge, unless it was writing when
\* the daemon went, or the daemon had not read all that it had written.
BridgeComesBack == <>[]up => <>[](Serves \/ bridge = "crashed" \/ deaf)
=============================================================================
