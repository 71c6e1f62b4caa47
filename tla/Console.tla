-------------------------------- MODULE Console --------------------------------
(***************************************************************************)
(* The desktop console (twilight-console): a Rust backend that holds a     *)
(* client of the daemon in state.daemon (src-tauri/src/lib.rs), and a web  *)
(* page (src/main.js) that connects it, retries, starts and stops the      *)
(* daemon, sends, and keeps the one request that a human may reply to.     *)
(*                                                                         *)
(* A connection is one run of connectDaemon; one that has failed is used   *)
(* again. What is read only to be drawn (registry, status, traffic) is     *)
(* left out, and so are results, which are shown and change nothing.       *)
(***************************************************************************)
EXTENDS Naturals, Sequences, FiniteSets

CONSTANTS
  Conns,        \* runs of connectDaemon, numbered
  Calls,        \* clicks on send and reply
  Tasks,        \* requests that the daemon pushes to the console
  MaxStarts,    \* bound on the clicks on Start Daemon
  MaxRestarts,  \* bound on the daemon's restarts
  None

ASSUME ConsoleAssumption ==
  /\ MaxStarts \in Nat /\ MaxRestarts \in Nat
  /\ Conns \subseteq Nat /\ 1 \in Conns
  /\ Conns \cap Calls = {} /\ None \notin Conns \cup Calls \cup Tasks \cup Nat

VARIABLES
  up, life,   \* the daemon runs; its present life
  attempt,    \* attempt[k]: unused, dialing, registered, connected, stored, done
  knows,      \* knows[k]: the life of the daemon it has connected to
  queue,      \* queue[k]: the task_queue of its client
  client,     \* state.daemon
  guard,      \* who holds the lock of state.daemon
  call,       \* call[i]: the invocation of click i: unused, locking, calling, ok, done
  about,      \* about[i]: the request it replies to; None when it sends
  retry,      \* reconnectTimer is set
  loose,      \* timers for connectDaemon that reconnectTimer does not know
  running,    \* daemonRunning
  shown,      \* myUuid is set: the page says Connected
  pending,    \* pendingTask
  starts,     \* clicks on Start Daemon
  pushed,     \* history: requests pushed
  seen,       \* history: requests shown
  dealt       \* history: requests replied to or dismissed

daemonVars  == <<up, life>>
connVars    == <<attempt, knows>>
callVars    == <<guard, call, about>>
timerVars   == <<retry, loose, starts, running>>
requestVars == <<pushed, seen, dealt, pending>>
vars == <<daemonVars, connVars, queue, client, callVars, timerVars, shown,
          requestVars>>

Init ==
  /\ up \in BOOLEAN /\ life = 0
  /\ attempt = [k \in Conns |-> IF k = 1 THEN "dialing" ELSE "unused"]
  /\ knows = [k \in Conns |-> None]
  /\ queue = [k \in Conns |-> << >>]
  /\ client = None /\ guard = None
  /\ call = [i \in Calls |-> "unused"] /\ about = [i \in Calls |-> None]
  /\ retry = FALSE /\ loose = 0 /\ starts = 0 /\ running = FALSE
  /\ shown = FALSE /\ pending = None
  /\ pushed = {} /\ seen = {} /\ dealt = {}

Alive(k) == up /\ knows[k] = life
IsNext(k) == attempt[k] = "unused" /\ \A j \in Conns : attempt[j] = "unused" => k <= j

-----------------------------------------------------------------------------
(* connectDaemon and connect_daemon.                                        *)

\* The daemon registers the console...
Register(k) ==
  /\ attempt[k] = "dialing" /\ up
  /\ attempt' = [attempt EXCEPT ![k] = "registered"]
  /\ knows' = [knows EXCEPT ![k] = life]
  /\ UNCHANGED <<daemonVars, queue, client, callVars, timerVars, shown, requestVars>>

\* ...and acknowledges subscribe_tasks: the client reads what is pushed.
Subscribe(k) ==
  /\ attempt[k] = "registered" /\ Alive(k)
  /\ attempt' = [attempt EXCEPT ![k] = "connected"]
  /\ UNCHANGED <<daemonVars, knows, queue, client, callVars, timerVars, shown,
                 requestVars>>

\* The client is stored, whatever was there before, and its poll loop begins. The
\* loop of the one it replaces goes on and keeps its connection.
Store(k) ==
  /\ attempt[k] = "connected" /\ guard = None
  /\ attempt' = [attempt EXCEPT ![k] = "stored"]
  /\ client' = k
  /\ UNCHANGED <<daemonVars, knows, queue, callVars, timerVars, shown, requestVars>>

\* The page gets the uuid.
SetConnected(k) ==
  /\ attempt[k] = "stored"
  /\ attempt' = [attempt EXCEPT ![k] = "done"]
  /\ shown' = TRUE
  /\ UNCHANGED <<daemonVars, knows, queue, client, callVars, timerVars, requestVars>>

\* There is no daemon, or it went before both answers.
Unreachable(k) ==
  \/ attempt[k] = "dialing" /\ ~up
  \/ attempt[k] = "registered" /\ ~Alive(k)

\* Variant: the page says Reconnecting, and does not.
SetReconnecting_stays(k) ==
  /\ Unreachable(k)
  /\ attempt' = [attempt EXCEPT ![k] = "unused"]
  /\ knows' = [knows EXCEPT ![k] = None]
  /\ shown' = FALSE
  /\ UNCHANGED <<daemonVars, queue, client, callVars, timerVars, requestVars>>

\* The failure arms a timer. If one is armed already it is no longer known, and
\* will fire all the same.
SetReconnecting(k) ==
  /\ Unreachable(k)
  /\ attempt' = [attempt EXCEPT ![k] = "unused"]
  /\ knows' = [knows EXCEPT ![k] = None]
  /\ shown' = FALSE
  /\ retry' = TRUE
  /\ loose' = IF retry THEN loose + 1 ELSE loose
  /\ UNCHANGED <<daemonVars, queue, client, callVars, starts, running, requestVars>>

\* Variant: setInterval in place of setTimeout, and it is not cleared.
ConnectDaemon_repeats(k) ==
  /\ IsNext(k)
  /\ \/ retry /\ UNCHANGED loose
     \/ loose > 0 /\ loose' = loose - 1
  /\ attempt' = [attempt EXCEPT ![k] = "dialing"]
  /\ UNCHANGED <<daemonVars, knows, queue, client, callVars, retry, starts, running, shown,
                 requestVars>>

\* A timer fires, and connectDaemon clears the one that reconnectTimer knows.
ConnectDaemon(k) ==
  /\ IsNext(k)
  /\ \/ retry /\ UNCHANGED loose
     \/ loose > 0 /\ loose' = loose - 1
  /\ retry' = FALSE
  /\ attempt' = [attempt EXCEPT ![k] = "dialing"]
  /\ UNCHANGED <<daemonVars, knows, queue, client, callVars, starts, running, shown,
                 requestVars>>

-----------------------------------------------------------------------------
(* Requests.                                                                *)

\* The daemon pushes a request, to one connection or to all it has.
Push(t) ==
  LET open == {k \in Conns : attempt[k] \in {"connected", "stored", "done"} /\ Alive(k)} IN
  /\ t \notin pushed
  /\ \E ks \in SUBSET open :
       /\ ks = open \/ Cardinality(ks) = 1
       /\ ks # {}
       /\ queue' = [k \in Conns |-> IF k \in ks THEN Append(queue[k], t) ELSE queue[k]]
  /\ pushed' = pushed \cup {t}
  /\ UNCHANGED <<daemonVars, connVars, client, callVars, timerVars, shown, seen, dealt,
                 pending>>

\* Variant: the loop of a client that has been replaced ends.
Poll_current(k) ==
  /\ client = k /\ queue[k] # << >>
  /\ queue' = [queue EXCEPT ![k] = Tail(@)]
  /\ pending' = Head(queue[k])
  /\ seen' = seen \cup {Head(queue[k])}
  /\ UNCHANGED <<daemonVars, connVars, client, callVars, timerVars, shown, pushed, dealt>>

\* The poll loop of connection k empties its client's queue every 300 ms, and the
\* page shows one event after another: the last replaces the request that waits for
\* a reply. (Clicks come between two events as they do between two polls.)
Poll(k) ==
  /\ attempt[k] \in {"stored", "done"} /\ queue[k] # << >>
  /\ queue' = [queue EXCEPT ![k] = Tail(@)]
  /\ pending' = Head(queue[k])
  /\ seen' = seen \cup {Head(queue[k])}
  /\ UNCHANGED <<daemonVars, connVars, client, callVars, timerVars, shown, pushed, dealt>>

Dismiss ==
  /\ pending # None
  /\ pending' = None
  /\ dealt' = dealt \cup {pending}
  /\ UNCHANGED <<daemonVars, connVars, queue, client, callVars, timerVars, shown,
                 pushed, seen>>

-----------------------------------------------------------------------------
(* send_chat and reply_chat: the lock of state.daemon is held over the call. *)

Send(i) ==
  /\ call[i] = "unused" /\ shown
  /\ call' = [call EXCEPT ![i] = "locking"]
  /\ UNCHANGED <<daemonVars, connVars, queue, client, guard, about, timerVars, shown,
                 requestVars>>

\* The id of the request is read before the await...
Reply(i) ==
  /\ call[i] = "unused" /\ pending # None
  /\ call' = [call EXCEPT ![i] = "locking"]
  /\ about' = [about EXCEPT ![i] = pending]
  /\ UNCHANGED <<daemonVars, connVars, queue, client, guard, timerVars, shown,
                 requestVars>>

\* A call waits for those that hold the lock.
Lock(i) ==
  /\ call[i] = "locking" /\ guard = None
  /\ IF client = None THEN call' = [call EXCEPT ![i] = "done"] /\ UNCHANGED guard
                      ELSE call' = [call EXCEPT ![i] = "calling"] /\ guard' = i
  /\ UNCHANGED <<daemonVars, connVars, queue, client, about, timerVars, shown,
                 requestVars>>

\* The daemon answers, with an error when its bus fails, or the client finds its
\* connection closed.
CallReturns(i) ==
  /\ call[i] = "calling"
  /\ guard' = None
  /\ \/ /\ Alive(client)
        /\ call' = [call EXCEPT ![i] = IF about[i] = None THEN "done" ELSE "ok"]
        /\ dealt' = IF about[i] = None THEN dealt ELSE dealt \cup {about[i]}
     \/ /\ call' = [call EXCEPT ![i] = "done"]
        /\ UNCHANGED dealt
  /\ UNCHANGED <<daemonVars, connVars, queue, client, about, timerVars, shown, pushed,
                 seen, pending>>

\* Variant: the bar is cleared whether the reply was taken or not.
Replied_always(i) ==
  /\ call[i] \in {"ok", "done"} /\ about[i] # None
  /\ call' = [call EXCEPT ![i] = "done"]
  /\ about' = [about EXCEPT ![i] = None]
  /\ pending' = None
  /\ UNCHANGED <<daemonVars, connVars, queue, client, guard, timerVars, shown, pushed,
                 seen, dealt>>

\* ...and after it pendingTask is cleared, whichever request it is by then.
Replied(i) ==
  /\ call[i] = "ok"
  /\ call' = [call EXCEPT ![i] = "done"]
  /\ pending' = None
  /\ UNCHANGED <<daemonVars, connVars, queue, client, guard, about, timerVars, shown,
                 pushed, seen, dealt>>

-----------------------------------------------------------------------------
(* The daemon.                                                              *)

\* get_daemon_status: the process of the PID file lives and the socket accepts.
DaemonStatus == up

\* The page looks at it every eight seconds.
RefreshStatus ==
  /\ running # DaemonStatus
  /\ running' = DaemonStatus
  /\ UNCHANGED <<daemonVars, connVars, queue, client, callVars, retry, loose, starts,
                 shown, requestVars>>

\* start_daemon spawns a process, which comes up or does not. (A second daemon
\* besides a running one is DaemonLifecycle's.)
SpawnDaemon ==
  \/ ~up /\ life < MaxRestarts /\ up' = TRUE /\ life' = life + 1
  \/ UNCHANGED daemonVars

\* The button, as the page knows the daemon; connectDaemon is to run two seconds
\* later, whatever else is armed.
StartDaemon ==
  /\ ~running /\ starts < MaxStarts
  /\ starts' = starts + 1
  /\ loose' = loose + 1
  /\ SpawnDaemon
  /\ UNCHANGED <<connVars, queue, client, callVars, retry, running, shown, requestVars>>

\* stop_daemon, or another way to end.
DaemonGoes ==
  /\ up
  /\ up' = FALSE
  /\ UNCHANGED <<life, connVars, queue, client, callVars, timerVars, shown, requestVars>>

\* Somebody else starts it.
DaemonComes ==
  /\ ~up /\ life < MaxRestarts
  /\ up' = TRUE
  /\ life' = life + 1
  /\ UNCHANGED <<connVars, queue, client, callVars, timerVars, shown, requestVars>>

-----------------------------------------------------------------------------

ConnStep(k) ==
  \/ Register(k) \/ Subscribe(k) \/ Store(k) \/ SetConnected(k)
  \/ SetReconnecting(k) \/ ConnectDaemon(k) \/ Poll(k)
CallStep(i) == Send(i) \/ Reply(i) \/ Lock(i) \/ CallReturns(i) \/ Replied(i)

Next ==
  \/ \E k \in Conns : ConnStep(k)
  \/ \E i \in Calls : CallStep(i)
  \/ \E t \in Tasks : Push(t)
  \/ Dismiss
  \/ RefreshStatus \/ StartDaemon \/ DaemonGoes \/ DaemonComes

\* Timers fire, promises resolve, poll loops run, a daemon that runs answers, and who
\* waits for the lock gets it when it is free. Nobody has to click, push, start or
\* stop.
Fairness ==
  /\ \A k \in Conns :
       /\ WF_vars(Register(k) \/ Subscribe(k) \/ SetReconnecting(k) \/ SetConnected(k))
       /\ WF_vars(Store(k)) /\ WF_vars(Poll(k))
  /\ WF_vars(\E k \in Conns : ConnectDaemon(k))
  /\ \A i \in Calls : WF_vars(Lock(i)) /\ WF_vars(CallReturns(i) \/ Replied(i))

Spec == Init /\ [][Next]_vars
FairSpec == Spec /\ Fairness

-----------------------------------------------------------------------------

\* However attempts, timers that are overwritten and the button's timers overlap,
\* and with a daemon that comes and goes, the console is registered with the daemon
\* once, and once more for each click on Start Daemon.
TwinHasCause == Cardinality({k \in Conns : Alive(k)}) <= 1 + starts

\* As long as only one request has been shown it waits in the bar until it is
\* replied to or dismissed, also if the reply fails or the daemon is another one by
\* then.
LoneRequestStays ==
  \A t \in Tasks : seen = {t} => pending = t \/ t \in dealt

\* A daemon that stays up has the page say Connected in the end, though one attempt's
\* failure undoes another's success, one attempt clears another's timer, and the lock
\* it needs is held over the calls of clicks. If no daemon ran before the one that
\* stays, there is a client of it behind the page. (Otherwise there may be none: when
\* its daemon goes the page goes on to say Connected, and tries nothing.)
PageConnects ==
  /\ <>[]up => <>[]shown
  /\ \A n \in 0 .. MaxRestarts :
       <>[]up /\ [](up => life = n) => <>[](shown /\ client # None /\ Alive(client))

\* A request that was pushed to any of the console's connections is shown, also by
\* one that has been replaced or whose daemon has gone.
RequestsAreShown == \A t \in Tasks : t \in pushed ~> t \in seen
=============================================================================
