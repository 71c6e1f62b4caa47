---------------------------- MODULE ConsoleProofs ----------------------------
(***************************************************************************)
(* Proofs about Console, for any number of connections, clicks, requests   *)
(* and restarts.                                                           *)
(***************************************************************************)
EXTENDS Console, FiniteSetTheorems, SequenceTheorems, TLAPS

-----------------------------------------------------------------------------
(* The console: the request in the bar.                                      *)

\* What waits in the bar and what calls reply to has been shown; a reply that was
\* taken has dealt with its request.
BarTypes ==
  /\ call \in [Calls -> {"unused", "locking", "calling", "ok", "done"}]
  /\ about \in [Calls -> Tasks \cup {None}]
  /\ queue \in [Conns -> Seq(Tasks)]
  /\ pending \in seen \cup {None}
  /\ seen \subseteq Tasks
  /\ \A i \in Calls : about[i] \in seen \cup {None}
  /\ \A i \in Calls : call[i] = "ok" => about[i] \in dealt \ {None}

LEMMA BarTypesInit ==
  ASSUME Init
  PROVE  BarTypes /\ LoneRequestStays
<1>1. queue \in [Conns -> Seq(Tasks)]
  <2>1. << >> \in Seq(Tasks)
    BY EmptySeq
  <2> QED
    BY <2>1 DEF Init
<1>2. call \in [Calls -> {"unused", "locking", "calling", "ok", "done"}]
  BY DEF Init
<1> QED
  BY <1>1, <1>2 DEF BarTypes, Init, LoneRequestStays

\* Two sorts of steps leave the bar and the calls alone: those of a connection, but
\* for the poll loop, and the daemon's and the timers'.
BarKept == UNCHANGED <<call, about, pending, seen, dealt>>

LEMMA ConnStepsKeepBar ==
  ASSUME NEW k \in Conns,
         \/ Register(k) \/ Subscribe(k) \/ Store(k) \/ SetConnected(k)
         \/ SetReconnecting(k) \/ ConnectDaemon(k)
  PROVE  BarKept /\ queue' = queue
BY DEF BarKept, Register, Subscribe, Store, SetConnected,
       SetReconnecting, ConnectDaemon, callVars, requestVars

LEMMA DaemonStepsKeepBar ==
  ASSUME RefreshStatus \/ StartDaemon \/ DaemonGoes \/ DaemonComes
  PROVE  BarKept /\ queue' = queue
BY DEF BarKept, RefreshStatus, StartDaemon, DaemonGoes, DaemonComes,
       callVars, requestVars

LEMMA QueueStep ==
  ASSUME BarTypes, [Next]_vars
  PROVE  queue' \in [Conns -> Seq(Tasks)]
<1> USE DEF BarTypes
<1>1. CASE UNCHANGED vars
  BY <1>1 DEF vars
<1>2. ASSUME NEW t \in Tasks, Push(t)
      PROVE  queue' \in [Conns -> Seq(Tasks)]
  <2>1. \A k \in Conns : queue[k] \in Seq(Tasks) /\ Append(queue[k], t) \in Seq(Tasks)
    BY AppendProperties
  <2>2. PICK ks : queue' = [k \in Conns |-> IF k \in ks THEN Append(queue[k], t) ELSE queue[k]]
    BY <1>2 DEF Push
  <2> QED
    BY <2>1, <2>2
<1>3. ASSUME NEW k \in Conns, Poll(k)
      PROVE  queue' \in [Conns -> Seq(Tasks)]
  <2>1. Tail(queue[k]) \in Seq(Tasks)
    BY <1>3, HeadTailProperties DEF Poll
  <2> QED
    BY <1>3, <2>1 DEF Poll
<1>4. ASSUME NEW i \in Calls, CallStep(i)
      PROVE  queue' = queue
  BY <1>4 DEF CallStep, Send, Reply, Lock, CallReturns, Replied
<1>5. CASE Dismiss
  BY <1>5 DEF Dismiss
<1> QED
  BY <1>1, <1>2, <1>3, <1>4, <1>5, ConnStepsKeepBar, DaemonStepsKeepBar DEF Next, ConnStep

BarInv == BarTypes /\ LoneRequestStays

LEMMA BarStep ==
  ASSUME BarInv, [Next]_vars
  PROVE  BarInv'
<1>1. queue' \in [Conns -> Seq(Tasks)]
  BY QueueStep DEF BarInv
<1>2. CASE BarKept
  BY <1>1, <1>2 DEF BarKept, BarInv, BarTypes, LoneRequestStays
<1>3. CASE UNCHANGED vars
  BY <1>2, <1>3 DEF vars, callVars, requestVars, BarKept
<1>4. ASSUME NEW t \in Tasks, Push(t)
      PROVE  BarKept
  BY <1>4 DEF Push, callVars, BarKept
<1>5. ASSUME NEW k \in Conns, Poll(k)
      PROVE  BarInv'
  <2>1. PICK t \in Tasks : pending' = t /\ seen' = seen \cup {t}
    BY <1>5, HeadTailProperties DEF Poll, BarInv, BarTypes
  <2>2. UNCHANGED <<call, about, dealt>>
    BY <1>5 DEF Poll, callVars
  <2>3. BarTypes'
    BY <1>1, <2>1, <2>2 DEF BarInv, BarTypes
  <2>4. LoneRequestStays'
    BY <2>1 DEF LoneRequestStays
  <2> QED
    BY <2>3, <2>4 DEF BarInv
<1>6. ASSUME NEW i \in Calls, Send(i) \/ Lock(i)
      PROVE  BarInv'
  <2>1. UNCHANGED <<about, pending, seen, dealt>>
    BY <1>6 DEF Send, Lock, requestVars
  <2>2. /\ call' \in [Calls -> {"unused", "locking", "calling", "ok", "done"}]
        /\ \A j \in Calls : call'[j] = "ok" => call[j] = "ok"
    BY <1>6 DEF Send, Lock, BarInv, BarTypes
  <2> QED
    BY <1>1, <2>1, <2>2 DEF BarInv, BarTypes, LoneRequestStays
<1>7. ASSUME NEW i \in Calls, Reply(i)
      PROVE  BarInv'
  <2>1. UNCHANGED <<pending, seen, dealt>> /\ pending \in Tasks
    BY <1>7 DEF Reply, requestVars, BarInv, BarTypes
  <2>2. /\ call' \in [Calls -> {"unused", "locking", "calling", "ok", "done"}]
        /\ about' \in [Calls -> Tasks \cup {None}]
        /\ call'[i] = "locking" /\ about'[i] = pending
        /\ \A j \in Calls \ {i} : call'[j] = call[j] /\ about'[j] = about[j]
    BY <1>7, <2>1 DEF Reply, BarInv, BarTypes
  <2>3. BarTypes'
    BY <1>1, <2>1, <2>2 DEF BarInv, BarTypes
  <2> QED
    BY <2>1, <2>3 DEF BarInv, LoneRequestStays
<1>8. ASSUME NEW i \in Calls, CallReturns(i)
      PROVE  BarInv'
  <2>1. UNCHANGED <<about, pending, seen>> /\ dealt \subseteq dealt'
    BY <1>8 DEF CallReturns
  <2>2. /\ call' \in [Calls -> {"unused", "locking", "calling", "ok", "done"}]
        /\ \A j \in Calls \ {i} : call'[j] = call[j]
        /\ call'[i] = "ok" => about[i] # None /\ about[i] \in dealt'
    BY <1>8 DEF CallReturns, BarInv, BarTypes
  <2>3. BarTypes'
    BY <1>1, <2>1, <2>2 DEF BarInv, BarTypes
  <2> QED
    BY <2>1, <2>3 DEF BarInv, LoneRequestStays
<1>9. ASSUME NEW i \in Calls, Replied(i)
      PROVE  BarInv'
  <2>1. UNCHANGED <<about, seen, dealt>> /\ pending' = None /\ call[i] = "ok"
    BY <1>9 DEF Replied
  <2>2. about[i] \in dealt /\ about[i] \in seen
    BY <2>1 DEF BarInv, BarTypes
  <2>3. /\ call' \in [Calls -> {"unused", "locking", "calling", "ok", "done"}]
        /\ \A j \in Calls : call'[j] = "ok" => call[j] = "ok"
    BY <1>9 DEF Replied, BarInv, BarTypes
  <2>4. BarTypes'
    BY <1>1, <2>1, <2>3 DEF BarInv, BarTypes
  <2>5. LoneRequestStays'
    BY <2>1, <2>2 DEF LoneRequestStays
  <2> QED
    BY <2>4, <2>5 DEF BarInv
<1>10. CASE Dismiss
  <2>1. /\ UNCHANGED <<call, about, seen>>
        /\ pending' = None /\ dealt' = dealt \cup {pending}
    BY <1>10 DEF Dismiss, callVars
  <2>2. BarTypes'
    BY <1>1, <2>1 DEF BarInv, BarTypes
  <2>3. LoneRequestStays'
    BY <2>1 DEF BarInv, LoneRequestStays
  <2> QED
    BY <2>2, <2>3 DEF BarInv
<1> QED
  BY <1>2, <1>3, <1>4, <1>5, <1>6, <1>7, <1>8, <1>9, <1>10, ConnStepsKeepBar, DaemonStepsKeepBar
     DEF Next, ConnStep, CallStep

\* As long as one request only has been shown it waits in the bar until it is replied
\* to or dismissed, whatever becomes of the reply, the connection and the daemon.
THEOREM LoneRequestIsKept == Spec => []LoneRequestStays
<1>1. Init => BarInv
  BY BarTypesInit DEF BarInv
<1>2. BarInv /\ [Next]_vars => BarInv'
  BY BarStep
<1>3. BarInv => LoneRequestStays
  BY DEF BarInv
<1> QED
  BY <1>1, <1>2, <1>3, PTL DEF Spec

-----------------------------------------------------------------------------
(* The console: its connections.                                             *)

Attempts == {"unused", "dialing", "registered", "connected", "stored", "done"}

ConnTypes ==
  /\ up \in BOOLEAN /\ life \in Nat
  /\ attempt \in [Conns -> Attempts]
  /\ knows \in [Conns -> Nat \cup {None}]
  /\ \A k \in Conns : knows[k] \in Nat => knows[k] <= life
  /\ retry \in BOOLEAN /\ loose \in Nat /\ starts \in Nat

\* The connections that are the daemon's, or that may become so: their attempt goes on.
Chances == {k \in Conns : attempt[k] \in {"dialing", "registered"} \/ Alive(k)}

Timers == loose + (IF retry THEN 1 ELSE 0)

\* Each of them, and each timer that will start another, goes back to the first
\* attempt or to a click on Start Daemon.
ChancesPaid == IsFiniteSet(Chances) /\ Cardinality(Chances) + Timers <= 1 + starts

LEMMA ConnTypesStep ==
  ASSUME ConnTypes, [Next]_vars
  PROVE  ConnTypes'
<1> USE DEF ConnTypes, Attempts
<1>1. CASE UNCHANGED vars
  BY <1>1 DEF vars, daemonVars, connVars, timerVars
<1>2. ASSUME NEW k \in Conns, Register(k)
      PROVE  ConnTypes'
  BY <1>2 DEF Register, daemonVars, timerVars
<1>3. ASSUME NEW k \in Conns, Subscribe(k) \/ Store(k) \/ SetConnected(k)
      PROVE  ConnTypes'
  BY <1>3 DEF Subscribe, Store, SetConnected, daemonVars, timerVars
<1>4. ASSUME NEW k \in Conns, SetReconnecting(k)
      PROVE  ConnTypes'
  <2>1. UNCHANGED <<up, life, starts>> /\ retry' \in BOOLEAN /\ loose' \in Nat
    BY <1>4 DEF SetReconnecting, daemonVars
  <2>2. attempt' \in [Conns -> Attempts] /\ knows' \in [Conns -> Nat \cup {None}]
    BY <1>4 DEF SetReconnecting
  <2>3. \A j \in Conns : knows'[j] = knows[j] \/ knows'[j] = None
    BY <1>4 DEF SetReconnecting
  <2> QED
    BY <2>1, <2>2, <2>3, ConsoleAssumption
<1>5. ASSUME NEW k \in Conns, ConnectDaemon(k)
      PROVE  ConnTypes'
  <2>1. UNCHANGED <<up, life, knows, starts>> /\ retry' \in BOOLEAN
    BY <1>5 DEF ConnectDaemon, daemonVars
  <2>2. attempt' \in [Conns -> Attempts]
    BY <1>5 DEF ConnectDaemon
  <2>3. loose' = loose \/ (loose' = loose - 1 /\ loose > 0)
    BY <1>5 DEF ConnectDaemon
  <2> QED
    BY <2>1, <2>2, <2>3
<1>6. ASSUME NEW k \in Conns, Poll(k)
      PROVE  ConnTypes'
  BY <1>6 DEF Poll, daemonVars, connVars, timerVars
<1>7. ASSUME NEW i \in Calls, CallStep(i)
      PROVE  ConnTypes'
  BY <1>7 DEF CallStep, Send, Reply, Lock, CallReturns, Replied,
              daemonVars, connVars, timerVars
<1>8. ASSUME NEW t \in Tasks, Push(t)
      PROVE  ConnTypes'
  BY <1>8 DEF Push, daemonVars, connVars, timerVars
<1>9. CASE Dismiss \/ RefreshStatus
  BY <1>9 DEF Dismiss, RefreshStatus, daemonVars, connVars, timerVars
<1>10. CASE StartDaemon
  <2>1. UNCHANGED <<attempt, knows, retry>> /\ loose' \in Nat /\ starts' \in Nat
    BY <1>10 DEF StartDaemon, connVars
  <2>2. up' \in BOOLEAN /\ life' \in {life, life + 1}
    BY <1>10 DEF StartDaemon, SpawnDaemon, daemonVars
  <2> QED
    BY <2>1, <2>2
<1>11. CASE DaemonGoes \/ DaemonComes
  <2>1. UNCHANGED <<attempt, knows, retry, loose, starts>>
    BY <1>11 DEF DaemonGoes, DaemonComes, connVars, timerVars
  <2>2. up' \in BOOLEAN /\ life' \in {life, life + 1}
    BY <1>11 DEF DaemonGoes, DaemonComes
  <2> QED
    BY <2>1, <2>2
<1> QED
  BY <1>1, <1>2, <1>3, <1>4, <1>5, <1>6, <1>7, <1>8, <1>9, <1>10, <1>11
     DEF Next, ConnStep

\* What a step does to the chances: no more of them but by a timer that fires, one
\* less where a timer is set.
LEMMA ChancesStep ==
  ASSUME ConnTypes, [Next]_vars
  PROVE  \/ Chances' \subseteq Chances /\ Timers' = Timers /\ starts' = starts
         \/ \E k \in Conns : /\ Chances' \subseteq Chances \cup {k}
                             /\ Timers' + 1 <= Timers /\ starts' = starts
         \/ \E k \in Chances : /\ Chances' \subseteq Chances \ {k}
                               /\ Timers' = Timers + 1 /\ starts' = starts
         \/ Chances' \subseteq Chances /\ Timers' = Timers + 1 /\ starts' = starts + 1
<1> USE DEF ConnTypes, Chances, Alive, Timers
<1>1. CASE UNCHANGED <<up, life, attempt, knows, retry, loose, starts>>
  BY <1>1
<1>2. CASE UNCHANGED vars
  BY <1>1, <1>2 DEF vars, daemonVars, connVars, timerVars
<1>3. ASSUME NEW k \in Conns, Register(k)
      PROVE  Chances' \subseteq Chances /\ Timers' = Timers /\ starts' = starts
  BY <1>3 DEF Register, daemonVars, timerVars
<1>4. ASSUME NEW k \in Conns, Subscribe(k) \/ Store(k) \/ SetConnected(k)
      PROVE  Chances' \subseteq Chances /\ Timers' = Timers /\ starts' = starts
  <2>1. UNCHANGED <<up, life, knows, retry, loose, starts>>
    BY <1>4 DEF Subscribe, Store, SetConnected, daemonVars, timerVars
  <2>2. \A j \in Conns : attempt'[j] \in {"dialing", "registered"} => attempt'[j] = attempt[j]
    BY <1>4 DEF Subscribe, Store, SetConnected
  <2> QED
    BY <2>1, <2>2
<1>5. ASSUME NEW k \in Conns, SetReconnecting(k)
      PROVE  /\ k \in Chances /\ Chances' \subseteq Chances \ {k}
             /\ Timers' = Timers + 1 /\ starts' = starts
  <2>1. k \in Chances
    BY <1>5 DEF SetReconnecting, Unreachable
  <2>2. /\ attempt'[k] = "unused" /\ knows'[k] = None
        /\ \A j \in Conns \ {k} : attempt'[j] = attempt[j] /\ knows'[j] = knows[j]
        /\ UNCHANGED <<up, life, starts>>
    BY <1>5 DEF SetReconnecting, daemonVars
  <2>3. k \notin Chances'
    BY <2>2, ConsoleAssumption
  <2>4. Chances' \subseteq Chances
    BY <2>2, <2>3
  <2>5. Timers' = Timers + 1
    BY <1>5 DEF SetReconnecting
  <2> QED
    BY <2>1, <2>2, <2>3, <2>4, <2>5
<1>6. ASSUME NEW k \in Conns, ConnectDaemon(k)
      PROVE  Chances' \subseteq Chances \cup {k} /\ Timers' + 1 <= Timers /\ starts' = starts
  <2>1. /\ \A j \in Conns \ {k} : attempt'[j] = attempt[j]
        /\ UNCHANGED <<up, life, knows, starts>>
    BY <1>6 DEF ConnectDaemon, daemonVars
  <2>2. Timers' + 1 <= Timers
    BY <1>6 DEF ConnectDaemon
  <2> QED
    BY <2>1, <2>2
<1>7. ASSUME NEW k \in Conns, Poll(k)
      PROVE  UNCHANGED <<up, life, attempt, knows, retry, loose, starts>>
  BY <1>7 DEF Poll, daemonVars, connVars, timerVars
<1>8. ASSUME NEW i \in Calls, CallStep(i)
      PROVE  UNCHANGED <<up, life, attempt, knows, retry, loose, starts>>
  BY <1>8 DEF CallStep, Send, Reply, Lock, CallReturns, Replied,
              daemonVars, connVars, timerVars
<1>9. ASSUME NEW t \in Tasks, Push(t)
      PROVE  UNCHANGED <<up, life, attempt, knows, retry, loose, starts>>
  BY <1>9 DEF Push, daemonVars, connVars, timerVars
<1>10. CASE Dismiss \/ RefreshStatus
  BY <1>1, <1>10 DEF Dismiss, RefreshStatus, daemonVars, connVars, timerVars
<1>11. CASE StartDaemon
  <2>1. UNCHANGED <<attempt, knows, retry>> /\ loose' = loose + 1 /\ starts' = starts + 1
    BY <1>11 DEF StartDaemon, connVars
  <2>2. UNCHANGED <<up, life>> \/ life' = life + 1
    BY <1>11 DEF StartDaemon, SpawnDaemon, daemonVars
  <2>3. \A k \in Conns : knows[k] # life + 1
    OBVIOUS
  <2>4. Chances' \subseteq Chances
    BY <2>1, <2>2, <2>3
  <2> QED
    BY <2>1, <2>4
<1>12. CASE DaemonGoes \/ DaemonComes
  <2>1. UNCHANGED <<attempt, knows, retry, loose, starts>>
    BY <1>12 DEF DaemonGoes, DaemonComes, connVars, timerVars
  <2>2. ~up' \/ life' = life + 1
    BY <1>12 DEF DaemonGoes, DaemonComes
  <2>3. \A k \in Conns : knows[k] # life + 1
    OBVIOUS
  <2> QED
    BY <2>1, <2>2, <2>3
<1> QED
  BY <1>1, <1>2, <1>3, <1>4, <1>5, <1>6, <1>7, <1>8, <1>9, <1>10, <1>11, <1>12
     DEF Next, ConnStep

LEMMA PaidStep ==
  ASSUME ConnTypes, ChancesPaid, [Next]_vars
  PROVE  ChancesPaid'
<1>1. IsFiniteSet(Chances) /\ Cardinality(Chances) + Timers <= 1 + starts
  BY DEF ChancesPaid
<1>2. Cardinality(Chances) \in Nat /\ Timers \in Nat /\ Timers' \in Nat /\ starts \in Nat
  <2>1. ConnTypes'
    BY ConnTypesStep
  <2>2. Timers' \in Nat
    <3>1. PICK l \in Nat : l = loose'
      BY <2>1 DEF ConnTypes
    <3>2. PICK n : n = Timers'
      OBVIOUS
    <3>3. n = l + (IF retry' THEN 1 ELSE 0)
      BY <3>1, <3>2 DEF Timers
    <3>4. n \in Nat
      BY <3>3
    <3> QED
      BY <3>2, <3>4
  <2>3. Timers \in Nat /\ starts \in Nat
    BY DEF ConnTypes, Timers
  <2> QED
    BY <1>1, <2>2, <2>3, FS_CardinalityType
<1>3. \A S : IsFiniteSet(S) => \A T \in SUBSET S :
        IsFiniteSet(T) /\ Cardinality(T) \in Nat /\ Cardinality(S) \in Nat
        /\ Cardinality(T) <= Cardinality(S)
  BY FS_Subset, FS_CardinalityType
<1>4. PICK next : next = Chances'
  OBVIOUS
<1>5. CASE Chances' \subseteq Chances /\ \/ Timers' = Timers /\ starts' = starts
                                         \/ Timers' = Timers + 1 /\ starts' = starts + 1
  <2>1. IsFiniteSet(next) /\ Cardinality(next) \in Nat /\ Cardinality(next) <= Cardinality(Chances)
    BY <1>1, <1>3, <1>4, <1>5
  <2>2. Cardinality(next) + Timers' <= 1 + starts'
    BY <1>1, <1>2, <1>5, <2>1
  <2> QED
    BY <1>4, <2>1, <2>2 DEF ChancesPaid
<1>6. ASSUME NEW k \in Conns, Chances' \subseteq Chances \cup {k},
             Timers' + 1 <= Timers, starts' = starts
      PROVE  ChancesPaid'
  <2>1. IsFiniteSet(Chances \cup {k}) /\ Cardinality(Chances \cup {k}) <= Cardinality(Chances) + 1
    <3>1. /\ IsFiniteSet(Chances \cup {k})
          /\ Cardinality(Chances \cup {k}) \in {Cardinality(Chances), Cardinality(Chances) + 1}
      BY <1>1, FS_AddElement, Zenon
    <3> QED
      BY <1>2, <3>1
  <2>2. IsFiniteSet(next) /\ Cardinality(next) \in Nat /\ Cardinality(Chances \cup {k}) \in Nat
        /\ Cardinality(next) <= Cardinality(Chances \cup {k})
    BY <1>3, <1>4, <1>6, <2>1
  <2>3. Cardinality(next) <= Cardinality(Chances) + 1
    BY <1>2, <2>1, <2>2
  <2>4. PICK l \in Nat : l = Timers'
    BY <1>2
  <2>5. l + 1 <= Timers
    BY <1>6, <2>4
  <2>6. Cardinality(next) + l <= 1 + starts
    BY <1>1, <1>2, <2>2, <2>3, <2>5
  <2>7. Cardinality(next) + Timers' <= 1 + starts'
    BY <1>6, <2>4, <2>6
  <2> QED
    BY <1>4, <2>2, <2>7 DEF ChancesPaid
<1>7. ASSUME NEW k \in Chances, Chances' \subseteq Chances \ {k},
             Timers' = Timers + 1, starts' = starts
      PROVE  ChancesPaid'
  <2>1. IsFiniteSet(Chances \ {k}) /\ Cardinality(Chances \ {k}) = Cardinality(Chances) - 1
    BY <1>1, <1>7, FS_RemoveElement, Zenon
  <2>2. IsFiniteSet(next) /\ Cardinality(next) \in Nat /\ Cardinality(Chances \ {k}) \in Nat
        /\ Cardinality(next) <= Cardinality(Chances \ {k})
    BY <1>3, <1>4, <1>7, <2>1
  <2>3. Cardinality(next) + Timers' <= 1 + starts'
    BY <1>1, <1>2, <1>7, <2>1, <2>2
  <2> QED
    BY <1>4, <2>2, <2>3 DEF ChancesPaid
<1>8. \/ Chances' \subseteq Chances /\ Timers' = Timers /\ starts' = starts
      \/ \E k \in Conns : /\ Chances' \subseteq Chances \cup {k}
                          /\ Timers' + 1 <= Timers /\ starts' = starts
      \/ \E k \in Chances : /\ Chances' \subseteq Chances \ {k}
                            /\ Timers' = Timers + 1 /\ starts' = starts
      \/ Chances' \subseteq Chances /\ Timers' = Timers + 1 /\ starts' = starts + 1
  BY ChancesStep
<1> QED
  BY <1>5, <1>6, <1>7, <1>8, Zenon

\* However attempts, timers and restarts of the daemon overlap, the console is
\* registered with the daemon once, and once more for each click on Start Daemon.
THEOREM TwinsHaveCauses == Spec => []TwinHasCause
<1>1. Init => ConnTypes /\ ChancesPaid
  <2> SUFFICES ASSUME Init PROVE ConnTypes /\ ChancesPaid
    OBVIOUS
  <2>1. ConnTypes
    BY ConsoleAssumption DEF ConnTypes, Attempts, Init
  <2>2. Chances = {1}
    BY ConsoleAssumption DEF Chances, Alive, Init
  <2>3. IsFiniteSet({1}) /\ Cardinality({1}) = 1
    BY FS_Singleton
  <2>4. Timers = 0 /\ starts = 0
    BY DEF Timers, Init
  <2> QED
    BY <2>1, <2>2, <2>3, <2>4 DEF ChancesPaid
<1>2. ConnTypes /\ ChancesPaid /\ [Next]_vars => (ConnTypes /\ ChancesPaid)'
  BY ConnTypesStep, PaidStep
<1>3. ConnTypes /\ ChancesPaid => TwinHasCause
  <2> SUFFICES ASSUME ConnTypes, ChancesPaid
               PROVE  Cardinality({k \in Conns : Alive(k)}) <= 1 + starts
    BY DEF TwinHasCause
  <2> DEFINE Alives == {k \in Conns : Alive(k)}
  <2>1. Alives \subseteq Chances
    BY DEF Chances
  <2> HIDE DEF Alives
  <2>2. /\ Cardinality(Alives) \in Nat /\ Cardinality(Chances) \in Nat
        /\ Cardinality(Alives) <= Cardinality(Chances)
    BY <2>1, FS_Subset, FS_CardinalityType DEF ChancesPaid
  <2>3. Cardinality(Alives) <= 1 + starts
    BY <2>2 DEF ConnTypes, ChancesPaid, Timers
  <2> QED
    BY <2>3 DEF Alives
<1> QED
  BY <1>1, <1>2, <1>3, PTL DEF Spec

=============================================================================
