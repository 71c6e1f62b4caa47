------------------------ MODULE TaskOrchestratorProofs ------------------------
(***************************************************************************)
(* Theorems about TaskOrchestrator, for any sets of connections, uuids and *)
(* tasks and any channel capacity.                                         *)
(***************************************************************************)
EXTENDS TaskOrchestrator, SequenceTheorems, TLAPS

USE ConstantsAssumption

-----------------------------------------------------------------------------
(* Types. *)

LEMMA PushType ==
  ASSUME TypeOK, NEW u, NEW e \in Event
  PROVE  push_task_event(u, e) \in [Conns -> Seq(Event)]
<1>1. CASE Listening(u) /\ HasRoom(u)
  <2>1. task_senders[u] \in Conns
    BY <1>1 DEF Listening, TypeOK
  <2>2. Append(chan[task_senders[u]], e) \in Seq(Event)
    BY <2>1 DEF TypeOK
  <2> QED BY <1>1, <2>1, <2>2 DEF push_task_event, TypeOK
<1>2. CASE ~(Listening(u) /\ HasRoom(u))
  BY <1>2 DEF push_task_event, TypeOK
<1> QED BY <1>1, <1>2

LEMMA ResultPushedType ==
  ASSUME TypeOK, NEW t \in Tasks
  PROVE  ResultPushed(t) \in [Conns -> Seq(Event)]
<1>1. Result(t) \in Event
  BY DEF Result, Event
<1> QED BY <1>1, PushType DEF ResultPushed, TypeOK

LEMMA RemoveRecordType ==
  ASSUME TypeOK, NEW t \in Tasks, RemoveRecord(t)
  PROVE  /\ pending_tasks' \in [Tasks -> Record \cup {None}]
         /\ answers' \in [Tasks -> Nat]
         /\ overflowed' \in SUBSET Tasks
  BY DEF RemoveRecord, TypeOK

LEMMA WriteResponseType ==
  ASSUME TypeOK, NEW c \in Conns, NEW ph \in Phases,
         NEW ch \in [Conns -> Seq(Event)], WriteResponse(c, ph, ch)
  PROVE  /\ phase' \in [Conns -> Phases]
         /\ chan' \in [Conns -> Seq(Event)]
<1>1. phase' \in [Conns -> Phases]
  BY DEF WriteResponse, TypeOK, Phases
<1>2. << >> \in Seq(Event)
  OBVIOUS
<1>3. chan' \in [Conns -> Seq(Event)]
  BY <1>2 DEF WriteResponse
<1> QED BY <1>1, <1>3

LEMMA InsertRecordType ==
  ASSUME TypeOK, NEW t \in Tasks, NEW src \in Uuids \cup {Unknown}, InsertRecord(t, src)
  PROVE  pending_tasks' \in [Tasks -> Record \cup {None}]
  BY DEF InsertRecord, TypeOK, Record

LEMMA PublishType ==
  ASSUME TypeOK, NEW c \in Conns, NEW t \in Tasks, NEW src \in Uuids, NEW known,
         NEW tgt \in Target, PublishEnvelope(c, t, src, known, tgt)
  PROVE  /\ sent' \in [Tasks -> Envelope \cup {None}]
         /\ bus' \in SUBSET Tasks
         /\ sending' \in [Conns -> Tasks \cup {None}]
         /\ routerUp' \in BOOLEAN
         /\ routing' \in Tasks \cup {None}
         /\ targets' \in SUBSET Uuids
  BY DEF PublishEnvelope, TypeOK, Envelope


LEMMA InitType == Init => TypeOK /\ SendingRegistered /\ BusSent
<1>1. << >> \in Seq(Event)
  OBVIOUS
<1>2. Init => chan \in [Conns -> Seq(Event)]
  BY <1>1 DEF Init
<1>3. Init => phase \in [Conns -> Phases] /\ asked \in [Conns -> SUBSET Tasks]
  <2>1. {} \in SUBSET Tasks
    OBVIOUS
  <2> QED BY <2>1 DEF Init, Phases
<1>4. Init => TypeOK
  <2>1. Init => /\ identities \in SUBSET Uuids /\ bus \in SUBSET Tasks
                /\ targets \in SUBSET Uuids /\ expired \in SUBSET Tasks
                /\ told \in SUBSET Tasks
                /\ overflowed \in SUBSET Tasks /\ refused \in SUBSET Tasks
    BY DEF Init
  <2>2. Init => open \in [Conns -> BOOLEAN] /\ routerUp \in BOOLEAN
    BY Zenon DEF Init
  <2>3. Init => answers \in [Tasks -> Nat]
    BY DEF Init
  <2>4. Init => /\ registered \in [Conns -> Uuids \cup {None}]
                /\ sending \in [Conns -> Tasks \cup {None}]
                /\ task_senders \in [Uuids -> Conns \cup {None}]
                /\ pending_tasks \in [Tasks -> Record \cup {None}]
                /\ routing \in Tasks \cup {None}
                /\ sent \in [Tasks -> Envelope \cup {None}]
                /\ owner \in [Uuids -> Conns \cup {None}]
    BY DEF Init
  <2> QED BY <1>2, <1>3, <2>1, <2>2, <2>3, <2>4 DEF TypeOK
<1>5. Init => SendingRegistered /\ BusSent
  BY DEF Init, SendingRegistered, BusSent
<1> QED BY <1>4, <1>5

LEMMA StepType ==
  ASSUME TypeOK, SendingRegistered, BusSent, [Next]_vars
  PROVE  TypeOK'
<1>1. ASSUME NEW c \in Conns, Connect(c)
      PROVE  TypeOK'
  BY <1>1 DEF Connect, TypeOK, Phases, busVars, history
<1>2. ASSUME NEW c \in Conns, Disconnect(c)
      PROVE  TypeOK'
  BY <1>2 DEF Disconnect, TypeOK, busVars, history
<1>3. ASSUME NEW c \in Conns, NEW u \in Uuids, Register(c, u)
      PROVE  TypeOK'
  <2>1. /\ phase' \in [Conns -> Phases]
        /\ chan' \in [Conns -> Seq(Event)]
    BY <1>3, WriteResponseType DEF Register, TypeOK
  <2> QED BY <1>3, <2>1 DEF Register, AssignUuid, TypeOK, busVars
<1>4. ASSUME NEW c \in Conns, NEW u \in Uuids, NEW t \in Tasks, RegisterAgain(c, u, t)
      PROVE  TypeOK'
  <2>1. [kind |-> "Broadcast", agents |-> {}] \in Target
    BY DEF Target
  <2>2. PublishEnvelope(c, t, u, identities', [kind |-> "Broadcast", agents |-> {}])
    BY <1>4 DEF RegisterAgain
  <2>3. /\ sent' \in [Tasks -> Envelope \cup {None}]
        /\ bus' \in SUBSET Tasks
        /\ sending' \in [Conns -> Tasks \cup {None}]
        /\ routerUp' \in BOOLEAN
        /\ routing' \in Tasks \cup {None}
        /\ targets' \in SUBSET Uuids
    BY <2>1, <2>2, PublishType
  <2> QED BY <1>4, <2>3 DEF RegisterAgain, AssignUuid, TypeOK
<1>5. ASSUME NEW c \in Conns, SubscribeTasks(c)
      PROVE  TypeOK'
  <2>1. /\ phase' \in [Conns -> Phases]
        /\ chan' \in [Conns -> Seq(Event)]
    BY <1>5, WriteResponseType DEF SubscribeTasks, TypeOK, Phases
  <2>2. registered[c] \in Uuids
    BY <1>5 DEF SubscribeTasks, TypeOK
  <2> QED BY <1>5, <2>1, <2>2 DEF SubscribeTasks, TypeOK, busVars, history
<1>6. ASSUME NEW c \in Conns, NEW t \in Tasks, SendTask(c, t)
      PROVE  TypeOK'
  <2>1. PICK tgt \in [kind : {"Unicast"}, agents : {{u} : u \in Uuids}]
                       \cup [kind : {"Broadcast"}, agents : {{}}] :
               PublishEnvelope(c, t, registered[c], identities, tgt)
    BY <1>6 DEF SendTask
  <2>2. tgt \in Target
    BY DEF Target
  <2>3. registered[c] \in Uuids
    BY <1>6 DEF SendTask, TypeOK
  <2>4. /\ sent' \in [Tasks -> Envelope \cup {None}]
        /\ bus' \in SUBSET Tasks
        /\ sending' \in [Conns -> Tasks \cup {None}]
        /\ routerUp' \in BOOLEAN
        /\ routing' \in Tasks \cup {None}
        /\ targets' \in SUBSET Uuids
    BY <2>1, <2>2, <2>3, PublishType
  <2> QED BY <1>6, <2>4 DEF SendTask, TypeOK, history
<1>7. ASSUME NEW c \in Conns, FinishSend(c)
      PROVE  TypeOK'
  <2>1. /\ phase' \in [Conns -> Phases]
        /\ chan' \in [Conns -> Seq(Event)]
    BY <1>7, WriteResponseType DEF FinishSend, TypeOK
  <2>2. sending[c] \in Tasks /\ registered[c] \in Uuids
    BY <1>7 DEF FinishSend, TypeOK, SendingRegistered
  <2>3. pending_tasks' \in [Tasks -> Record \cup {None}]
    BY <1>7, <2>2, InsertRecordType DEF FinishSend
  <2> QED BY <1>7, <2>1, <2>3 DEF FinishSend, TypeOK, busVars, history
<1>8. ASSUME NEW c \in Conns, NEW t \in Tasks, ReplyTask(c, t)
      PROVE  TypeOK'
  <2>1. /\ phase' \in [Conns -> Phases]
        /\ chan' \in [Conns -> Seq(Event)]
    BY <1>8, WriteResponseType, ResultPushedType DEF ReplyTask, TypeOK
  <2>2. /\ pending_tasks' \in [Tasks -> Record \cup {None}]
        /\ answers' \in [Tasks -> Nat]
        /\ overflowed' \in SUBSET Tasks
    BY <1>8, RemoveRecordType DEF ReplyTask
  <2> QED BY <1>8, <2>1, <2>2 DEF ReplyTask, TypeOK, busVars
<1>9. ASSUME NEW c \in Conns, DeliverEvent(c)
      PROVE  TypeOK'
  <2>1. Head(chan[c]) \in Event /\ Tail(chan[c]) \in Seq(Event)
    BY <1>9, HeadTailProperties DEF DeliverEvent, TypeOK
  <2>2. Head(chan[c]).task_id \in Tasks
    BY <2>1 DEF Event
  <2>3. asked' \in [Conns -> SUBSET Tasks] /\ told' \in SUBSET Tasks
    <3>1. asked[c] \cup {Head(chan[c]).task_id} \in SUBSET Tasks
      BY <2>2 DEF TypeOK
    <3>2. asked' = asked \/ asked' = [asked EXCEPT ![c] = @ \cup {Head(chan[c]).task_id}]
      BY <1>9 DEF DeliverEvent
    <3>3. asked' \in [Conns -> SUBSET Tasks]
      BY <3>1, <3>2 DEF TypeOK
    <3>4. told' \in SUBSET Tasks
      BY <1>9, <2>2 DEF DeliverEvent, TypeOK
    <3> QED BY <3>3, <3>4
  <2>4. chan' \in [Conns -> Seq(Event)]
    BY <1>9, <2>1 DEF DeliverEvent, TypeOK
  <2>5. UNCHANGED <<handlerVars, task_senders, pending_tasks, identities, busVars,
                    expired, owner, answers, overflowed, refused>>
    BY <1>9 DEF DeliverEvent
  <2> QED BY <2>3, <2>4, <2>5 DEF TypeOK, handlerVars, busVars
<1>10. ASSUME NEW c \in Conns, Abort(c)
      PROVE  TypeOK'
  <2>1. /\ phase' \in [Conns -> Phases]
        /\ chan' \in [Conns -> Seq(Event)]
    BY <1>10, WriteResponseType DEF Abort, TypeOK
  <2> QED BY <1>10, <2>1 DEF Abort, TypeOK, busVars, history
<1>11. ASSUME NEW c \in Conns, CleanupSender(c)
      PROVE  TypeOK'
  <2>1. << >> \in Seq(Event)
    OBVIOUS
  <2> QED BY <1>11, <2>1 DEF CleanupSender, TypeOK, Phases, busVars, history
<1>12. ASSUME NEW c \in Conns, CleanupIdentity(c)
      PROVE  TypeOK'
  BY <1>12 DEF CleanupIdentity, TypeOK, Phases, busVars, history
<1>13. ASSUME RouterReady
      PROVE  TypeOK'
  BY <1>13 DEF RouterReady, TypeOK, handlerVars, history
<1>14. ASSUME NEW t \in Tasks, RouteTask(t)
      PROVE  TypeOK'
  <2>1. sent[t] \in Envelope
    BY <1>14 DEF RouteTask, TypeOK, BusSent
  <2>2. sent[t].source \in Uuids \cup {Unknown} /\ sent[t].target \in Target
    BY <2>1 DEF Envelope
  <2>3. Recipients(sent[t].target) \in SUBSET Uuids
    BY <2>2 DEF Recipients, Subscribers, Target
  <2>4. pending_tasks' \in [Tasks -> Record \cup {None}]
    BY <1>14, <2>2, InsertRecordType DEF RouteTask, TypeOK
  <2>5. routing' \in Tasks \cup {None} /\ targets' \in SUBSET Uuids /\ bus' \in SUBSET Tasks
    BY <1>14, <2>3 DEF RouteTask, TypeOK
  <2> QED BY <1>14, <2>4, <2>5 DEF RouteTask, TypeOK, handlerVars, history
<1>15. ASSUME NEW u \in Uuids, RoutePush(u)
      PROVE  TypeOK'
  <2>1. Request(routing) \in Event
    BY <1>15 DEF RoutePush, Request, Event, TypeOK
  <2>2. chan' \in [Conns -> Seq(Event)]
    BY <1>15, <2>1, PushType DEF RoutePush
  <2>3. routing' \in Tasks \cup {None} /\ targets' \in SUBSET Uuids
    BY <1>15 DEF RoutePush, TypeOK
  <2> QED BY <1>15, <2>2, <2>3 DEF RoutePush, TypeOK, handlerVars, history
<1>16. ASSUME NEW t \in Tasks, Elapse(t)
      PROVE  TypeOK'
  <2>1. pending_tasks[t] \in Record
    BY <1>16 DEF Elapse, TypeOK
  <2>2. [pending_tasks[t] EXCEPT !.stale = TRUE] \in Record
    BY <2>1 DEF Record
  <2>3. pending_tasks' \in [Tasks -> Record \cup {None}]
    BY <1>16, <2>2 DEF Elapse, TypeOK
  <2> QED BY <1>16, <2>3 DEF Elapse, TypeOK, handlerVars, busVars, history
<1>17. ASSUME TimeoutScan
      PROVE  TypeOK'
  BY <1>17 DEF TimeoutScan, Stale, TypeOK, handlerVars, busVars, history
<1>18. ASSUME NEW t \in Tasks, TimeoutFire(t)
      PROVE  TypeOK'
  <2>1. /\ pending_tasks' \in [Tasks -> Record \cup {None}]
        /\ answers' \in [Tasks -> Nat]
        /\ overflowed' \in SUBSET Tasks
        /\ chan' \in [Conns -> Seq(Event)]
    BY <1>18, RemoveRecordType, ResultPushedType DEF TimeoutFire
  <2> QED BY <1>18, <2>1 DEF TimeoutFire, TypeOK, handlerVars, busVars
<1>19. ASSUME NEW u \in Uuids, EvictStale(u)
      PROVE  TypeOK'
  BY <1>19 DEF EvictStale, TypeOK, handlerVars, busVars, history
<1>20. ASSUME NEW c \in Conns, FailSend(c)
       PROVE  TypeOK'
  <2>1. /\ phase' \in [Conns -> Phases]
        /\ chan' \in [Conns -> Seq(Event)]
    BY <1>20, WriteResponseType DEF FailSend, TypeOK
  <2>2. sending[c] \in Tasks
    BY <1>20 DEF FailSend, TypeOK
  <2>3. refused' \in SUBSET Tasks /\ sending' \in [Conns -> Tasks \cup {None}]
    BY <1>20, <2>2 DEF FailSend, TypeOK
  <2> QED BY <1>20, <2>1, <2>3 DEF FailSend, TypeOK, busVars
<1>21. CASE UNCHANGED vars
  BY <1>21 DEF TypeOK, vars, handlerVars, busVars, history
<1> QED
  BY <1>1, <1>2, <1>3, <1>4, <1>5, <1>6, <1>7, <1>8, <1>9, <1>10, <1>11, <1>12,
     <1>13, <1>14, <1>15, <1>16, <1>17, <1>18, <1>19, <1>20, <1>21
  DEF Next, HandlerStep, RouterStep, OrchestratorStep, ControllerStep

-----------------------------------------------------------------------------
(* What never changes once it is set. *)

\* Register gives a uuid out once.
LEMMA OwnerStable ==
  ASSUME TypeOK, [Next]_vars, NEW u \in Uuids, owner[u] # None
  PROVE  owner'[u] = owner[u]
<1>1. ASSUME NEW c \in Conns, NEW v \in Uuids, AssignUuid(c, v)
      PROVE  owner'[u] = owner[u]
  BY <1>1 DEF AssignUuid, TypeOK
<1>2. \/ \E c \in Conns, v \in Uuids : AssignUuid(c, v)
      \/ UNCHANGED owner
  BY DEF Next, HandlerStep, RouterStep, OrchestratorStep, ControllerStep, vars, history,
         Connect, Disconnect, Register, RegisterAgain, SubscribeTasks, SendTask,
         FinishSend, FailSend, ReplyTask, DeliverEvent, Abort, CleanupSender,
         CleanupIdentity,
         RouterReady, RouteTask, RoutePush, Elapse, TimeoutScan, TimeoutFire, EvictStale
<1> QED BY <1>1, <1>2

\* send_task_envelope uses a task id once.
LEMMA SentStable ==
  ASSUME TypeOK, [Next]_vars, NEW t \in Tasks, sent[t] # None
  PROVE  sent'[t] = sent[t]
<1>1. ASSUME NEW c \in Conns, NEW s \in Tasks, NEW src, NEW known, NEW tgt,
             PublishEnvelope(c, s, src, known, tgt)
      PROVE  sent'[t] = sent[t]
  BY <1>1 DEF PublishEnvelope, TypeOK
<1>2. ASSUME NEW c \in Conns, NEW u \in Uuids, NEW s \in Tasks, RegisterAgain(c, u, s)
      PROVE  sent'[t] = sent[t]
  BY <1>1, <1>2 DEF RegisterAgain
<1>3. ASSUME NEW c \in Conns, NEW s \in Tasks, SendTask(c, s)
      PROVE  sent'[t] = sent[t]
  BY <1>1, <1>3 DEF SendTask
<1>4. \/ \E c \in Conns, u \in Uuids, s \in Tasks : RegisterAgain(c, u, s)
      \/ \E c \in Conns, s \in Tasks : SendTask(c, s)
      \/ UNCHANGED sent
  BY DEF Next, HandlerStep, RouterStep, OrchestratorStep, ControllerStep, vars, busVars,
         Connect, Disconnect, Register, SubscribeTasks,
         FinishSend, FailSend, ReplyTask, DeliverEvent, Abort, CleanupSender,
         CleanupIdentity,
         RouterReady, RouteTask, RoutePush, Elapse, TimeoutScan, TimeoutFire, EvictStale
<1> QED BY <1>2, <1>3, <1>4

-----------------------------------------------------------------------------
(* Where the events of a channel come from. *)

\* e is a request the router may push to c's channel, or the result of a task
\* whose ledger record leads to c.
NewEvent(c, e) ==
  \/ /\ routing # None
     /\ e = Request(routing)
     /\ \E u \in targets : task_senders[u] = c
  \/ \E t \in Tasks :
       /\ pending_tasks[t] # None
       /\ pending_tasks[t].source_uuid \in Uuids
       /\ task_senders[pending_tasks[t].source_uuid] = c
       /\ e = Result(t)

LEMMA PushedEvent ==
  ASSUME TypeOK, NEW u, NEW e \in Event, NEW c \in Conns,
         NEW i \in 1 .. Len(push_task_event(u, e)[c])
  PROVE  \/ /\ i \in 1 .. Len(chan[c])
            /\ push_task_event(u, e)[c][i] = chan[c][i]
         \/ /\ u \in Uuids
            /\ task_senders[u] = c
            /\ push_task_event(u, e)[c][i] = e
<1>1. chan \in [Conns -> Seq(Event)]
  BY DEF TypeOK
<1>2. CASE Listening(u) /\ HasRoom(u)
  <2>1. u \in Uuids /\ task_senders[u] \in Conns
    BY <1>2 DEF Listening, TypeOK
  <2>2. CASE task_senders[u] = c
    <3>1. push_task_event(u, e)[c] = Append(chan[c], e)
      BY <1>1, <1>2, <2>1, <2>2 DEF push_task_event
    <3>2. i \in 1 .. Len(chan[c]) + 1 /\ Len(chan[c]) \in Nat
      BY <1>1, <3>1
    <3>3. CASE i \in 1 .. Len(chan[c])
      BY <1>1, <3>1, <3>3
    <3>4. CASE i = Len(chan[c]) + 1
      BY <1>1, <2>1, <2>2, <3>1, <3>4
    <3> QED BY <3>2, <3>3, <3>4
  <2>3. CASE task_senders[u] # c
    <3>1. push_task_event(u, e)[c] = chan[c]
      BY <1>1, <1>2, <2>1, <2>3 DEF push_task_event
    <3> QED BY <3>1
  <2> QED BY <2>2, <2>3
<1>3. CASE ~(Listening(u) /\ HasRoom(u))
  BY <1>3 DEF push_task_event
<1> QED BY <1>2, <1>3

LEMMA PushedResult ==
  ASSUME TypeOK, NEW t \in Tasks, NEW c \in Conns, NEW i \in 1 .. Len(ResultPushed(t)[c])
  PROVE  \/ /\ i \in 1 .. Len(chan[c])
            /\ ResultPushed(t)[c][i] = chan[c][i]
         \/ NewEvent(c, ResultPushed(t)[c][i])
<1>1. CASE pending_tasks[t] = None
  BY <1>1 DEF ResultPushed
<1>2. CASE pending_tasks[t] # None
  <2> DEFINE u == pending_tasks[t].source_uuid
  <2>1. ResultPushed(t) = push_task_event(u, Result(t))
    BY <1>2 DEF ResultPushed
  <2>2. Result(t) \in Event
    BY DEF Result, Event
  <2>3. \/ /\ i \in 1 .. Len(chan[c])
           /\ push_task_event(u, Result(t))[c][i] = chan[c][i]
        \/ /\ u \in Uuids
           /\ task_senders[u] = c
           /\ push_task_event(u, Result(t))[c][i] = Result(t)
    BY <2>1, <2>2, PushedEvent
  <2> QED BY <1>2, <2>1, <2>3 DEF NewEvent
<1> QED BY <1>1, <1>2

\* An event in a channel after a step was there before it, or was just pushed.
LEMMA ChanStep ==
  ASSUME TypeOK, [Next]_vars, NEW c \in Conns, NEW i \in 1 .. Len(chan'[c])
  PROVE  \/ \E j \in 1 .. Len(chan[c]) : chan'[c][i] = chan[c][j]
         \/ NewEvent(c, chan'[c][i])
<1> DEFINE Known(ch) == \A d \in Conns : \A k \in 1 .. Len(ch[d]) :
                          \/ \E j \in 1 .. Len(chan[d]) : ch[d][k] = chan[d][j]
                          \/ NewEvent(d, ch[d][k])
<1>1. Known(chan)
  OBVIOUS
<1>2. ASSUME NEW t \in Tasks
      PROVE  Known(ResultPushed(t))
  BY PushedResult
<1>3. ASSUME NEW d \in Conns, NEW ch \in [Conns -> Seq(Event)], Known(ch)
      PROVE  Known([ch EXCEPT ![d] = << >>])
  BY <1>3
<1>4. ASSUME NEW d \in Conns, NEW ph, NEW ch \in [Conns -> Seq(Event)], Known(ch),
             WriteResponse(d, ph, ch)
      PROVE  Known(chan')
  BY <1>3, <1>4 DEF WriteResponse
<1>5. chan \in [Conns -> Seq(Event)]
  BY DEF TypeOK
<1>6. ASSUME NEW d \in Conns, NEW ph, WriteResponse(d, ph, chan)
      PROVE  Known(chan')
  BY <1>1, <1>4, <1>5, <1>6
<1>7. ASSUME NEW d \in Conns, NEW t \in Tasks, ReplyTask(d, t)
      PROVE  Known(chan')
  BY <1>2, <1>4, <1>7, ResultPushedType DEF ReplyTask
<1>8. ASSUME NEW d \in Conns, DeliverEvent(d)
      PROVE  Known(chan')
  <2>1. ASSUME NEW k \in 1 .. Len(Tail(chan[d]))
        PROVE  \E j \in 1 .. Len(chan[d]) : Tail(chan[d])[k] = chan[d][j]
    BY <1>5, <1>8, HeadTailProperties DEF DeliverEvent
  <2> QED BY <1>5, <1>8, <2>1 DEF DeliverEvent
<1>9. ASSUME NEW d \in Conns, CleanupSender(d)
      PROVE  Known(chan')
  BY <1>1, <1>3, <1>5, <1>9 DEF CleanupSender
<1>10. ASSUME NEW u \in Uuids, RoutePush(u)
       PROVE  Known(chan')
  <2>1. Request(routing) \in Event /\ chan' = push_task_event(u, Request(routing))
    BY <1>10 DEF RoutePush, Request, Event, TypeOK
  <2>2. ASSUME NEW d \in Conns, NEW k \in 1 .. Len(chan'[d])
        PROVE  \/ \E j \in 1 .. Len(chan[d]) : chan'[d][k] = chan[d][j]
               \/ NewEvent(d, chan'[d][k])
    <3>1. \/ k \in 1 .. Len(chan[d]) /\ chan'[d][k] = chan[d][k]
          \/ task_senders[u] = d /\ chan'[d][k] = Request(routing)
      BY <2>1, PushedEvent
    <3> QED BY <1>10, <3>1 DEF RoutePush, NewEvent
  <2> QED BY <2>2
<1>11. ASSUME NEW t \in Tasks, TimeoutFire(t)
       PROVE  Known(chan')
  BY <1>2, <1>11 DEF TimeoutFire
<1>12. ASSUME NEW d \in Conns, Abort(d) \/ FinishSend(d) \/ FailSend(d)
                             \/ SubscribeTasks(d)
       PROVE  Known(chan')
  BY <1>6, <1>12 DEF Abort, FinishSend, FailSend, SubscribeTasks
<1>13. ASSUME NEW d \in Conns, NEW u \in Uuids, Register(d, u)
       PROVE  Known(chan')
  BY <1>6, <1>13 DEF Register
<1>14. ASSUME UNCHANGED chan
       PROVE  Known(chan')
  BY <1>1, <1>14
<1>15. \/ \E d \in Conns, t \in Tasks : ReplyTask(d, t)
       \/ \E d \in Conns : DeliverEvent(d) \/ CleanupSender(d) \/ Abort(d) \/ FinishSend(d)
                           \/ FailSend(d) \/ SubscribeTasks(d)
       \/ \E d \in Conns, u \in Uuids : Register(d, u)
       \/ \E u \in Uuids : RoutePush(u)
       \/ \E t \in Tasks : TimeoutFire(t)
       \/ UNCHANGED chan
  BY DEF Next, HandlerStep, RouterStep, OrchestratorStep, ControllerStep, vars, Connect,
         Disconnect, RegisterAgain, SendTask, CleanupIdentity, RouterReady, RouteTask,
         Elapse, TimeoutScan, EvictStale
<1>16. Known(chan')
  BY <1>7, <1>8, <1>9, <1>10, <1>11, <1>12, <1>13, <1>14, <1>15
<1> QED BY <1>16

-----------------------------------------------------------------------------
(* Ownership is inductive. *)

LEMMA InitOwnership == Init => Ownership
<1>1. Init => SenderOwned /\ RegisteredOwned /\ SendingRegistered /\ SendingOwned
  BY DEF Init, SenderOwned, RegisteredOwned, SendingRegistered, SendingOwned
<1>2. Init => SourceOwned /\ RecordOwned /\ BusSent /\ RouterOwned
  BY DEF Init, SourceOwned, RecordOwned, BusSent, RouterOwned
<1>3. Init => EventsSent
  <2> SUFFICES ASSUME Init, NEW c \in Conns, NEW i \in 1 .. Len(chan[c])
               PROVE  FALSE
    BY DEF EventsSent
  <2>1. chan[c] = << >>
    BY DEF Init
  <2> QED BY <2>1
<1> QED BY <1>1, <1>2, <1>3 DEF Ownership

\* What a send does: SendTask by a registered connection, RegisterAgain for the
\* uuid it has just been given.
NewEnvelope(c, t, u) ==
  /\ sending[c] = None
  /\ sent[t] = None
  /\ sent'[t] # None
  /\ sent'[t].from = c
  /\ sent'[t].source # Unknown => sent'[t].source = u
  /\ registered'[c] = u
  /\ owner'[u] = c
  /\ sending' = [sending EXCEPT ![c] = t]
  /\ bus' \subseteq bus \cup {t}
  /\ UNCHANGED <<routing, targets, pending_tasks, chan>>

LEMMA PublishFacts ==
  ASSUME TypeOK, NEW c \in Conns, NEW t \in Tasks, NEW u \in Uuids, NEW known,
         NEW tgt \in Target, PublishEnvelope(c, t, u, known, tgt)
  PROVE  /\ sent[t] = None
         /\ sent'[t] # None
         /\ sent'[t].from = c
         /\ sent'[t].source # Unknown => sent'[t].source = u
         /\ \A s \in Tasks : s # t => sent'[s] = sent[s]
         /\ sending' = [sending EXCEPT ![c] = t]
         /\ bus' \subseteq bus \cup {t}
         /\ UNCHANGED <<routing, targets>>
<1> DEFINE e == [from |-> c, source |-> IF u \in known THEN u ELSE Unknown, target |-> tgt]
<1>1. e \in Envelope
  BY DEF Envelope
<1>2. e # None
  BY <1>1
<1>3. sent' = [sent EXCEPT ![t] = e]
  BY DEF PublishEnvelope
<1>4. sent'[t] = e /\ \A s \in Tasks : s # t => sent'[s] = sent[s]
  BY <1>3 DEF TypeOK
<1>5. e.from = c /\ (e.source # Unknown => e.source = u)
  OBVIOUS
<1> HIDE DEF e
<1> QED BY <1>2, <1>4, <1>5 DEF PublishEnvelope

LEMMA SendStep ==
  ASSUME TypeOK, Ownership, [Next]_vars
  PROVE  \/ \E c \in Conns, t \in Tasks, u \in Uuids :
              NewEnvelope(c, t, u) /\ \A s \in Tasks : s # t => sent'[s] = sent[s]
         \/ /\ UNCHANGED sent
            /\ bus' \subseteq bus
            /\ \A c \in Conns : sending'[c] \in {sending[c], None}
<1>1. ASSUME NEW c \in Conns, NEW u \in Uuids, NEW t \in Tasks, RegisterAgain(c, u, t)
      PROVE  NewEnvelope(c, t, u) /\ \A s \in Tasks : s # t => sent'[s] = sent[s]
  <2>1. /\ sending[c] = None /\ registered'[c] = u /\ owner'[u] = c
        /\ UNCHANGED <<pending_tasks, chan>>
    BY <1>1 DEF RegisterAgain, AssignUuid, Waiting, TypeOK
  <2>2. [kind |-> "Broadcast", agents |-> {}] \in Target
    BY DEF Target
  <2>3. PublishEnvelope(c, t, u, identities', [kind |-> "Broadcast", agents |-> {}])
    BY <1>1 DEF RegisterAgain
  <2> QED BY <2>1, <2>2, <2>3, PublishFacts DEF NewEnvelope
<1>2. ASSUME NEW c \in Conns, NEW t \in Tasks, SendTask(c, t)
      PROVE  \E u \in Uuids :
               NewEnvelope(c, t, u) /\ \A s \in Tasks : s # t => sent'[s] = sent[s]
  <2>1. PICK tgt \in [kind : {"Unicast"}, agents : {{u} : u \in Uuids}]
                       \cup [kind : {"Broadcast"}, agents : {{}}] :
               PublishEnvelope(c, t, registered[c], identities, tgt)
    BY <1>2 DEF SendTask
  <2>2. tgt \in Target
    BY DEF Target
  <2>3. registered[c] \in Uuids /\ owner[registered[c]] = c
    BY <1>2 DEF SendTask, TypeOK, Ownership, RegisteredOwned
  <2>4. /\ sending[c] = None
        /\ UNCHANGED <<registered, owner, pending_tasks, chan>>
    BY <1>2 DEF SendTask, Waiting, history
  <2> QED BY <2>1, <2>2, <2>3, <2>4, PublishFacts DEF NewEnvelope
<1>3. \/ \E c \in Conns, u \in Uuids, t \in Tasks : RegisterAgain(c, u, t)
      \/ \E c \in Conns, t \in Tasks : SendTask(c, t)
      \/ \E c \in Conns : FinishSend(c) \/ FailSend(c)
      \/ UNCHANGED <<sent, sending>> /\ bus' \subseteq bus
  BY DEF Next, HandlerStep, RouterStep, OrchestratorStep, ControllerStep, vars, busVars,
         handlerVars, Connect, Disconnect, Register, SubscribeTasks, ReplyTask,
         DeliverEvent, Abort, CleanupSender, CleanupIdentity, RouterReady, RouteTask,
         RoutePush, Elapse, TimeoutScan, TimeoutFire, EvictStale
<1>4. ASSUME NEW c \in Conns, FinishSend(c) \/ FailSend(c)
      PROVE  /\ UNCHANGED <<sent, bus>>
             /\ \A d \in Conns : sending'[d] \in {sending[d], None}
  BY <1>4 DEF FinishSend, FailSend, TypeOK, busVars
<1> QED BY <1>1, <1>2, <1>3, <1>4

LEMMA StepSenderOwned ==
  ASSUME TypeOK, Ownership, [Next]_vars
  PROVE  SenderOwned'
<1> SUFFICES ASSUME NEW u \in Uuids, task_senders'[u] # None
             PROVE  owner'[u] = task_senders'[u]
  BY DEF SenderOwned
<1>1. ASSUME NEW c \in Conns, SubscribeTasks(c)
      PROVE  owner'[u] = task_senders'[u]
  BY <1>1 DEF SubscribeTasks, TypeOK, Ownership, SenderOwned, RegisteredOwned, history
<1>2. ASSUME NEW c \in Conns, CleanupSender(c)
      PROVE  owner'[u] = task_senders'[u]
  BY <1>2 DEF CleanupSender, TypeOK, Ownership, SenderOwned, history
<1>3. CASE UNCHANGED task_senders
  BY <1>3, OwnerStable DEF TypeOK, Ownership, SenderOwned
<1>4. \/ \E c \in Conns : SubscribeTasks(c) \/ CleanupSender(c)
      \/ UNCHANGED task_senders
  BY DEF Next, HandlerStep, RouterStep, OrchestratorStep, ControllerStep, vars,
         Connect, Disconnect, Register, RegisterAgain, SendTask, FinishSend, FailSend, ReplyTask,
         DeliverEvent, Abort, CleanupIdentity, RouterReady, RouteTask, RoutePush,
         Elapse, TimeoutScan, TimeoutFire, EvictStale
<1> QED BY <1>1, <1>2, <1>3, <1>4

LEMMA StepRegisteredOwned ==
  ASSUME TypeOK, Ownership, [Next]_vars
  PROVE  RegisteredOwned' /\ SendingRegistered'
<1>1. ASSUME NEW c \in Conns, NEW u \in Uuids, AssignUuid(c, u)
      PROVE  /\ RegisteredOwned'
             /\ \A d \in Conns : registered[d] # None => registered'[d] # None
             /\ registered'[c] # None
  BY <1>1 DEF AssignUuid, TypeOK, Ownership, RegisteredOwned
<1>2. ASSUME UNCHANGED registered
      PROVE  RegisteredOwned'
  <2> SUFFICES ASSUME NEW d \in Conns, registered'[d] # None
               PROVE  owner'[registered'[d]] = d
    BY DEF RegisteredOwned
  <2>1. registered'[d] = registered[d] /\ registered[d] \in Uuids
    BY <1>2 DEF TypeOK
  <2>2. owner[registered[d]] = d
    BY <2>1 DEF Ownership, RegisteredOwned
  <2> QED BY <2>1, <2>2, OwnerStable
<1>3. \/ \E c \in Conns, u \in Uuids : AssignUuid(c, u)
      \/ UNCHANGED registered
  BY DEF Next, HandlerStep, RouterStep, OrchestratorStep, ControllerStep, vars, handlerVars,
         Connect, Disconnect, Register, RegisterAgain, SubscribeTasks, SendTask,
         FinishSend, FailSend, ReplyTask, DeliverEvent, Abort, CleanupSender,
         CleanupIdentity,
         RouterReady, RouteTask, RoutePush, Elapse, TimeoutScan, TimeoutFire, EvictStale
<1>4. RegisteredOwned'
  BY <1>1, <1>2, <1>3
<1>5. \A d \in Conns : registered[d] # None => registered'[d] # None
  BY <1>1, <1>2, <1>3
<1>6. \A d \in Conns : sending'[d] # None => sending[d] # None \/ registered'[d] # None
  <2>1. ASSUME NEW c \in Conns, NEW t \in Tasks, SendTask(c, t)
        PROVE  \A d \in Conns : sending'[d] # None => sending[d] # None \/ registered'[d] # None
    BY <2>1 DEF SendTask, PublishEnvelope, TypeOK
  <2>2. ASSUME NEW c \in Conns, NEW u \in Uuids, NEW t \in Tasks, RegisterAgain(c, u, t)
        PROVE  \A d \in Conns : sending'[d] # None => sending[d] # None \/ registered'[d] # None
    BY <2>2 DEF RegisterAgain, AssignUuid, PublishEnvelope, TypeOK
  <2>3. ASSUME NEW c \in Conns, FinishSend(c) \/ FailSend(c)
        PROVE  \A d \in Conns : sending'[d] # None => sending[d] # None
    BY <2>3 DEF FinishSend, FailSend, TypeOK
  <2>4. \/ \E c \in Conns, t \in Tasks : SendTask(c, t)
        \/ \E c \in Conns, u \in Uuids, t \in Tasks : RegisterAgain(c, u, t)
        \/ \E c \in Conns : FinishSend(c) \/ FailSend(c)
        \/ UNCHANGED sending
    BY DEF Next, HandlerStep, RouterStep, OrchestratorStep, ControllerStep, vars,
           handlerVars, Connect, Disconnect, Register, SubscribeTasks, ReplyTask,
           DeliverEvent, Abort, CleanupSender, CleanupIdentity, RouterReady, RouteTask,
           RoutePush, Elapse, TimeoutScan, TimeoutFire, EvictStale
  <2> QED BY <2>1, <2>2, <2>3, <2>4
<1>7. SendingRegistered'
  <2>1. SendingRegistered
    BY DEF Ownership
  <2> QED BY <1>5, <1>6, <2>1 DEF SendingRegistered
<1> QED BY <1>4, <1>7

LEMMA StepSendingOwned ==
  ASSUME TypeOK, Ownership, [Next]_vars
  PROVE  SendingOwned'
<1>1. ASSUME NEW c \in Conns, NEW t \in Tasks, NEW u \in Uuids, NewEnvelope(c, t, u),
             \A s \in Tasks : s # t => sent'[s] = sent[s]
      PROVE  SendingOwned'
  <2> SUFFICES ASSUME NEW d \in Conns, sending'[d] # None
               PROVE  sent'[sending'[d]] # None /\ sent'[sending'[d]].from = d
    BY DEF SendingOwned
  <2>1. CASE d = c
    BY <1>1, <2>1 DEF NewEnvelope, TypeOK
  <2>2. CASE d # c
    <3>1. sending'[d] = sending[d] /\ sending[d] \in Tasks
      BY <1>1, <2>2 DEF NewEnvelope, TypeOK
    <3>2. sent[sending[d]] # None /\ sent[sending[d]].from = d
      BY <3>1 DEF Ownership, SendingOwned
    <3> QED BY <1>1, <3>1, <3>2 DEF NewEnvelope
  <2> QED BY <2>1, <2>2
<1>2. ASSUME UNCHANGED sent, \A c \in Conns : sending'[c] \in {sending[c], None}
      PROVE  SendingOwned'
  BY <1>2 DEF Ownership, SendingOwned
<1> QED BY <1>1, <1>2, SendStep

LEMMA StepSourceOwned ==
  ASSUME TypeOK, Ownership, [Next]_vars, TypeOK'
  PROVE  SourceOwned'
<1> SUFFICES ASSUME NEW s \in Tasks, sent'[s] # None, sent'[s].source # Unknown
             PROVE  owner'[sent'[s].source] = sent'[s].from
  BY DEF SourceOwned
<1>1. ASSUME sent[s] # None
      PROVE  owner'[sent'[s].source] = sent'[s].from
  <2>1. sent'[s] = sent[s]
    BY <1>1, SentStable
  <2>2. sent[s] \in Envelope
    BY <1>1 DEF TypeOK
  <2>3. sent[s].source \in Uuids /\ sent[s].from \in Conns
    BY <2>1, <2>2 DEF Envelope
  <2>4. owner[sent[s].source] = sent[s].from
    BY <1>1, <2>1 DEF Ownership, SourceOwned
  <2>5. owner[sent[s].source] # None
    BY <2>3, <2>4
  <2> QED BY <2>1, <2>3, <2>4, <2>5, OwnerStable
<1>2. ASSUME NEW c \in Conns, NEW t \in Tasks, NEW u \in Uuids, NewEnvelope(c, t, u),
             \A r \in Tasks : r # t => sent'[r] = sent[r], sent[s] = None
      PROVE  owner'[sent'[s].source] = sent'[s].from
  BY <1>2 DEF NewEnvelope
<1> QED BY <1>1, <1>2, SendStep

LEMMA StepBusSent ==
  ASSUME TypeOK, Ownership, [Next]_vars
  PROVE  BusSent'
<1>1. ASSUME NEW t \in bus
      PROVE  sent'[t] # None
  <2>1. t \in Tasks /\ sent[t] # None
    BY <1>1 DEF TypeOK, Ownership, BusSent
  <2> QED BY <2>1, SentStable
<1> QED BY <1>1, SendStep DEF NewEnvelope, BusSent

\* r may be t's ledger record.
RecordFits(r, t) ==
  /\ sent[t] # None
  /\ r.source_uuid # Unknown => owner[r.source_uuid] = sent[t].from

LEMMA StepRecordOwned ==
  ASSUME TypeOK, Ownership, [Next]_vars, TypeOK'
  PROVE  RecordOwned'
<1> SUFFICES ASSUME NEW t \in Tasks, pending_tasks'[t] # None
             PROVE  /\ sent'[t] # None
                    /\ pending_tasks'[t].source_uuid # Unknown =>
                         owner'[pending_tasks'[t].source_uuid] = sent'[t].from
  BY DEF RecordOwned
<1> USE DEF RecordFits
<1>1. ASSUME NEW c \in Conns, FinishSend(c)
      PROVE  RecordFits(pending_tasks'[t], t)
  <2>1. CASE t = sending[c]
    <3>1. pending_tasks'[t] = [source_uuid |-> registered[c], stale |-> FALSE]
      BY <1>1, <2>1 DEF FinishSend, InsertRecord, TypeOK
    <3>2. owner[registered[c]] = c /\ sent[t] # None /\ sent[t].from = c
      BY <1>1, <2>1 DEF FinishSend, Ownership, RegisteredOwned, SendingRegistered, SendingOwned
    <3> QED BY <3>1, <3>2
  <2>2. CASE t # sending[c]
    BY <1>1, <2>2 DEF FinishSend, InsertRecord, TypeOK, Ownership, RecordOwned
  <2> QED BY <2>1, <2>2
<1>2. ASSUME NEW s \in Tasks, RouteTask(s)
      PROVE  RecordFits(pending_tasks'[t], t)
  <2>1. CASE pending_tasks'[t] = [source_uuid |-> sent[s].source, stale |-> FALSE] /\ t = s
    BY <1>2, <2>1 DEF RouteTask, Ownership, BusSent, SourceOwned
  <2>2. CASE pending_tasks'[t] = pending_tasks[t]
    BY <2>2 DEF Ownership, RecordOwned
  <2> QED BY <1>2, <2>1, <2>2 DEF RouteTask, InsertRecord, TypeOK
<1>3. ASSUME NEW s \in Tasks, Elapse(s)
      PROVE  RecordFits(pending_tasks'[t], t)
  <2>1. CASE t = s
    <3>1. pending_tasks'[t] = [pending_tasks[t] EXCEPT !.stale = TRUE]
      BY <1>3, <2>1 DEF Elapse, TypeOK
    <3>2. pending_tasks[t] \in Record
      BY <1>3, <2>1 DEF Elapse, TypeOK
    <3>3. pending_tasks'[t].source_uuid = pending_tasks[t].source_uuid
      BY <3>1, <3>2 DEF Record
    <3> QED BY <1>3, <2>1, <3>3 DEF Elapse, Ownership, RecordOwned
  <2>2. CASE t # s
    BY <1>3, <2>2 DEF Elapse, TypeOK, Ownership, RecordOwned
  <2> QED BY <2>1, <2>2
<1>4. ASSUME NEW s \in Tasks, RemoveRecord(s)
      PROVE  RecordFits(pending_tasks'[t], t)
  BY <1>4 DEF RemoveRecord, TypeOK, Ownership, RecordOwned
<1>5. ASSUME UNCHANGED pending_tasks
      PROVE  RecordFits(pending_tasks'[t], t)
  BY <1>5 DEF Ownership, RecordOwned
<1>6. \/ \E c \in Conns : FinishSend(c)
      \/ \E s \in Tasks : RouteTask(s) \/ Elapse(s) \/ RemoveRecord(s)
      \/ UNCHANGED pending_tasks
  BY DEF Next, HandlerStep, RouterStep, OrchestratorStep, ControllerStep, vars, Connect,
         Disconnect, Register, RegisterAgain, SubscribeTasks, SendTask, FailSend, ReplyTask,
         DeliverEvent, Abort, CleanupSender, CleanupIdentity, RouterReady, RoutePush,
         TimeoutScan, TimeoutFire, EvictStale
<1>7. RecordFits(pending_tasks'[t], t)
  BY <1>1, <1>2, <1>3, <1>4, <1>5, <1>6
<1>8. sent'[t] = sent[t] /\ sent[t] # None /\ sent[t].from \in Conns
  BY <1>7, SentStable DEF TypeOK, Envelope
<1>9. pending_tasks'[t].source_uuid \in Uuids \cup {Unknown}
  BY DEF TypeOK, Record
<1> QED BY <1>7, <1>8, <1>9, OwnerStable

LEMMA StepRouterOwned ==
  ASSUME TypeOK, Ownership, [Next]_vars
  PROVE  RouterOwned'
<1>1. ASSUME NEW t \in Tasks, RouteTask(t)
      PROVE  RouterOwned'
  <2>1. sent[t] # None /\ UNCHANGED sent
    BY <1>1 DEF RouteTask, Ownership, BusSent
  <2>2. CASE UNCHANGED <<routing, targets>>
    BY <2>1, <2>2 DEF Ownership, RouterOwned
  <2>3. CASE routing' = t /\ targets' = Recipients(sent[t].target)
    BY <2>1, <2>3 DEF Recipients, RouterOwned
  <2> QED BY <1>1, <2>2, <2>3 DEF RouteTask
<1>2. ASSUME NEW u \in Uuids, RoutePush(u)
      PROVE  RouterOwned'
  BY <1>2 DEF RoutePush, Ownership, RouterOwned
<1>3. ASSUME UNCHANGED <<routing, targets>>
      PROVE  RouterOwned'
  <2> SUFFICES ASSUME routing # None
               PROVE  /\ sent'[routing] # None
                      /\ sent'[routing].target.kind = "Unicast" =>
                           targets \subseteq sent'[routing].target.agents
    BY <1>3 DEF RouterOwned
  <2>1. routing \in Tasks /\ sent[routing] # None
    BY DEF TypeOK, Ownership, RouterOwned
  <2>2. sent'[routing] = sent[routing]
    BY <2>1, SentStable
  <2> QED BY <2>1, <2>2 DEF Ownership, RouterOwned
<1>4. \/ \E t \in Tasks : RouteTask(t)
      \/ \E u \in Uuids : RoutePush(u)
      \/ UNCHANGED <<routing, targets>>
  BY DEF Next, HandlerStep, RouterStep, OrchestratorStep, ControllerStep, vars, busVars,
         Connect, Disconnect, Register, RegisterAgain, SubscribeTasks, SendTask,
         PublishEnvelope, FinishSend, FailSend, ReplyTask, DeliverEvent, Abort, CleanupSender,
         CleanupIdentity, RouterReady, Elapse, TimeoutScan, TimeoutFire, EvictStale
<1> QED BY <1>1, <1>2, <1>3, <1>4

LEMMA NewEventSent ==
  ASSUME TypeOK, Ownership, NEW c \in Conns, NEW e, NewEvent(c, e)
  PROVE  e.task_id \in Tasks /\ sent[e.task_id] # None
  BY DEF NewEvent, Request, Result, TypeOK, Ownership, RouterOwned, RecordOwned

LEMMA StepEventsSent ==
  ASSUME TypeOK, Ownership, [Next]_vars
  PROVE  EventsSent'
<1> SUFFICES ASSUME NEW c \in Conns, NEW i \in 1 .. Len(chan'[c])
             PROVE  sent'[chan'[c][i].task_id] # None
  BY DEF EventsSent
<1>1. ASSUME NEW j \in 1 .. Len(chan[c]), chan'[c][i] = chan[c][j]
      PROVE  sent'[chan'[c][i].task_id] # None
  <2>1. chan[c][j] \in Event
    BY DEF TypeOK
  <2>2. chan[c][j].task_id \in Tasks
    BY <2>1 DEF Event
  <2>3. sent[chan[c][j].task_id] # None
    BY DEF Ownership, EventsSent
  <2> QED BY <1>1, <2>2, <2>3, SentStable
<1>2. ASSUME NewEvent(c, chan'[c][i])
      PROVE  sent'[chan'[c][i].task_id] # None
  BY <1>2, NewEventSent, SentStable
<1> QED BY <1>1, <1>2, ChanStep

-----------------------------------------------------------------------------
(* The theorems on types and ownership. *)

Inv == TypeOK /\ Ownership

LEMMA InitInv == Init => Inv
  BY InitType, InitOwnership DEF Inv

LEMMA StepInv == Inv /\ [Next]_vars => Inv'
<1> SUFFICES ASSUME Inv, [Next]_vars
             PROVE  Inv'
  OBVIOUS
<1>1. TypeOK /\ Ownership
  BY DEF Inv
<1>2. TypeOK'
  BY <1>1, StepType DEF Ownership
<1>3. SenderOwned' /\ RegisteredOwned' /\ SendingRegistered' /\ SendingOwned'
  BY <1>1, StepSenderOwned, StepRegisteredOwned, StepSendingOwned
<1>4. SourceOwned' /\ RecordOwned' /\ BusSent' /\ RouterOwned' /\ EventsSent'
  BY <1>1, <1>2, StepSourceOwned, StepRecordOwned, StepBusSent, StepRouterOwned,
     StepEventsSent
<1> QED BY <1>2, <1>3, <1>4 DEF Inv, Ownership

LEMMA Invariance == Spec => []Inv
  BY InitInv, StepInv, PTL DEF Spec

\* Every variable keeps its type.
THEOREM Typing == Spec => []TypeOK
<1>1. Inv => TypeOK
  BY DEF Inv
<1> QED BY <1>1, Invariance, PTL

\* Every uuid the daemon stores is used on behalf of the connection that Register
\* gave it to.
THEOREM UuidsStayOwned == Spec => []Ownership
<1>1. Inv => Ownership
  BY DEF Inv
<1> QED BY <1>1, Invariance, PTL

-----------------------------------------------------------------------------
(* Results and requests reach the right client. *)

\* The push channels carry a result to the connection that sent the task and to
\* no other.
THEOREM ResultsReachOnlyTheRequester == Spec => []ResultOnlyToRequester
<1>1. Init => ResultOnlyToRequester
  <2> SUFFICES ASSUME Init, NEW c \in Conns, NEW i \in 1 .. Len(chan[c])
               PROVE  FALSE
    BY DEF ResultOnlyToRequester
  <2>1. chan[c] = << >>
    BY DEF Init
  <2> QED BY <2>1
<1>2. Inv /\ ResultOnlyToRequester /\ [Next]_vars => ResultOnlyToRequester'
  <2> SUFFICES ASSUME Inv, ResultOnlyToRequester, [Next]_vars, NEW c \in Conns,
                      NEW i \in 1 .. Len(chan'[c]), chan'[c][i].event = "task_result"
               PROVE  sent'[chan'[c][i].task_id].from = c
    BY DEF ResultOnlyToRequester
  <2>1. TypeOK /\ Ownership
    BY DEF Inv
  <2>2. ASSUME NEW j \in 1 .. Len(chan[c]), chan'[c][i] = chan[c][j]
        PROVE  sent'[chan'[c][i].task_id].from = c
    <3>1. chan[c][j].task_id \in Tasks
      <4>1. chan[c][j] \in Event
        BY <2>1 DEF TypeOK
      <4> QED BY <4>1 DEF Event
    <3>2. sent[chan[c][j].task_id] # None
      BY <2>1 DEF Ownership, EventsSent
    <3>3. sent[chan[c][j].task_id].from = c
      BY <2>2 DEF ResultOnlyToRequester
    <3> QED BY <2>1, <2>2, <3>1, <3>2, <3>3, SentStable
  <2>3. ASSUME NewEvent(c, chan'[c][i])
        PROVE  sent'[chan'[c][i].task_id].from = c
    <3>1. PICK t \in Tasks : /\ pending_tasks[t] # None
                             /\ pending_tasks[t].source_uuid \in Uuids
                             /\ task_senders[pending_tasks[t].source_uuid] = c
                             /\ chan'[c][i] = Result(t)
      BY <2>3 DEF NewEvent, Request
    <3>2. owner[pending_tasks[t].source_uuid] = c
      BY <2>1, <3>1 DEF Ownership, SenderOwned
    <3>3. sent[t] # None /\ sent[t].from = c
      BY <2>1, <3>1, <3>2 DEF Ownership, RecordOwned
    <3>4. chan'[c][i].task_id = t
      BY <3>1 DEF Result
    <3> QED BY <2>1, <3>3, <3>4, SentStable
  <2> QED BY <2>1, <2>2, <2>3, ChanStep
<1> QED BY <1>1, <1>2, Invariance, PTL DEF Spec

\* A task asked of one agent is pushed to that agent's connection and no other.
THEOREM RequestsReachOnlyTheTarget == Spec => []RequestOnlyToTarget
<1>1. Init => RequestOnlyToTarget
  <2> SUFFICES ASSUME Init, NEW c \in Conns, NEW i \in 1 .. Len(chan[c])
               PROVE  FALSE
    BY DEF RequestOnlyToTarget
  <2>1. chan[c] = << >>
    BY DEF Init
  <2> QED BY <2>1
<1>2. Inv /\ RequestOnlyToTarget /\ [Next]_vars => RequestOnlyToTarget'
  <2> SUFFICES ASSUME Inv, RequestOnlyToTarget, [Next]_vars, NEW c \in Conns,
                      NEW i \in 1 .. Len(chan'[c]), chan'[c][i].event = "task_request",
                      sent'[chan'[c][i].task_id].target.kind = "Unicast"
               PROVE  \E u \in sent'[chan'[c][i].task_id].target.agents : owner'[u] = c
    BY DEF RequestOnlyToTarget
  <2> DEFINE t == chan'[c][i].task_id
  <2>1. TypeOK /\ Ownership
    BY DEF Inv
  <2>2. t \in Tasks /\ sent[t] # None
    <3>1. ASSUME NEW j \in 1 .. Len(chan[c]), chan'[c][i] = chan[c][j]
          PROVE  t \in Tasks /\ sent[t] # None
      <4>1. chan[c][j] \in Event
        BY <2>1 DEF TypeOK
      <4>2. chan[c][j].task_id \in Tasks
        BY <4>1 DEF Event
      <4> QED BY <2>1, <3>1, <4>2 DEF Ownership, EventsSent
    <3> QED BY <2>1, <3>1, ChanStep, NewEventSent
  <2>3. sent'[t] = sent[t] /\ sent[t].target.agents \subseteq Uuids
    BY <2>1, <2>2, SentStable DEF TypeOK, Envelope, Target
  <2>4. \E u \in sent[t].target.agents : owner[u] = c
    <3>1. ASSUME NEW j \in 1 .. Len(chan[c]), chan'[c][i] = chan[c][j]
          PROVE  \E u \in sent[t].target.agents : owner[u] = c
      BY <2>3, <3>1 DEF RequestOnlyToTarget
    <3>2. ASSUME NewEvent(c, chan'[c][i])
          PROVE  \E u \in sent[t].target.agents : owner[u] = c
      <4>1. /\ routing # None /\ chan'[c][i] = Request(routing)
            /\ \E u \in targets : task_senders[u] = c
        <5>1. ASSUME NEW s \in Tasks, chan'[c][i] = Result(s)
              PROVE  FALSE
          BY <5>1 DEF Result
        <5> QED BY <3>2, <5>1 DEF NewEvent
      <4>2. t = routing
        BY <4>1 DEF Request
      <4>3. targets \subseteq sent[t].target.agents
        BY <2>1, <2>3, <4>1, <4>2 DEF Ownership, RouterOwned
      <4>4. PICK u \in targets : task_senders[u] = c
        BY <4>1
      <4>5. owner[u] = c
        BY <2>1, <4>4 DEF TypeOK, Ownership, SenderOwned
      <4> QED BY <4>3, <4>4, <4>5
    <3> QED BY <2>1, <3>1, <3>2, ChanStep
  <2> QED BY <2>1, <2>3, <2>4, OwnerStable
<1> QED BY <1>1, <1>2, Invariance, PTL DEF Spec

-----------------------------------------------------------------------------
(* Who stays reachable. *)

\* What a step does to the phase of a connection.
LEMMA PhaseStep ==
  ASSUME TypeOK, [Next]_vars, NEW c \in Conns
  PROVE  \/ phase'[c] = phase[c]
         \/ phase'[c] = "aborted"
         \/ phase[c] = "new" /\ phase'[c] = "phase1"
         \/ SubscribeTasks(c) /\ phase'[c] = "phase2"
         \/ CleanupSender(c) /\ phase'[c] = "leaving"
         \/ phase[c] = "leaving" /\ phase'[c] = "closed"
<1>1. ASSUME NEW d \in Conns, NEW ch, WriteResponse(d, phase[d], ch)
      PROVE  phase'[c] \in {phase[c], "aborted"}
  BY <1>1 DEF WriteResponse, TypeOK
<1>2. ASSUME NEW d \in Conns, SubscribeTasks(d)
      PROVE  \/ phase'[c] \in {phase[c], "aborted"}
             \/ SubscribeTasks(c) /\ phase'[c] = "phase2"
  <2>1. WriteResponse(d, "phase2", chan)
    BY <1>2 DEF SubscribeTasks
  <2>2. CASE c = d
    BY <1>2, <2>1, <2>2 DEF WriteResponse, TypeOK
  <2>3. CASE c # d
    BY <2>1, <2>3 DEF WriteResponse, TypeOK
  <2> QED BY <2>2, <2>3
<1>3. ASSUME NEW d \in Conns, CleanupSender(d)
      PROVE  phase'[c] = phase[c] \/ (CleanupSender(c) /\ phase'[c] = "leaving")
  BY <1>3 DEF CleanupSender, TypeOK
<1>4. ASSUME NEW d \in Conns, Connect(d) \/ CleanupIdentity(d)
      PROVE  \/ phase'[c] = phase[c]
             \/ phase[c] = "new" /\ phase'[c] = "phase1"
             \/ phase[c] = "leaving" /\ phase'[c] = "closed"
  BY <1>4 DEF Connect, CleanupIdentity, TypeOK
<1>5. \/ \E d \in Conns : \E ch : WriteResponse(d, phase[d], ch)
      \/ \E d \in Conns : SubscribeTasks(d) \/ CleanupSender(d) \/ Connect(d) \/ CleanupIdentity(d)
      \/ UNCHANGED phase
  BY DEF Next, HandlerStep, RouterStep, OrchestratorStep, ControllerStep, vars, handlerVars,
         Disconnect, Register, RegisterAgain, SendTask, FinishSend, FailSend, ReplyTask,
         DeliverEvent, Abort, RouterReady, RouteTask, RoutePush, Elapse, TimeoutScan,
         TimeoutFire, EvictStale
<1> QED BY <1>1, <1>2, <1>3, <1>4, <1>5

\* Senders change when a connection subscribes or leaves, under the uuid that it
\* has registered, and so for itself alone.
SenderSet(c, u)     == SubscribeTasks(c) /\ registered[c] = u /\ task_senders'[u] = c
SenderRemoved(c, u) == CleanupSender(c) /\ registered[c] = u /\ task_senders'[u] = None

LEMMA SenderStep ==
  ASSUME TypeOK, [Next]_vars, NEW u \in Uuids
  PROVE  \/ task_senders'[u] = task_senders[u]
         \/ \E c \in Conns : SenderSet(c, u) \/ SenderRemoved(c, u)
<1>1. ASSUME NEW c \in Conns, SubscribeTasks(c)
      PROVE  task_senders'[u] = task_senders[u] \/ SenderSet(c, u)
  BY <1>1 DEF SubscribeTasks, TypeOK, SenderSet
<1>2. ASSUME NEW c \in Conns, CleanupSender(c)
      PROVE  task_senders'[u] = task_senders[u] \/ SenderRemoved(c, u)
  BY <1>2 DEF CleanupSender, TypeOK, SenderRemoved
<1>3. \/ \E c \in Conns : SubscribeTasks(c) \/ CleanupSender(c)
      \/ UNCHANGED task_senders
  BY DEF Next, HandlerStep, RouterStep, OrchestratorStep, ControllerStep, vars,
         Connect, Disconnect, Register, RegisterAgain, SendTask, FinishSend, FailSend, ReplyTask,
         DeliverEvent, Abort, CleanupIdentity, RouterReady, RouteTask, RoutePush, Elapse,
         TimeoutScan, TimeoutFire, EvictStale
<1> QED BY <1>1, <1>2, <1>3

\* A uuid that a connection registers is one that nobody had.
LEMMA RegisteredStep ==
  ASSUME TypeOK, [Next]_vars, NEW c \in Conns
  PROVE  registered'[c] = registered[c] \/ owner[registered'[c]] = None
<1>1. ASSUME NEW d \in Conns, NEW u \in Uuids, AssignUuid(d, u)
      PROVE  registered'[c] = registered[c] \/ owner[registered'[c]] = None
  BY <1>1 DEF AssignUuid, TypeOK
<1>2. \/ \E d \in Conns, u \in Uuids : AssignUuid(d, u)
      \/ UNCHANGED registered
  BY DEF Next, HandlerStep, RouterStep, OrchestratorStep, ControllerStep, vars, handlerVars,
         Connect, Disconnect, Register, RegisterAgain, SubscribeTasks, SendTask,
         FinishSend, FailSend, ReplyTask, DeliverEvent, Abort, CleanupSender,
         CleanupIdentity,
         RouterReady, RouteTask, RoutePush, Elapse, TimeoutScan, TimeoutFire, EvictStale
<1> QED BY <1>1, <1>2

\* A connection in phase 2 always has a sender: no other connection's
\* subscription or cleanup touches the one it subscribed under.
THEOREM SubscribersStayReachable == Spec => []SubscribedStaysReachable
<1>1. Init => SubscribedStaysReachable
  BY DEF Init, SubscribedStaysReachable
<1>2. Inv /\ SubscribedStaysReachable /\ [Next]_vars => SubscribedStaysReachable'
  <2> SUFFICES ASSUME Inv, SubscribedStaysReachable, [Next]_vars,
                      NEW c \in Conns, phase'[c] = "phase2"
               PROVE  \E u \in Uuids : task_senders'[u] = c
    BY DEF SubscribedStaysReachable
  <2>1. TypeOK /\ SenderOwned /\ RegisteredOwned
    BY DEF Inv, Ownership
  <2>2. CASE SubscribeTasks(c)
    <3>1. registered[c] \in Uuids
      BY <2>1, <2>2 DEF SubscribeTasks, TypeOK
    <3>2. task_senders'[registered[c]] = c
      BY <2>1, <2>2, <3>1 DEF SubscribeTasks, TypeOK
    <3> QED BY <3>1, <3>2
  <2>3. CASE ~SubscribeTasks(c)
    <3>1. phase[c] = "phase2" /\ ~CleanupSender(c)
      BY <2>1, <2>3, PhaseStep DEF CleanupSender, TypeOK
    <3>2. PICK u \in Uuids : task_senders[u] = c
      BY <3>1 DEF SubscribedStaysReachable
    <3>3. owner[u] = c
      BY <2>1, <3>2 DEF SenderOwned, TypeOK
    <3>4. ASSUME NEW d \in Conns, SenderSet(d, u) \/ SenderRemoved(d, u)
          PROVE  d = c
      BY <2>1, <3>3, <3>4 DEF SenderSet, SenderRemoved, RegisteredOwned, TypeOK
    <3>5. task_senders'[u] = c
      BY <2>1, <2>3, <3>1, <3>2, <3>4, SenderStep DEF SenderSet, SenderRemoved
    <3> QED BY <3>5
  <2> QED BY <2>2, <2>3
<1> QED BY <1>1, <1>2, Invariance, PTL DEF Spec

\* A sender that outlives its receiver is of a handler that returned by the ? of
\* a failed write, or of an agent that registered again.
THEOREM DeadSendersHaveACause == Spec => []DeadSenderHasCause
<1>1. Init => DeadSenderHasCause
  BY DEF Init, DeadSenderHasCause
<1>2. Inv /\ Inv' /\ DeadSenderHasCause /\ [Next]_vars => DeadSenderHasCause'
  <2> SUFFICES ASSUME Inv, Inv', DeadSenderHasCause, [Next]_vars,
                      NEW u \in Uuids, NEW c \in Conns, task_senders'[u] = c,
                      phase'[c] # "phase2", phase'[c] # "aborted", registered'[c] = u
               PROVE  FALSE
    BY DEF DeadSenderHasCause, Inv, TypeOK
  <2>1. TypeOK /\ SenderOwned /\ RegisteredOwned
    BY DEF Inv, Ownership
  <2>2. ~SubscribeTasks(c)
    BY <2>1 DEF SubscribeTasks, WriteResponse, TypeOK
  <2>3. task_senders[u] = c
    BY <2>1, <2>2, SenderStep DEF SenderSet, SenderRemoved, TypeOK
  <2>4. registered[c] = u
    BY <2>1, <2>3, RegisteredStep DEF SenderOwned
  <2>5. phase[c] = "phase2" \/ phase[c] = "aborted"
    BY <2>3, <2>4 DEF DeadSenderHasCause
  <2>6. CleanupSender(c)
    BY <2>1, <2>2, <2>5, PhaseStep
  <2>7. task_senders'[u] = None
    BY <2>1, <2>4, <2>6 DEF CleanupSender, TypeOK
  <2> QED BY <2>7
<1>3. Inv /\ [Next]_vars => Inv'
  BY StepInv
<1> QED BY <1>1, <1>2, <1>3, Invariance, PTL DEF Spec

-----------------------------------------------------------------------------
(* Requests are in the ledger until they are answered. *)

Tracked(t) == pending_tasks[t] # None \/ answers[t] > 0

RoutedIsTracked == routing # None => Tracked(routing)

\* A record is taken out only to make a result.
LEMMA TrackedStable ==
  ASSUME TypeOK, Ownership, [Next]_vars, NEW t \in Tasks, Tracked(t)
  PROVE  Tracked(t)'
<1>1. ASSUME NEW s \in Tasks, RemoveRecord(s)
      PROVE  Tracked(t)'
  <2>1. answers[t] \in Nat
    BY DEF TypeOK
  <2> QED BY <1>1, <2>1 DEF RemoveRecord, TypeOK, Tracked
<1>2. ASSUME NEW s \in Tasks, NEW src \in Uuids \cup {Unknown}, InsertRecord(s, src), UNCHANGED answers
      PROVE  Tracked(t)'
  <2>1. [source_uuid |-> src, stale |-> FALSE] \in Record
    BY DEF Record
  <2>2. [source_uuid |-> src, stale |-> FALSE] # None
    BY <2>1
  <2> QED BY <1>2, <2>2 DEF InsertRecord, TypeOK, Tracked
<1>3. ASSUME NEW s \in Tasks, Elapse(s)
      PROVE  Tracked(t)'
  <2>1. pending_tasks[s] \in Record
    BY <1>3 DEF Elapse, TypeOK
  <2>2. [pending_tasks[s] EXCEPT !.stale = TRUE] \in Record
    BY <2>1 DEF Record
  <2>3. [pending_tasks[s] EXCEPT !.stale = TRUE] # None
    BY <2>2
  <2> QED BY <1>3, <2>3 DEF Elapse, TypeOK, Tracked, history
<1>4. ASSUME NEW c \in Conns, FinishSend(c)
      PROVE  Tracked(t)'
  <2>1. sending[c] \in Tasks /\ registered[c] \in Uuids
    BY <1>4 DEF FinishSend, TypeOK, Ownership, SendingRegistered
  <2>2. InsertRecord(sending[c], registered[c]) /\ UNCHANGED answers
    BY <1>4 DEF FinishSend, history
  <2> QED BY <1>2, <2>1, <2>2
<1>5. ASSUME NEW s \in Tasks, RouteTask(s)
      PROVE  Tracked(t)'
  <2>1. sent[s].source \in Uuids \cup {Unknown}
    BY <1>5 DEF RouteTask, TypeOK, Ownership, BusSent, Envelope
  <2>2. /\ UNCHANGED answers
        /\ InsertRecord(s, sent[s].source) \/ UNCHANGED pending_tasks
    BY <1>5 DEF RouteTask, history
  <2> QED BY <1>2, <2>1, <2>2 DEF Tracked
<1>6. \/ \E c \in Conns : FinishSend(c)
      \/ \E s \in Tasks : RouteTask(s) \/ Elapse(s) \/ RemoveRecord(s)
      \/ UNCHANGED <<pending_tasks, answers>>
  BY DEF Next, HandlerStep, RouterStep, OrchestratorStep, ControllerStep, vars, history, Connect,
         Disconnect, Register, RegisterAgain, SubscribeTasks, SendTask, FailSend, ReplyTask,
         DeliverEvent, Abort, CleanupSender, CleanupIdentity, RouterReady, RoutePush,
         TimeoutScan, TimeoutFire, EvictStale
<1> QED BY <1>1, <1>3, <1>4, <1>5, <1>6 DEF Tracked

LEMMA StepRoutedIsTracked ==
  ASSUME TypeOK, Ownership, RoutedIsTracked, [Next]_vars
  PROVE  RoutedIsTracked'
<1> SUFFICES ASSUME routing' # None
             PROVE  routing' \in Tasks /\ (pending_tasks'[routing'] # None \/ answers'[routing'] > 0)
  BY DEF RoutedIsTracked, Tracked
<1>1. CASE routing' = routing
  <2>1. PICK t \in Tasks : t = routing /\ Tracked(t)
    BY <1>1 DEF TypeOK, RoutedIsTracked
  <2>2. Tracked(t)'
    BY <2>1, TrackedStable
  <2> QED BY <1>1, <2>1, <2>2 DEF Tracked
<1>2. ASSUME NEW t \in Tasks, RouteTask(t), routing' # routing
      PROVE  routing' \in Tasks /\ pending_tasks'[routing'] # None
  <2>1. sent[t].source \in Uuids \cup {Unknown}
    BY <1>2 DEF RouteTask, TypeOK, Ownership, BusSent, Envelope
  <2>2. [source_uuid |-> sent[t].source, stale |-> FALSE] \in Record
    BY <2>1 DEF Record
  <2>3. routing' = t /\ InsertRecord(t, sent[t].source)
    BY <1>2 DEF RouteTask
  <2>4. [source_uuid |-> sent[t].source, stale |-> FALSE] # None
    BY <2>2
  <2> QED BY <2>3, <2>4 DEF InsertRecord, TypeOK
<1>3. \/ \E t \in Tasks : RouteTask(t)
      \/ routing' \in {routing, None}
  BY DEF Next, HandlerStep, RouterStep, OrchestratorStep, ControllerStep, vars, busVars,
         Connect, Disconnect, Register, RegisterAgain, SubscribeTasks, SendTask,
         PublishEnvelope, FinishSend, FailSend, ReplyTask, DeliverEvent, Abort, CleanupSender,
         CleanupIdentity, RouterReady, RoutePush, Elapse, TimeoutScan, TimeoutFire, EvictStale
<1> QED BY <1>1, <1>2, <1>3

\* A client is asked what its channel held.
LEMMA AskedStep ==
  ASSUME TypeOK, [Next]_vars, NEW c \in Conns, NEW t \in Tasks, t \in asked'[c]
  PROVE  t \in asked[c] \/ \E i \in 1 .. Len(chan[c]) : chan[c][i] = Request(t)
<1>1. ASSUME NEW d \in Conns, DeliverEvent(d)
      PROVE  t \in asked[c] \/ \E i \in 1 .. Len(chan[c]) : chan[c][i] = Request(t)
  <2>1. chan[d] \in Seq(Event) /\ chan[d] # << >>
    BY <1>1 DEF DeliverEvent, TypeOK
  <2>2. Head(chan[d]) \in Event /\ 1 \in 1 .. Len(chan[d]) /\ Head(chan[d]) = chan[d][1]
    BY <2>1, HeadTailProperties
  <2>3. CASE Head(chan[d]).event = "task_request" /\ c = d /\ t = Head(chan[d]).task_id
    BY <2>2, <2>3 DEF Event, Request
  <2>4. \/ UNCHANGED asked
        \/ /\ Head(chan[d]).event = "task_request"
           /\ asked' = [asked EXCEPT ![d] = @ \cup {Head(chan[d]).task_id}]
    BY <1>1 DEF DeliverEvent
  <2> QED BY <2>3, <2>4 DEF TypeOK
<1>2. \/ \E d \in Conns : DeliverEvent(d)
      \/ UNCHANGED asked
  BY DEF Next, HandlerStep, RouterStep, OrchestratorStep, ControllerStep, vars, history,
         Connect, Disconnect, Register, RegisterAgain, SubscribeTasks, SendTask, FinishSend,
         FailSend, ReplyTask, Abort, CleanupSender, CleanupIdentity, RouterReady, RouteTask,
         RoutePush, Elapse, TimeoutScan, TimeoutFire, EvictStale
<1> QED BY <1>1, <1>2

\* When the router pushes a request it has just written a record of the task, and
\* the record goes only when a result is made: the agent's reply finds a record,
\* or the task has been answered already.
THEOREM RequestsAreTracked == Spec => []RequestedIsTracked
<1>1. Init => RoutedIsTracked /\ RequestedIsTracked
  <2>1. ASSUME Init, NEW c \in Conns
        PROVE  chan[c] = << >> /\ asked[c] = {}
    BY <2>1 DEF Init
  <2> QED BY <2>1 DEF Init, RoutedIsTracked, RequestedIsTracked
<1>2. Inv /\ RoutedIsTracked /\ RequestedIsTracked /\ [Next]_vars
        => RoutedIsTracked' /\ RequestedIsTracked'
  <2> SUFFICES ASSUME Inv, RoutedIsTracked, RequestedIsTracked, [Next]_vars
               PROVE  RoutedIsTracked' /\ RequestedIsTracked'
    OBVIOUS
  <2>1. TypeOK /\ Ownership
    BY DEF Inv
  <2>2. ASSUME NEW c \in Conns, NEW t \in Tasks,
               t \in asked[c] \/ \E i \in 1 .. Len(chan[c]) : chan[c][i] = Request(t)
        PROVE  Tracked(t)'
    <3>1. Tracked(t)
      BY <2>2 DEF RequestedIsTracked, Tracked
    <3> QED BY <2>1, <3>1, TrackedStable
  <2>3. ASSUME NEW c \in Conns, NEW t \in Tasks, NewEvent(c, Request(t))
        PROVE  Tracked(t)'
    <3>1. routing # None /\ Request(routing) = Request(t)
      BY <2>3 DEF NewEvent, Request, Result
    <3>2. routing = t
      BY <3>1 DEF Request
    <3>3. Tracked(t)
      BY <3>1, <3>2 DEF RoutedIsTracked
    <3> QED BY <2>1, <3>3, TrackedStable
  <2>4. ASSUME NEW c \in Conns, NEW t \in Tasks, NEW i \in 1 .. Len(chan'[c]),
               chan'[c][i] = Request(t)
        PROVE  Tracked(t)'
    BY <2>1, <2>2, <2>3, <2>4, ChanStep
  <2>5. ASSUME NEW c \in Conns, NEW t \in Tasks, t \in asked'[c]
        PROVE  Tracked(t)'
    BY <2>1, <2>2, <2>5, AskedStep
  <2>6. ASSUME NEW c \in Conns, NEW t \in Tasks,
               t \in asked'[c] \/ \E i \in 1 .. Len(chan'[c]) : chan'[c][i] = Request(t)'
        PROVE  pending_tasks'[t] # None \/ answers'[t] > 0
    BY <2>4, <2>5, <2>6 DEF Tracked, Request
  <2>7. RequestedIsTracked'
    BY <2>6 DEF RequestedIsTracked
  <2> QED BY <2>1, <2>7, StepRoutedIsTracked
<1> QED BY <1>1, <1>2, Invariance, PTL DEF Spec

-----------------------------------------------------------------------------
(* The daemon implements TaskPromise. *)

Issued      == {t \in Tasks : sent[t] # None}
Dispatching == {t \in Tasks : \E c \in Conns : sending[c] = t}
Ledger      == {t \in Tasks : pending_tasks[t] # None}

\* SendTask and RegisterAgain publish.
LEMMA PublishImplements ==
  ASSUME TypeOK, Ownership, NEW c \in Conns, NEW t \in Tasks, NEW u \in Uuids, NEW known,
         NEW tgt \in Target, PublishEnvelope(c, t, u, known, tgt), sending[c] = None,
         UNCHANGED <<pending_tasks, answers, refused>>
  PROVE  Promise!Publish(t)
<1>1. /\ sent[t] = None /\ sent'[t] # None
      /\ \A s \in Tasks : s # t => sent'[s] = sent[s]
      /\ sending' = [sending EXCEPT ![c] = t]
  BY PublishFacts
<1>2. t \notin Issued /\ Issued' = Issued \cup {t}
  BY <1>1 DEF Issued
<1>3. \A d \in Conns : sending'[d] = IF d = c THEN t ELSE sending[d]
  BY <1>1 DEF TypeOK
<1>4. Dispatching' = Dispatching \cup {t}
  <2>1. t \in Dispatching'
    BY <1>3 DEF Dispatching
  <2>2. \A s \in Tasks : s # t => (s \in Dispatching' <=> s \in Dispatching)
    BY <1>3 DEF Dispatching
  <2> QED BY <2>1, <2>2 DEF Dispatching
<1>5. bus' \in {bus, bus \cup {t}}
  BY DEF PublishEnvelope
<1>6. Ledger' = Ledger
  BY DEF Ledger
<1> QED BY <1>2, <1>4, <1>5, <1>6 DEF Promise!Publish, Issued, Dispatching, Ledger

\* A handler that returns from publish_envelope, with or without an error, is
\* the only one that dispatches its task.
LEMMA DispatchEnds ==
  ASSUME TypeOK, Ownership, NEW c \in Conns, sending[c] # None,
         sending' = [sending EXCEPT ![c] = None]
  PROVE  sending[c] \in Dispatching /\ Dispatching' = Dispatching \ {sending[c]}
<1>1. sending[c] \in Tasks
  BY DEF TypeOK
<1>2. \A d \in Conns : sending'[d] = IF d = c THEN None ELSE sending[d]
  BY DEF TypeOK
<1>3. \A d \in Conns : d # c => sending[d] # sending[c]
  BY DEF Ownership, SendingOwned
<1>4. ASSUME NEW s \in Tasks
      PROVE  (\E d \in Conns : sending'[d] = s)
               <=> (s # sending[c] /\ \E d \in Conns : sending[d] = s)
  BY <1>2, <1>3
<1>5. Dispatching' = Dispatching \ {sending[c]}
  BY <1>4 DEF Dispatching
<1> QED BY <1>1, <1>5 DEF Dispatching

LEMMA FinishImplements ==
  ASSUME TypeOK, Ownership, NEW c \in Conns, NEW t \in Tasks, sending[c] = t, FinishSend(c)
  PROVE  Promise!RecordAsIssuer(t)
<1>1. sending[c] \in Dispatching /\ Dispatching' = Dispatching \ {sending[c]}
  BY DispatchEnds DEF FinishSend
<1>2. sending[c] \in Tasks /\ registered[c] \in Uuids
  BY DEF FinishSend, TypeOK, Ownership, SendingRegistered
<1>3. [source_uuid |-> registered[c], stale |-> FALSE] \in Record
  BY <1>2 DEF Record
<1>4. [source_uuid |-> registered[c], stale |-> FALSE] # None
  BY <1>3
<1>5. \A s \in Tasks : pending_tasks'[s] =
        IF s = sending[c] THEN [source_uuid |-> registered[c], stale |-> FALSE]
        ELSE pending_tasks[s]
  BY DEF FinishSend, InsertRecord, TypeOK
<1>6. Ledger' = Ledger \cup {sending[c]}
  BY <1>2, <1>4, <1>5 DEF Ledger
<1>7. UNCHANGED <<sent, bus, answers, refused>>
  BY DEF FinishSend, busVars, history
<1> QED
  BY <1>1, <1>6, <1>7 DEF Promise!RecordAsIssuer, Dispatching, Ledger

LEMMA FailImplements ==
  ASSUME TypeOK, Ownership, NEW c \in Conns, NEW t \in Tasks, sending[c] = t, FailSend(c)
  PROVE  Promise!Refuse(t)
<1>1. sending[c] \in Dispatching /\ Dispatching' = Dispatching \ {sending[c]}
  BY DispatchEnds DEF FailSend
<1>2. refused' = refused \cup {sending[c]} /\ UNCHANGED <<sent, bus, answers, pending_tasks>>
  BY DEF FailSend, busVars
<1> QED BY <1>1, <1>2 DEF Promise!Refuse, Dispatching

LEMMA RouteImplements ==
  ASSUME TypeOK, Ownership, NEW t \in Tasks, RouteTask(t)
  PROVE  Promise!RecordAsRouter(t)
<1>1. sent[t].source \in Uuids \cup {Unknown}
  BY DEF RouteTask, TypeOK, Ownership, BusSent, Envelope
<1>2. [source_uuid |-> sent[t].source, stale |-> FALSE] \in Record
  BY <1>1 DEF Record
<1>3. [source_uuid |-> sent[t].source, stale |-> FALSE] # None
  BY <1>2
<1>4. InsertRecord(t, sent[t].source) \/ UNCHANGED pending_tasks
  BY DEF RouteTask
<1>5. Ledger' \in {Ledger, Ledger \cup {t}}
  <2>1. CASE UNCHANGED pending_tasks
    BY <2>1 DEF Ledger
  <2>2. CASE InsertRecord(t, sent[t].source)
    <3>1. \A s \in Tasks : pending_tasks'[s] =
            IF s = t THEN [source_uuid |-> sent[t].source, stale |-> FALSE]
            ELSE pending_tasks[s]
      BY <2>2 DEF InsertRecord, TypeOK
    <3> QED BY <1>3, <3>1 DEF Ledger
  <2> QED BY <1>4, <2>1, <2>2
<1>6. /\ t \in bus /\ bus' = bus \ {t}
      /\ UNCHANGED <<sent, sending, answers, refused>>
  BY DEF RouteTask, handlerVars, history
<1> QED BY <1>5, <1>6 DEF Promise!RecordAsRouter, Ledger

LEMMA RemoveImplements ==
  ASSUME TypeOK, NEW t \in Tasks, RemoveRecord(t), UNCHANGED <<sent, sending, bus, refused>>
  PROVE  Promise!Resolve(t) \/ UNCHANGED <<Issued, Dispatching, bus, Ledger, answers, refused>>
<1>1. \A s \in Tasks : pending_tasks'[s] = IF s = t THEN None ELSE pending_tasks[s]
  BY DEF RemoveRecord, TypeOK
<1>2. Ledger' = Ledger \ {t}
  BY <1>1 DEF Ledger
<1>3. CASE pending_tasks[t] = None
  <2>1. t \notin Ledger /\ UNCHANGED answers
    BY <1>3 DEF RemoveRecord, Ledger
  <2> QED BY <1>2, <2>1 DEF Issued, Dispatching
<1>4. CASE pending_tasks[t] # None
  <2>1. t \in Ledger /\ answers' = [answers EXCEPT ![t] = @ + 1]
    BY <1>4 DEF RemoveRecord, Ledger
  <2> QED BY <1>2, <2>1 DEF Promise!Resolve, Ledger
<1> QED BY <1>3, <1>4

LEMMA StepImplements ==
  ASSUME TypeOK, Ownership, [Next]_vars
  PROVE  Promise!PromiseNext \/ UNCHANGED <<Issued, Dispatching, bus, Ledger, answers, refused>>
<1>1. ASSUME NEW c \in Conns, NEW u \in Uuids, NEW t \in Tasks, RegisterAgain(c, u, t)
      PROVE  Promise!Publish(t)
  <2>1. [kind |-> "Broadcast", agents |-> {}] \in Target
    BY DEF Target
  <2>2. /\ PublishEnvelope(c, t, u, identities', [kind |-> "Broadcast", agents |-> {}])
        /\ sending[c] = None
        /\ UNCHANGED <<pending_tasks, answers, refused>>
    BY <1>1 DEF RegisterAgain, AssignUuid, Waiting
  <2> QED BY <2>1, <2>2, PublishImplements
<1>2. ASSUME NEW c \in Conns, NEW t \in Tasks, SendTask(c, t)
      PROVE  Promise!Publish(t)
  <2>1. PICK tgt \in [kind : {"Unicast"}, agents : {{u} : u \in Uuids}]
                       \cup [kind : {"Broadcast"}, agents : {{}}] :
               PublishEnvelope(c, t, registered[c], identities, tgt)
    BY <1>2 DEF SendTask
  <2>2. tgt \in Target
    BY DEF Target
  <2>3. /\ registered[c] \in Uuids /\ sending[c] = None
        /\ UNCHANGED <<pending_tasks, answers, refused>>
    BY <1>2 DEF SendTask, Waiting, TypeOK, history
  <2> QED BY <2>1, <2>2, <2>3, PublishImplements
<1>3. ASSUME NEW c \in Conns, FinishSend(c) \/ FailSend(c)
      PROVE  Promise!PromiseNext
  <2>1. PICK t \in Tasks : sending[c] = t
    BY <1>3 DEF FinishSend, FailSend, TypeOK
  <2>2. Promise!RecordAsIssuer(t) \/ Promise!Refuse(t)
    BY <1>3, <2>1, FinishImplements, FailImplements
  <2> QED BY <2>1, <2>2 DEF Promise!PromiseNext
<1>4. ASSUME NEW t \in Tasks, Elapse(t)
      PROVE  UNCHANGED <<Issued, Dispatching, bus, Ledger, answers, refused>>
  <2>1. pending_tasks[t] \in Record /\ pending_tasks[t] # None
    BY <1>4 DEF Elapse, TypeOK
  <2>2. [pending_tasks[t] EXCEPT !.stale = TRUE] \in Record
    BY <2>1 DEF Record
  <2>3. [pending_tasks[t] EXCEPT !.stale = TRUE] # None
    BY <2>2
  <2>4. \A s \in Tasks : pending_tasks'[s] =
          IF s = t THEN [pending_tasks[t] EXCEPT !.stale = TRUE] ELSE pending_tasks[s]
    BY <1>4 DEF Elapse, TypeOK
  <2>5. Ledger' = Ledger
    BY <2>1, <2>3, <2>4 DEF Ledger
  <2>6. UNCHANGED <<sent, sending, bus, answers, refused>>
    BY <1>4 DEF Elapse, handlerVars, busVars, history
  <2> QED BY <2>5, <2>6 DEF Issued, Dispatching
<1>5. \/ \E c \in Conns, u \in Uuids, t \in Tasks : RegisterAgain(c, u, t)
      \/ \E c \in Conns, t \in Tasks : SendTask(c, t)
      \/ \E c \in Conns : FinishSend(c) \/ FailSend(c)
      \/ \E t \in Tasks : RouteTask(t) \/ Elapse(t)
      \/ \E t \in Tasks : RemoveRecord(t) /\ UNCHANGED <<sent, sending, bus, refused>>
      \/ UNCHANGED <<sent, sending, bus, pending_tasks, answers, refused>>
  BY DEF Next, HandlerStep, RouterStep, OrchestratorStep, ControllerStep, vars, handlerVars,
         busVars, history, Connect, Disconnect, Register, SubscribeTasks, ReplyTask,
         DeliverEvent, Abort, CleanupSender, CleanupIdentity, RouterReady, RoutePush,
         TimeoutScan, TimeoutFire, EvictStale
<1>6. CASE UNCHANGED <<sent, sending, bus, pending_tasks, answers, refused>>
  BY <1>6 DEF Issued, Dispatching, Ledger
<1> QED
  BY <1>1, <1>2, <1>3, <1>4, <1>5, <1>6, RouteImplements, RemoveImplements
  DEF Promise!PromiseNext

\* Every behaviour of the daemon is one of TaskPromise: whatever the handlers,
\* the router and the orchestrator do to the ledger in which order, a result is
\* made only by taking a record out, and only the handler that published the
\* task and the router put one in, each once.
THEOREM DaemonKeepsPromise == Spec => Promise!PromiseSpec
<1>1. Init => Promise!PromiseInit
  BY DEF Init, Promise!PromiseInit
<1>2. Inv /\ [Next]_vars => [Promise!PromiseNext]_(Promise!promiseVars)
  BY StepImplements DEF Inv, Promise!promiseVars, Issued, Dispatching, Ledger
<1> QED BY <1>1, <1>2, Invariance, PTL DEF Spec, Promise!PromiseSpec

-----------------------------------------------------------------------------
(* No task yields more than two results. *)

Counted(t, set) == IF t \in set THEN 1 ELSE 0

\* The results made for t, the record that is open and the ones to be written.
Spent(t) == answers[t] + Counted(t, Ledger) + Counted(t, Dispatching) + Counted(t, bus)

UnsentIsUnanswered == \A t \in Tasks : t \notin Issued => answers[t] = 0

SpentInv == (\A t \in Tasks : Spent(t) <= 2) /\ UnsentIsUnanswered

LEMMA SpentIsBudget ==
  ASSUME TypeOK
  PROVE  AnswerBudget <=> \A t \in Tasks : Spent(t) <= 2
<1> SUFFICES ASSUME NEW t \in Tasks
             PROVE  answers[t] + Open(t) + Credits(t) = Spent(t)
  BY DEF AnswerBudget
<1>1. answers[t] \in Nat
  BY DEF TypeOK
<1>2. Open(t) = Counted(t, Ledger) /\ Open(t) \in Nat
  BY DEF Open, Counted, Ledger
<1>3. Credits(t) = Counted(t, Dispatching) + Counted(t, bus)
  BY DEF Credits, Counted, Dispatching
<1>4. Counted(t, Dispatching) \in Nat /\ Counted(t, bus) \in Nat
  BY DEF Counted
<1> QED BY <1>1, <1>2, <1>3, <1>4 DEF Spent

\* What has not been published is neither recorded nor to be recorded.
LEMMA UnsentIsNowhere ==
  ASSUME TypeOK, Ownership, NEW t \in Tasks, t \notin Issued
  PROVE  t \notin Ledger /\ t \notin Dispatching /\ t \notin bus
  BY DEF Ownership, RecordOwned, SendingOwned, BusSent, Issued, Ledger, Dispatching

\* A step of TaskPromise spends nothing on a task, but for its publication, which
\* grants it two records.
LEMMA SpentStep ==
  ASSUME TypeOK, Ownership, UnsentIsUnanswered, [Next]_vars,
         NEW t \in Tasks, Spent(t) <= 2
  PROVE  Spent(t)' <= 2 /\ (t \notin Issued' => answers'[t] = 0)
<1> USE DEF Counted
<1>1. answers \in [Tasks -> Nat]
  BY DEF TypeOK
<1>2. ASSUME NEW s \in Tasks, Promise!Publish(s)
      PROVE  Spent(t)' <= 2 /\ (t \notin Issued' => answers'[t] = 0)
  <2>1. /\ s \notin Issued /\ Issued' = Issued \cup {s}
        /\ Dispatching' = Dispatching \cup {s}
        /\ bus' \in {bus, bus \cup {s}}
        /\ UNCHANGED <<Ledger, answers>>
    BY <1>2 DEF Promise!Publish, Issued, Dispatching, Ledger
  <2>2. CASE s = t
    <3>1. answers[t] = 0 /\ t \notin Ledger
      BY <2>1, <2>2, UnsentIsNowhere DEF UnsentIsUnanswered
    <3> QED BY <1>1, <2>1, <3>1 DEF Spent
  <2>3. CASE s # t
    BY <1>1, <2>1, <2>3 DEF Spent, UnsentIsUnanswered
  <2> QED BY <2>2, <2>3
<1>3. ASSUME NEW s \in Tasks, Promise!RecordAsIssuer(s)
      PROVE  Spent(t)' <= 2 /\ (t \notin Issued' => answers'[t] = 0)
  <2>1. /\ s \in Dispatching /\ Dispatching' = Dispatching \ {s}
        /\ Ledger' = Ledger \cup {s}
        /\ UNCHANGED <<Issued, bus, answers>>
    BY <1>3 DEF Promise!RecordAsIssuer, Issued, Dispatching, Ledger
  <2> QED BY <1>1, <2>1 DEF Spent, UnsentIsUnanswered
<1>4. ASSUME NEW s \in Tasks, Promise!Refuse(s)
      PROVE  Spent(t)' <= 2 /\ (t \notin Issued' => answers'[t] = 0)
  <2>1. /\ Dispatching' = Dispatching \ {s}
        /\ UNCHANGED <<Issued, Ledger, bus, answers>>
    BY <1>4 DEF Promise!Refuse, Issued, Dispatching, Ledger
  <2> QED BY <1>1, <2>1 DEF Spent, UnsentIsUnanswered
<1>5. ASSUME NEW s \in Tasks, Promise!RecordAsRouter(s)
      PROVE  Spent(t)' <= 2 /\ (t \notin Issued' => answers'[t] = 0)
  <2>1. /\ s \in bus /\ bus' = bus \ {s}
        /\ Ledger' \in {Ledger, Ledger \cup {s}}
        /\ UNCHANGED <<Issued, Dispatching, answers>>
    BY <1>5 DEF Promise!RecordAsRouter, Issued, Dispatching, Ledger
  <2> QED BY <1>1, <2>1 DEF Spent, UnsentIsUnanswered
<1>6. ASSUME NEW s \in Tasks, Promise!Resolve(s)
      PROVE  Spent(t)' <= 2 /\ (t \notin Issued' => answers'[t] = 0)
  <2>1. /\ s \in Ledger /\ Ledger' = Ledger \ {s}
        /\ answers' = [answers EXCEPT ![s] = @ + 1]
        /\ UNCHANGED <<Issued, Dispatching, bus>>
    BY <1>6 DEF Promise!Resolve, Issued, Dispatching, Ledger
  <2>2. s \in Issued
    BY <2>1, UnsentIsNowhere
  <2> QED BY <1>1, <2>1, <2>2 DEF Spent, UnsentIsUnanswered
<1>7. ASSUME UNCHANGED <<Issued, Dispatching, bus, Ledger, answers, refused>>
      PROVE  Spent(t)' <= 2 /\ (t \notin Issued' => answers'[t] = 0)
  BY <1>7 DEF Spent, UnsentIsUnanswered
<1> QED
  BY <1>2, <1>3, <1>4, <1>5, <1>6, <1>7, StepImplements DEF Promise!PromiseNext

\* At most one record is written by the handler and one by the router, and each
\* is taken out once: replies, timeouts and overwritten records in any order
\* never make a third result.
THEOREM AnswersAreBounded == Spec => []AnswerBudget
<1>1. Init => SpentInv
  <2>1. ASSUME Init, NEW t \in Tasks
        PROVE  answers[t] = 0 /\ t \notin Ledger /\ t \notin Dispatching /\ t \notin bus
    BY <2>1 DEF Init, Ledger, Dispatching
  <2> QED BY <2>1 DEF Spent, Counted, SpentInv, UnsentIsUnanswered
<1>2. Inv /\ SpentInv /\ [Next]_vars => SpentInv'
  <2> SUFFICES ASSUME Inv, SpentInv, [Next]_vars
               PROVE  SpentInv'
    OBVIOUS
  <2>1. ASSUME NEW t \in Tasks
        PROVE  Spent(t)' <= 2 /\ (t \notin Issued' => answers'[t] = 0)
    BY SpentStep DEF Inv, SpentInv
  <2> QED BY <2>1 DEF SpentInv, UnsentIsUnanswered
<1>3. Inv /\ SpentInv => AnswerBudget
  BY SpentIsBudget DEF Inv, SpentInv
<1> QED BY <1>1, <1>2, <1>3, Invariance, PTL DEF Spec

=============================================================================
