----------------------------- MODULE TrafficProofs -----------------------------
(***************************************************************************)
(* Theorems about Traffic, for any tasks, however they are sent, and any   *)
(* workers on any nodes, whatever each answers.                            *)
(***************************************************************************)
EXTENDS Traffic, FiniteSetTheorems, SequenceTheorems, TLAPS

USE TrafficAssumption

\* The tasks sent on the node of an agent.
Local(a) == {t \in Tasks : Home[t] = Home[a]}
LocalLine == [kind : {"task_request", "answer"}, task : Local(Listener)]
Word == {"reply", "timeout", "answer"}

\* Every task in the hands of an agent was sent on its node.
Placed ==
  /\ asker \in [Tasks -> {"new", "sent", "subscribed", "done", "told", "gave_up", "closed"}]
  /\ inbox \in [Tasks -> Seq(Word)]
  /\ routing \subseteq Local(Listener)
  /\ DOMAIN in_hand = Workers
  /\ \A w \in Workers : in_hand[w] \in Seq(Local(w))
  /\ task \in [Tasks -> {"none", "pending", "replied", "timed_out"}]
  /\ lines \in Seq(LocalLine)
  /\ requested \in Seq(Local(Listener))
  /\ pushed \subseteq Tasks /\ refused \subseteq Tasks /\ late \subseteq Tasks

-----------------------------------------------------------------------------
(* Where tasks are. *)

LEMMA InitPlaced == Init => Placed
<1> SUFFICES ASSUME Init
             PROVE  Placed
  OBVIOUS
<1>1. \A w \in Workers : in_hand[w] \in Seq(Local(w))
  BY DEF Init
<1> QED BY <1>1 DEF Init, Placed

LEMMA RequestPlaced ==
  ASSUME Placed, NEW t \in Tasks, PublishRequest(t)
  PROVE  /\ routing' \subseteq Local(Listener)
         /\ DOMAIN in_hand' = Workers
         /\ \A w \in Workers : in_hand'[w] \in Seq(Local(w))
<1>1. routing' \subseteq Local(Listener)
  BY DEF PublishRequest, Placed, Local
<1>2. ASSUME NEW w \in Workers
      PROVE  in_hand'[w] \in Seq(Local(w))
  <2>1. in_hand[w] \in Seq(Local(w))
    BY DEF Placed
  <2>2. CASE w \in WillAnswer(t)
    <3>1. t \in Local(w)
      BY <2>2 DEF WillAnswer, Near, Local
    <3> QED BY <2>1, <2>2, <3>1, AppendProperties DEF PublishRequest
  <2>3. CASE w \notin WillAnswer(t)
    BY <2>1, <2>3 DEF PublishRequest
  <2> QED BY <2>2, <2>3
<1> QED BY <1>1, <1>2 DEF PublishRequest

LEMMA AppendedWord ==
  ASSUME Placed, NEW t \in Tasks, NEW r \in Word
  PROVE  /\ Append(inbox[t], r) \in Seq(Word)
         /\ [inbox EXCEPT ![t] = Append(@, r)] \in [Tasks -> Seq(Word)]
<1>1. Append(inbox[t], r) \in Seq(Word)
  BY AppendProperties DEF Placed
<1> QED BY <1>1 DEF Placed

LEMMA HeadInHand ==
  ASSUME Placed, NEW w \in Workers, in_hand[w] # << >>
  PROVE  Head(in_hand[w]) \in Local(w) /\ Tail(in_hand[w]) \in Seq(Local(w))
  BY HeadTailProperties DEF Placed

LEMMA StepPlaced == Placed /\ [Next]_vars => Placed'
<1> SUFFICES ASSUME Placed, [Next]_vars
             PROVE  Placed'
  OBVIOUS
<1>1. ASSUME NEW t \in Tasks, Send(t)
      PROVE  Placed'
  <2>1. \/ PublishRequest(t)
        \/ UNCHANGED bus
    BY <1>1 DEF Send
  <2>2. /\ routing' \subseteq Local(Listener)
        /\ DOMAIN in_hand' = Workers
        /\ \A w \in Workers : in_hand'[w] \in Seq(Local(w))
    BY <2>1, RequestPlaced DEF bus, Placed
  <2>3. /\ task' \in [Tasks -> {"none", "pending", "replied", "timed_out"}]
        /\ refused' \subseteq Tasks
    BY <1>1 DEF Send, Placed
  <2> QED BY <1>1, <2>2, <2>3 DEF Send, listens, Placed
<1>2. ASSUME NEW t \in Tasks, Subscribe(t)
      PROVE  Placed'
  BY <1>2 DEF Subscribe, bus, ledger, listens, Placed
<1>3. ASSUME NEW t \in Tasks, RunScenario(t)
      PROVE  Placed'
  BY <1>3, RequestPlaced DEF RunScenario, ledger, listens, Placed
<1>4. ASSUME NEW t \in Tasks, Inject(t)
      PROVE  Placed'
  BY <1>4, RequestPlaced DEF Inject, ledger, listens, Placed
<1>5. ASSUME NEW t \in Tasks, Told(t)
      PROVE  Placed'
  <2>1. Tail(inbox[t]) \in Seq(Word)
    BY <1>5, HeadTailProperties DEF Told, Placed
  <2> QED BY <1>5, <2>1 DEF Told, bus, ledger, listens, Placed
<1>6. ASSUME NEW t \in Tasks, GiveUp(t) \/ ConnectionClosed(t)
      PROVE  Placed'
  BY <1>6 DEF GiveUp, ConnectionClosed, bus, ledger, listens, Placed
<1>7. ASSUME NEW t \in Tasks, Route(t)
      PROVE  Placed'
  <2>1. Request(t) \in LocalLine
    BY <1>7 DEF Route, Placed, Request, LocalLine
  <2>2. lines' \in Seq(LocalLine)
    <3>1. Append(lines, Request(t)) \in Seq(LocalLine)
      BY <2>1, AppendProperties DEF Placed
    <3>2. lines' = Append(lines, Request(t)) \/ lines' = lines
      BY <1>7 DEF Route
    <3>3. lines \in Seq(LocalLine)
      BY DEF Placed
    <3> QED BY <3>1, <3>2, <3>3
  <2>3. task' \in [Tasks -> {"none", "pending", "replied", "timed_out"}]
    <3>1. task' = [task EXCEPT ![t] = "pending"] \/ task' = task
      BY <1>7 DEF Route
    <3> QED BY <3>1 DEF Placed
  <2>4. routing' \subseteq Local(Listener) /\ pushed' \subseteq Tasks
    BY <1>7 DEF Route, Placed
  <2>5. UNCHANGED <<asker, inbox, refused, late, in_hand, requested>>
    BY <1>7 DEF Route, asks
  <2> QED BY <2>2, <2>3, <2>4, <2>5 DEF Placed
<1>8. ASSUME NEW t \in Tasks, TimeOut(t)
      PROVE  Placed'
  <2>1. inbox' \in [Tasks -> Seq(Word)]
    BY <1>8, AppendedWord DEF TimeOut, PushIf, Placed, Word
  <2> QED BY <1>8, <2>1 DEF TimeOut, bus, listens, Placed
<1>9. ASSUME NEW t \in Tasks, ReadRequest(t)
      PROVE  Placed'
  <2>1. Head(lines) \in LocalLine /\ Tail(lines) \in Seq(LocalLine)
    BY <1>9, HeadTailProperties DEF ReadRequest, Placed
  <2>2. t \in Local(Listener)
    BY <1>9, <2>1 DEF ReadRequest, Request, LocalLine
  <2>3. Append(requested, t) \in Seq(Local(Listener))
    BY <2>2, AppendProperties DEF Placed
  <2> QED BY <1>9, <2>1, <2>3 DEF ReadRequest, asks, bus, ledger, Placed
<1>10. ASSUME NEW w \in Workers, Answer(w)
       PROVE  Placed'
  <2> DEFINE t == Head(in_hand[w])
  <2>1. t \in Local(w) /\ t \in Tasks /\ Tail(in_hand[w]) \in Seq(Local(w))
    BY <1>10, HeadInHand DEF Answer, Local
  <2>2. inbox' \in [Tasks -> Seq(Word)]
    BY <1>10, <2>1, AppendedWord DEF Answer, Word, Placed
  <2>3. DOMAIN in_hand' = Workers /\ \A x \in Workers : in_hand'[x] \in Seq(Local(x))
    BY <1>10, <2>1 DEF Answer, Placed
  <2> QED BY <1>10, <2>2, <2>3 DEF Answer, ledger, listens, Placed
<1>11. CASE TakeReply
  <2> DEFINE t == Head(requested)
  <2>1. t \in Local(Listener) /\ t \in Tasks /\ Tail(requested) \in Seq(Local(Listener))
    BY <1>11, HeadTailProperties DEF TakeReply, Placed, Local
  <2>2. inbox' \in [Tasks -> Seq(Word)]
    <3>1. \/ inbox' = [inbox EXCEPT ![t] = Append(@, "reply")]
          \/ inbox' = [inbox EXCEPT ![t] = Append(@, "answer")]
          \/ inbox' = inbox
      BY <1>11 DEF TakeReply, PushIf
    <3>2. /\ [inbox EXCEPT ![t] = Append(@, "reply")] \in [Tasks -> Seq(Word)]
          /\ [inbox EXCEPT ![t] = Append(@, "answer")] \in [Tasks -> Seq(Word)]
      BY <2>1, AppendedWord DEF Word
    <3> QED BY <3>1, <3>2 DEF Placed
  <2>3. lines' \in Seq(LocalLine)
    <3>1. Reply(t) \in LocalLine
      BY <2>1 DEF Reply, LocalLine
    <3> QED BY <1>11, <3>1, AppendProperties DEF TakeReply, Placed
  <2>4. task' \in [Tasks -> {"none", "pending", "replied", "timed_out"}]
    BY <1>11, <2>1 DEF TakeReply, Placed
  <2> QED BY <1>11, <2>1, <2>2, <2>3, <2>4 DEF TakeReply, bus, Placed
<1>12. CASE ReadAnswer \/ SkipLine
  <2>1. Tail(lines) \in Seq(LocalLine)
    BY <1>12, HeadTailProperties DEF ReadAnswer, SkipLine, Placed
  <2> QED BY <1>12, <2>1 DEF ReadAnswer, SkipLine, asks, bus, ledger, Placed
<1>13. ASSUME NEW h, Stop(h)
       PROVE  Placed'
  <2>1. \A t \in Tasks : inbox'[t] \in Seq(Word)
    BY <1>13 DEF Stop, Placed
  <2>2. inbox' \in [Tasks -> Seq(Word)]
    BY <1>13, <2>1 DEF Stop
  <2>3. task' \in [Tasks -> {"none", "pending", "replied", "timed_out"}]
    BY <1>13 DEF Stop, Placed
  <2>4. lines' \in Seq(LocalLine)
    <3>1. \A n \in 0 .. Len(lines) : SubSeq(lines, 1, n) \in Seq(LocalLine)
      BY SubSeqProperties DEF Placed
    <3>2. lines' = lines \/ \E n \in 0 .. Len(lines) : lines' = SubSeq(lines, 1, n)
      BY <1>13 DEF Stop
    <3>3. lines \in Seq(LocalLine)
      BY DEF Placed
    <3> QED BY <3>1, <3>2, <3>3
  <2>5. routing' \subseteq Local(Listener) /\ requested' \in Seq(Local(Listener))
    <3>1. \/ routing' = {} /\ requested' = << >>
          \/ UNCHANGED <<routing, requested>>
      BY <1>13 DEF Stop
    <3>2. << >> \in Seq(Local(Listener))
      OBVIOUS
    <3> QED BY <3>1, <3>2 DEF Placed
  <2> QED BY <1>13, <2>2, <2>3, <2>4, <2>5 DEF Stop, Placed
<1>14. CASE ListenerCloses \/ UNCHANGED vars
  BY <1>14 DEF ListenerCloses, vars, asks, bus, ledger, listens, Placed
<1> QED BY <1>1, <1>2, <1>3, <1>4, <1>5, <1>6, <1>7, <1>8, <1>9, <1>10, <1>11, <1>12, <1>13, <1>14
        DEF Next, CommandStep

-----------------------------------------------------------------------------
(* What comes of a task. *)

\* What a step does to what a command has to read: nothing, it reads, or a
\* reply, a timeout or an answer comes, or the daemon stops.
Unread(t)   == inbox'[t] = inbox[t]
Reads(t)    == Told(t) /\ inbox'[t] = Tail(inbox[t])
Hushed(t)   == TimeOut(t) /\ Way[t] = "send" /\ inbox'[t] = Append(inbox[t], "timeout")
Replied(t)  == TakeReply /\ Way[t] = "send" /\ inbox'[t] = Append(inbox[t], "reply")
Informed(t) == Way[t] = "scenario" /\ inbox'[t] = Append(inbox[t], "answer")
CutOff(t)   == Way[t] = "send" /\ Home[t] \in stopped'

LEMMA InboxStep ==
  ASSUME Placed, [Next]_vars, NEW t \in Tasks
  PROVE  Unread(t) \/ Reads(t) \/ Hushed(t) \/ Replied(t) \/ Informed(t) \/ CutOff(t)
<1>1. ASSUME NEW w \in Workers, Answer(w)
      PROVE  Unread(t) \/ Informed(t)
  <2>1. Head(in_hand[w]) \in Tasks
    BY <1>1, HeadInHand DEF Answer, Local
  <2> QED BY <1>1, <2>1 DEF Answer, Hears, Placed, Unread, Informed
<1>2. CASE TakeReply
  <2> DEFINE x == Head(requested)
  <2>1. x \in Tasks
    BY <1>2, HeadTailProperties DEF TakeReply, Placed, Local
  <2>2. \/ inbox' = inbox
        \/ Way[x] = "send" /\ inbox' = [inbox EXCEPT ![x] = Append(@, "reply")]
        \/ Way[x] = "scenario" /\ inbox' = [inbox EXCEPT ![x] = Append(@, "answer")]
    BY <1>2 DEF TakeReply, PushIf, Pushed, Hears
  <2>3. CASE t = x
    BY <1>2, <2>1, <2>2, <2>3 DEF Placed, Unread, Replied, Informed
  <2>4. CASE t # x
    BY <2>1, <2>2, <2>4 DEF Placed, Unread
  <2> QED BY <2>3, <2>4
<1>3. ASSUME NEW x \in Tasks, TimeOut(x)
      PROVE  Unread(t) \/ Hushed(t)
  BY <1>3 DEF TimeOut, PushIf, Pushed, Placed, Unread, Hushed
<1>4. ASSUME NEW x \in Tasks, Told(x)
      PROVE  Unread(t) \/ Reads(t)
  BY <1>4 DEF Told, Placed, Unread, Reads
<1>5. ASSUME NEW x \in Tasks,
             \/ Send(x) \/ Subscribe(x) \/ RunScenario(x) \/ Inject(x)
             \/ GiveUp(x) \/ ConnectionClosed(x) \/ Route(x) \/ ReadRequest(x)
      PROVE  Unread(t)
  BY <1>5 DEF Send, Subscribe, RunScenario, Inject, GiveUp, ConnectionClosed, Route, ReadRequest,
              asks, Unread
<1>6. ASSUME NEW h, Stop(h)
      PROVE  Unread(t) \/ CutOff(t)
  BY <1>6 DEF Stop, Unread, CutOff
<1>7. ASSUME ReadAnswer \/ SkipLine \/ ListenerCloses \/ UNCHANGED vars
      PROVE  Unread(t)
  BY <1>7 DEF ReadAnswer, SkipLine, ListenerCloses, asks, vars, Unread
<1> QED BY <1>1, <1>2, <1>3, <1>4, <1>5, <1>6, <1>7 DEF Next, CommandStep

\* What a step does to a task in the ledger.
LEMMA TaskStep ==
  ASSUME Placed, [Next]_vars, NEW t \in Tasks
  PROVE  \/ task'[t] = task[t]
         \/ task'[t] = "pending"
         \/ TakeReply /\ task[t] = "pending" /\ task'[t] = "replied" /\ Head(requested) = t
         \/ TimeOut(t) /\ task[t] = "pending" /\ task'[t] = "timed_out"
         \/ Home[t] \in stopped'
<1>1. ASSUME NEW x \in Tasks, Send(x) \/ Route(x)
      PROVE  task'[t] = task[t] \/ task'[t] = "pending"
  BY <1>1 DEF Send, Route, Placed
<1>2. ASSUME NEW x \in Tasks, TimeOut(x)
      PROVE  \/ task'[t] = task[t]
             \/ TimeOut(t) /\ task[t] = "pending" /\ task'[t] = "timed_out"
  BY <1>2 DEF TimeOut, Placed
<1>3. ASSUME TakeReply
      PROVE  \/ task'[t] = task[t]
             \/ task[t] = "pending" /\ task'[t] = "replied" /\ Head(requested) = t
  BY <1>3 DEF TakeReply, Placed
<1>4. ASSUME NEW x \in Tasks,
             \/ Subscribe(x) \/ RunScenario(x) \/ Inject(x) \/ Told(x)
             \/ GiveUp(x) \/ ConnectionClosed(x) \/ ReadRequest(x)
      PROVE  task' = task
  BY <1>4 DEF Subscribe, RunScenario, Inject, Told, GiveUp, ConnectionClosed, ReadRequest, ledger
<1>5. ASSUME NEW w \in Workers, Answer(w)
      PROVE  task' = task
  BY <1>5 DEF Answer, ledger
<1>6. ASSUME NEW h, Stop(h)
      PROVE  task'[t] = task[t] \/ Home[t] \in stopped'
  BY <1>6 DEF Stop, Placed
<1>7. ASSUME ReadAnswer \/ SkipLine \/ ListenerCloses \/ UNCHANGED vars
      PROVE  task' = task
  BY <1>7 DEF ReadAnswer, SkipLine, ListenerCloses, ledger, vars
<1> QED BY <1>1, <1>2, <1>3, <1>4, <1>5, <1>6, <1>7 DEF Next, CommandStep

\* What is refused, late or stopped remains so.
LEMMA Grows ==
  Placed /\ [Next]_vars =>
    late \subseteq late' /\ refused \subseteq refused' /\ stopped \subseteq stopped'
  BY DEF Next, CommandStep, Send, Subscribe, RunScenario, Inject, Told, GiveUp, ConnectionClosed,
         Route, TimeOut, ReadRequest, Answer, TakeReply, Stop, ReadAnswer, SkipLine,
         ListenerCloses, asks, ledger, vars

\* Only a request that is routed is pushed, and only one just sent is to be routed.
LEMMA RoutingStep ==
  ASSUME Placed, [Next]_vars, NEW t \in Tasks
  PROVE  /\ t \in routing' => t \in routing \/ (asker[t] = "new" /\ asker'[t] # "new")
         /\ t \in pushed' => t \in pushed \/ t \in routing
<1>1. ASSUME NEW x \in Tasks, PublishRequest(x)
      PROVE  routing' \subseteq routing \cup {x}
  BY <1>1 DEF PublishRequest
<1>2. ASSUME NEW x \in Tasks, Send(x) \/ RunScenario(x) \/ Inject(x)
      PROVE  /\ routing' \subseteq routing \cup {x} /\ UNCHANGED pushed
             /\ asker[x] = "new" /\ asker'[x] # "new"
  BY <1>1, <1>2 DEF Send, RunScenario, Inject, bus, ledger, Placed
<1>3. ASSUME NEW x \in Tasks, Route(x)
      PROVE  routing' \subseteq routing /\ pushed' \subseteq pushed \cup routing
  BY <1>3 DEF Route
<1>4. ASSUME NEW x \in Tasks,
             \/ Subscribe(x) \/ Told(x) \/ GiveUp(x) \/ ConnectionClosed(x)
             \/ TimeOut(x) \/ ReadRequest(x)
      PROVE  UNCHANGED <<routing, pushed>>
  BY <1>4 DEF Subscribe, Told, GiveUp, ConnectionClosed, TimeOut, ReadRequest, bus, ledger
<1>5. ASSUME NEW w \in Workers, Answer(w)
      PROVE  UNCHANGED <<routing, pushed>>
  BY <1>5 DEF Answer, ledger
<1>6. ASSUME NEW h, Stop(h)
      PROVE  routing' \subseteq routing /\ UNCHANGED pushed
  BY <1>6 DEF Stop
<1>7. ASSUME TakeReply \/ ReadAnswer \/ SkipLine \/ ListenerCloses \/ UNCHANGED vars
      PROVE  UNCHANGED <<routing, pushed>>
  BY <1>7 DEF TakeReply, ReadAnswer, SkipLine, ListenerCloses, bus, ledger, vars
<1> QED BY <1>2, <1>3, <1>4, <1>5, <1>6, <1>7 DEF Next, CommandStep

LEMMA PushedByRoute ==
  ASSUME Placed, [Next]_vars, NEW t \in Tasks, t \in pushed', t \notin pushed
  PROVE  Route(t)
<1>1. ASSUME NEW x \in Tasks, Route(x), x # t
      PROVE  FALSE
  BY <1>1 DEF Route
<1>2. ASSUME NEW x \in Tasks, CommandStep(x) \/ TimeOut(x) \/ ReadRequest(x)
      PROVE  UNCHANGED pushed
  BY <1>2 DEF CommandStep, Send, Subscribe, RunScenario, Inject, Told, GiveUp, ConnectionClosed,
              TimeOut, ReadRequest, ledger
<1>3. ASSUME NEW w \in Workers, Answer(w)
      PROVE  UNCHANGED pushed
  BY <1>3 DEF Answer, ledger
<1>4. ASSUME NEW h, Stop(h)
      PROVE  UNCHANGED pushed
  BY <1>4 DEF Stop
<1>5. ASSUME TakeReply \/ ReadAnswer \/ SkipLine \/ ListenerCloses \/ UNCHANGED vars
      PROVE  UNCHANGED pushed
  BY <1>5 DEF TakeReply, ReadAnswer, SkipLine, ListenerCloses, ledger, vars
<1> QED BY <1>1, <1>2, <1>3, <1>4, <1>5 DEF Next

-----------------------------------------------------------------------------
(* Who gives up. *)

\* Somebody of its node has the task in hand.
InHand(t) == \E w \in Workers : t \in Local(w) /\ t \in Range(in_hand[w])

\* A command that waits, and has nothing to read, is still owed a result.
Owed ==
  \A t \in Tasks : asker[t] = "subscribed" /\ inbox[t] = << >> =>
    /\ (Way[t] = "send" /\ t \notin late /\ Home[t] \notin stopped)
         => task[t] \in {"none", "pending"}
    /\ Way[t] = "scenario" => InHand(t)

\* A task sent without a record was refused, and has not been pushed since.
Unrecorded ==
  \A t \in Tasks :
    /\ asker[t] = "new" => t \notin routing /\ t \notin pushed
    /\ (Way[t] = "send" /\ asker[t] \in {"sent", "subscribed"} /\ Home[t] \notin stopped
          /\ task[t] = "none")
         => t \in refused /\ t \notin pushed

InjectNeverWaits == \A t \in Tasks : Way[t] = "inject" => asker[t] \in {"new", "done"}

\* Who gives up is an agent send, and nothing of its task is under way any more.
GaveUpLast == \A t \in Tasks : asker[t] = "gave_up" => Way[t] = "send" /\ t \notin routing

\* What a step does to a command.
LEMMA AskerStep ==
  ASSUME Placed, [Next]_vars, NEW t \in Tasks
  PROVE  \/ asker'[t] = asker[t]
         \/ Way[t] = "send" /\ Send(t) /\ asker'[t] = "sent"
         \/ Way[t] = "send" /\ Subscribe(t) /\ asker'[t] = "subscribed"
         \/ Way[t] = "scenario" /\ RunScenario(t) /\ asker'[t] = "subscribed"
         \/ Way[t] = "inject" /\ asker'[t] = "done"
         \/ asker[t] = "subscribed" /\ asker'[t] = "told"
         \/ Way[t] = "send" /\ asker'[t] = "closed"
         \/ GiveUp(t) /\ asker'[t] = "gave_up"
<1>1. ASSUME NEW x \in Tasks, CommandStep(x), x # t
      PROVE  asker'[t] = asker[t]
  BY <1>1 DEF CommandStep, Send, Subscribe, RunScenario, Inject, Told, GiveUp, ConnectionClosed,
              Placed
<1>2. ASSUME CommandStep(t)
      PROVE  \/ Way[t] = "send" /\ Send(t) /\ asker'[t] = "sent"
             \/ Way[t] = "send" /\ Subscribe(t) /\ asker'[t] = "subscribed"
             \/ Way[t] = "scenario" /\ RunScenario(t) /\ asker'[t] = "subscribed"
             \/ Way[t] = "inject" /\ asker'[t] = "done"
             \/ asker[t] = "subscribed" /\ asker'[t] = "told"
             \/ Way[t] = "send" /\ asker'[t] = "closed"
             \/ GiveUp(t) /\ asker'[t] = "gave_up"
  BY <1>2 DEF CommandStep, Send, Subscribe, RunScenario, Inject, Told, GiveUp, ConnectionClosed,
              Placed
<1>3. ASSUME NEW x \in Tasks, Route(x) \/ TimeOut(x) \/ ReadRequest(x)
      PROVE  asker' = asker
  BY <1>3 DEF Route, TimeOut, ReadRequest, asks
<1>4. ASSUME NEW w \in Workers, Answer(w)
      PROVE  asker' = asker
  BY <1>4 DEF Answer
<1>5. ASSUME NEW h, Stop(h)
      PROVE  asker' = asker
  BY <1>5 DEF Stop
<1>6. ASSUME TakeReply \/ ReadAnswer \/ SkipLine \/ ListenerCloses \/ UNCHANGED vars
      PROVE  asker' = asker
  BY <1>6 DEF TakeReply, ReadAnswer, SkipLine, ListenerCloses, asks, vars
<1> QED BY <1>1, <1>2, <1>3, <1>4, <1>5, <1>6 DEF Next

LEMMA StepInjectNeverWaits ==
  ASSUME Placed, InjectNeverWaits, [Next]_vars
  PROVE  InjectNeverWaits'
<1> SUFFICES ASSUME NEW t \in Tasks, Way[t] = "inject"
             PROVE  asker'[t] \in {"new", "done"}
  BY DEF InjectNeverWaits
<1>1. asker[t] \in {"new", "done"}
  BY DEF InjectNeverWaits
<1> QED BY <1>1, AskerStep DEF GiveUp

LEMMA StepUnrecorded ==
  ASSUME Placed, Unrecorded, [Next]_vars
  PROVE  Unrecorded'
<1> SUFFICES ASSUME NEW t \in Tasks
             PROVE  /\ asker'[t] = "new" => t \notin routing' /\ t \notin pushed'
                    /\ (Way[t] = "send" /\ asker'[t] \in {"sent", "subscribed"}
                          /\ Home[t] \notin stopped' /\ task'[t] = "none")
                         => t \in refused' /\ t \notin pushed'
  BY DEF Unrecorded
<1>1. ASSUME asker'[t] = "new"
      PROVE  t \notin routing' /\ t \notin pushed'
  <2>1. asker[t] = "new"
    BY <1>1, AskerStep
  <2> QED BY <1>1, <2>1, RoutingStep DEF Unrecorded
<1>2. ASSUME Way[t] = "send", asker'[t] \in {"sent", "subscribed"},
             Home[t] \notin stopped', task'[t] = "none"
      PROVE  t \in refused' /\ t \notin pushed'
  <2>1. CASE Send(t)
    <3>1. asker[t] = "new" /\ UNCHANGED pushed
      BY <2>1 DEF Send
    <3>2. t \in refused'
      BY <1>2, <2>1 DEF Send, Placed
    <3> QED BY <3>1, <3>2 DEF Unrecorded
  <2>2. CASE asker[t] \in {"sent", "subscribed"}
    <3>1. task[t] = "none" /\ Home[t] \notin stopped
      BY <1>2, TaskStep, Grows
    <3>2. t \in refused /\ t \notin pushed
      BY <1>2, <2>2, <3>1 DEF Unrecorded
    <3>3. ASSUME t \in pushed'
          PROVE  FALSE
      <4>1. Route(t)
        BY <3>2, <3>3, PushedByRoute
      <4>2. task'[t] = "pending"
        BY <3>2, <3>3, <4>1 DEF Route, Placed
      <4> QED BY <1>2, <4>2
    <3> QED BY <3>2, <3>3, Grows
  <2>3. \/ Send(t)
        \/ asker[t] \in {"sent", "subscribed"}
    BY <1>2, AskerStep DEF Subscribe
  <2> QED BY <2>1, <2>2, <2>3
<1> QED BY <1>1, <1>2

LEMMA StepGaveUpLast ==
  ASSUME Placed, Owed, InjectNeverWaits, GaveUpLast, [Next]_vars
  PROVE  GaveUpLast'
<1> SUFFICES ASSUME NEW t \in Tasks, asker'[t] = "gave_up"
             PROVE  Way[t] = "send" /\ t \notin routing'
  BY DEF GaveUpLast
<1>1. CASE asker'[t] = asker[t]
  BY <1>1, RoutingStep DEF GaveUpLast
<1>2. CASE GiveUp(t)
  <2>1. /\ asker[t] = "subscribed" /\ inbox[t] = << >> /\ Overdue(t)
        /\ routing' = routing
    BY <1>2 DEF GiveUp, bus
  <2>2. Way[t] # "scenario"
    BY <2>1 DEF Overdue, Owed, InHand
  <2>3. Way[t] # "inject"
    BY <2>1 DEF InjectNeverWaits
  <2>4. Way[t] = "send"
    BY <2>2, <2>3
  <2> QED BY <2>1, <2>4 DEF Overdue
<1> QED BY <1>1, <1>2, AskerStep

\* A task leaves the hand of a worker of its node as an answer that a scenario
\* subscribed for hears.
LEMMA InHandStep ==
  ASSUME Placed, [Next]_vars, NEW t \in Tasks, InHand(t),
         Way[t] = "scenario", asker[t] = "subscribed"
  PROVE  (InHand(t))' \/ Informed(t)
<1>1. PICK w \in Workers : t \in Local(w) /\ t \in Range(in_hand[w])
  BY DEF InHand
<1>2. in_hand[w] \in Seq(Local(w))
  BY DEF Placed
<1>3. PICK i \in 1 .. Len(in_hand[w]) : in_hand[w][i] = t
  BY <1>1, <1>2 DEF Range
<1>4. ASSUME NEW j \in 1 .. Len(in_hand'[w]), in_hand'[w][j] = t, in_hand'[w] \in Seq(Local(w))
      PROVE  (InHand(t))'
  <2>1. t \in Range(in_hand'[w])
    BY <1>4 DEF Range
  <2> QED BY <1>1, <2>1 DEF InHand, Local
<1>5. CASE in_hand'[w] = in_hand[w]
  BY <1>2, <1>3, <1>4, <1>5
<1>6. CASE in_hand[w] # << >> /\ Answer(w)
  <2>1. in_hand'[w] = Tail(in_hand[w])
    BY <1>6 DEF Answer, Placed
  <2>2. CASE i = 1
    <3>1. t = Head(in_hand[w])
      BY <1>2, <1>3, <2>2
    <3>2. Hears(t, Home[w])
      BY <1>1 DEF Hears, Local
    <3>3. inbox' = [inbox EXCEPT ![t] = Append(@, "answer")]
      BY <1>6, <3>1, <3>2 DEF Answer
    <3> QED BY <3>3 DEF Placed, Informed
  <2>3. CASE i # 1
    <3>1. i - 1 \in 1 .. Len(in_hand'[w]) /\ in_hand'[w][i - 1] = t
      BY <1>2, <1>3, <2>1, <2>3
    <3>2. in_hand'[w] \in Seq(Local(w))
      BY <1>2, <1>6, <2>1, HeadTailProperties
    <3> QED BY <1>4, <3>1, <3>2
  <2> QED BY <2>2, <2>3
<1>7. ASSUME NEW x \in Tasks, in_hand'[w] = Append(in_hand[w], x), x \in Local(w)
      PROVE  (InHand(t))'
  <2>1. i \in 1 .. Len(in_hand'[w]) /\ in_hand'[w][i] = t
    BY <1>2, <1>3, <1>7
  <2>2. in_hand'[w] \in Seq(Local(w))
    BY <1>2, <1>7, AppendProperties
  <2> QED BY <1>4, <2>1, <2>2
<1>8. \/ in_hand'[w] = in_hand[w]
      \/ in_hand[w] # << >> /\ Answer(w)
      \/ \E x \in Tasks : in_hand'[w] = Append(in_hand[w], x) /\ x \in Local(w)
  <2>1. ASSUME NEW x \in Tasks, PublishRequest(x)
        PROVE  \/ in_hand'[w] = in_hand[w]
               \/ in_hand'[w] = Append(in_hand[w], x) /\ x \in Local(w)
    BY <2>1 DEF PublishRequest, WillAnswer, Near, Local
  <2>2. ASSUME NEW x \in Tasks, Send(x) \/ RunScenario(x) \/ Inject(x)
        PROVE  PublishRequest(x) \/ in_hand' = in_hand
    BY <2>2 DEF Send, RunScenario, Inject, bus
  <2>3. ASSUME NEW x \in Tasks,
               \/ Subscribe(x) \/ Told(x) \/ GiveUp(x) \/ ConnectionClosed(x)
               \/ Route(x) \/ TimeOut(x) \/ ReadRequest(x)
        PROVE  in_hand' = in_hand
    BY <2>3 DEF Subscribe, Told, GiveUp, ConnectionClosed, Route, TimeOut, ReadRequest, bus
  <2>4. ASSUME NEW v \in Workers, Answer(v)
        PROVE  in_hand'[w] = in_hand[w] \/ (in_hand[w] # << >> /\ Answer(w))
    BY <2>4 DEF Answer, Placed
  <2>5. ASSUME NEW h, Stop(h)
        PROVE  in_hand' = in_hand
    BY <2>5 DEF Stop
  <2>6. ASSUME TakeReply \/ ReadAnswer \/ SkipLine \/ ListenerCloses \/ UNCHANGED vars
        PROVE  in_hand' = in_hand
    BY <2>6 DEF TakeReply, ReadAnswer, SkipLine, ListenerCloses, bus, vars
  <2> QED BY <2>1, <2>2, <2>3, <2>4, <2>5, <2>6 DEF Next, CommandStep
<1> QED BY <1>5, <1>6, <1>7, <1>8

\* A scenario's request is in the hand of the worker that its command relies on.
LEMMA ScenarioHeard ==
  ASSUME Placed, NEW t \in Tasks, Way[t] = "scenario", RunScenario(t)
  PROVE  (InHand(t))'
<1>1. PICK w \in Workers : Home[w] = Home[t] /\ t \in Answers[w]
  OBVIOUS
<1>2. in_hand[w] \in Seq(Local(w)) /\ t \in Local(w)
  BY <1>1 DEF Placed, Local
<1>3. in_hand'[w] = Append(in_hand[w], t)
  BY <1>1 DEF RunScenario, PublishRequest, WillAnswer, Near
<1>4. Len(in_hand[w]) + 1 \in DOMAIN in_hand'[w] /\ in_hand'[w][Len(in_hand[w]) + 1] = t
  BY <1>2, <1>3, AppendProperties
<1>5. t \in Range(in_hand'[w])
  BY <1>4 DEF Range
<1> QED BY <1>2, <1>5 DEF InHand, Local

LEMMA StepOwed ==
  ASSUME Placed, Owed, [Next]_vars
  PROVE  Owed'
<1> SUFFICES ASSUME NEW t \in Tasks, asker'[t] = "subscribed", inbox'[t] = << >>
             PROVE  /\ (Way[t] = "send" /\ t \notin late' /\ Home[t] \notin stopped')
                         => task'[t] \in {"none", "pending"}
                    /\ Way[t] = "scenario" => (InHand(t))'
  BY DEF Owed
<1>1. CASE asker[t] = "subscribed"
  <2>1. inbox[t] \in Seq(Word)
    BY DEF Placed
  <2>2. ~Hushed(t) /\ ~Replied(t) /\ ~Informed(t)
    BY <2>1 DEF Hushed, Replied, Informed
  <2>3. ~Reads(t)
    BY DEF Reads, Told, Placed
  <2>4. ASSUME ~CutOff(t)
        PROVE  inbox[t] = << >>
    BY <2>2, <2>3, <2>4, InboxStep DEF Unread
  <2>5. ASSUME Way[t] = "send", t \notin late', Home[t] \notin stopped'
        PROVE  task'[t] \in {"none", "pending"}
    <3>1. task[t] \in {"none", "pending"}
      BY <1>1, <2>4, <2>5, Grows DEF Owed, CutOff
    <3>2. ASSUME TakeReply, Head(requested) = t, task[t] = "pending"
          PROVE  FALSE
      <4>1. inbox' = [inbox EXCEPT ![t] = Append(@, "reply")]
        BY <1>1, <2>5, <3>2 DEF TakeReply, PushIf, Pushed
      <4>2. inbox'[t] = Append(inbox[t], "reply")
        BY <4>1 DEF Placed
      <4> QED BY <2>1, <4>2, AppendProperties DEF Word
    <3>3. ASSUME TimeOut(t)
          PROVE  FALSE
      <4>1. inbox' = [inbox EXCEPT ![t] = Append(@, "timeout")]
        BY <1>1, <2>5, <3>3 DEF TimeOut, PushIf, Pushed
      <4>2. inbox'[t] = Append(inbox[t], "timeout")
        BY <4>1 DEF Placed
      <4> QED BY <2>1, <4>2, AppendProperties DEF Word
    <3> QED BY <2>5, <3>1, <3>2, <3>3, TaskStep
  <2>6. ASSUME Way[t] = "scenario"
        PROVE  (InHand(t))'
    <3>1. InHand(t)
      BY <1>1, <2>4, <2>6 DEF Owed, CutOff
    <3> QED BY <1>1, <2>2, <2>6, <3>1, InHandStep
  <2> QED BY <2>5, <2>6
<1>2. CASE Subscribe(t)
  BY <1>2 DEF Subscribe, ledger, Placed
<1>3. CASE Way[t] = "scenario" /\ RunScenario(t)
  BY <1>3, ScenarioHeard
<1> QED BY <1>1, <1>2, <1>3, AskerStep

LEMMA StepWaitsInVain ==
  ASSUME Placed, Owed, Unrecorded, GaveUpLast, WaitsInVainWithCause, [Next]_vars, GaveUpLast'
  PROVE  WaitsInVainWithCause'
<1> SUFFICES ASSUME NEW t \in Tasks, asker'[t] = "gave_up"
             PROVE  t \in late' \cup (refused' \ pushed')
  BY DEF WaitsInVainWithCause
<1>1. CASE asker'[t] = asker[t]
  <2>1. t \in late \cup (refused \ pushed) /\ t \notin routing
    BY <1>1 DEF WaitsInVainWithCause, GaveUpLast
  <2> QED BY <2>1, Grows, RoutingStep
<1>2. CASE GiveUp(t)
  <2>1. /\ asker[t] = "subscribed" /\ inbox[t] = << >> /\ Overdue(t)
        /\ UNCHANGED <<refused, late, pushed>>
    BY <1>2 DEF GiveUp, ledger
  <2>2. Way[t] = "send"
    BY DEF GaveUpLast
  <2>3. task[t] # "pending" /\ Home[t] \notin stopped
    BY <2>1, <2>2 DEF Overdue
  <2>4. t \notin late => task[t] = "none"
    BY <2>1, <2>2, <2>3 DEF Owed
  <2> QED BY <2>1, <2>2, <2>3, <2>4 DEF Unrecorded
<1> QED BY <1>1, <1>2, AskerStep

-----------------------------------------------------------------------------
(* The theorems. *)

Inv ==
  /\ Placed
  /\ Owed /\ Unrecorded /\ InjectNeverWaits /\ GaveUpLast /\ WaitsInVainWithCause

LEMMA InitInv == Init => Inv
<1>1. Init => Owed /\ Unrecorded /\ InjectNeverWaits /\ GaveUpLast /\ WaitsInVainWithCause
  BY DEF Init, Owed, Unrecorded, InjectNeverWaits, GaveUpLast, WaitsInVainWithCause
<1> QED BY <1>1, InitPlaced DEF Inv

LEMMA Invariance == Spec => []Inv
<1>1. Inv /\ [Next]_vars => Inv'
  BY StepPlaced, StepOwed, StepUnrecorded, StepInjectNeverWaits, StepGaveUpLast,
     StepWaitsInVain DEF Inv
<1> QED BY <1>1, InitInv, PTL DEF Spec

\* Whoever is subscribed in time is told, or the daemon has refused the task, or the
\* connection ends.
THEOREM SendersInTimeAreTold == Spec => []WaitsInVainWithCause
<1>1. Inv => WaitsInVainWithCause
  BY DEF Inv
<1> QED BY <1>1, Invariance, PTL

-----------------------------------------------------------------------------
(* What the listener misses. *)

Up == Home[Listener] \notin stopped

Missed == {t \in pushed \ seen : ~Waiting(t)}

NoRequestTwice ==
  \A i, j \in 1 .. Len(lines) :
    (lines[i] = lines[j] /\ lines[i].kind = "task_request") => i = j

\* A request is on its way, in a line or seen, and only ever one of these.
PushedOnce ==
  /\ seen \subseteq Tasks
  /\ \A t \in Tasks : asker[t] = "new" => t \notin routing /\ t \notin seen /\ ~Waiting(t)
  /\ \A t \in routing : t \notin seen /\ ~Waiting(t)
  /\ \A t \in seen : ~Waiting(t)
  /\ NoRequestTwice

\* What a step does to the way of a request to the listener.
Issues(t) ==
  /\ asker[t] = "new" /\ asker'[t] # "new"
  /\ \A x \in Tasks : x # t => asker'[x] = asker[x]
  /\ routing' \subseteq routing \cup {t}
  /\ UNCHANGED <<lines, listener, seen, pushed>>

SameWay == \A x \in Tasks : asker'[x] = "new" <=> asker[x] = "new"

Aside ==
  /\ SameWay
  /\ UNCHANGED <<routing, listener, seen, pushed>>
  /\ \/ UNCHANGED lines
     \/ \E x \in Local(Listener) : lines' = Append(lines, Reply(x))

LEMMA ListenerStep ==
  ASSUME Placed, [Next]_vars, Up'
  PROVE  \/ \E t \in Tasks : Issues(t)
         \/ \E t \in Tasks : Route(t)
         \/ \E t \in Tasks : ReadRequest(t)
         \/ ReadAnswer
         \/ SkipLine
         \/ Aside
<1>1. ASSUME NEW t \in Tasks, Send(t) \/ RunScenario(t) \/ Inject(t)
      PROVE  Issues(t)
  BY <1>1 DEF Send, RunScenario, Inject, PublishRequest, Issues, bus, ledger, listens, Placed
<1>2. ASSUME NEW t \in Tasks, Subscribe(t) \/ Told(t) \/ GiveUp(t) \/ ConnectionClosed(t)
      PROVE  Aside
  <2>1. SameWay
    BY <1>2 DEF Subscribe, Told, GiveUp, ConnectionClosed, SameWay, Placed
  <2> QED BY <1>2, <2>1 DEF Subscribe, Told, GiveUp, ConnectionClosed, bus, ledger, listens, Aside
<1>3. ASSUME NEW t \in Tasks, TimeOut(t)
      PROVE  Aside
  BY <1>3 DEF TimeOut, bus, listens, Aside, SameWay
<1>4. ASSUME NEW w \in Workers, Answer(w)
      PROVE  Aside
  BY <1>4 DEF Answer, ledger, listens, Aside, SameWay
<1>5. ASSUME TakeReply
      PROVE  Aside
  <2>1. Head(requested) \in Local(Listener)
    BY <1>5, HeadTailProperties DEF TakeReply, Placed
  <2>2. lines' = Append(lines, Reply(Head(requested)))
    BY <1>5 DEF TakeReply
  <2> QED BY <1>5, <2>1, <2>2 DEF TakeReply, bus, Aside, SameWay
<1>6. ASSUME NEW h, Stop(h)
      PROVE  Aside
  <2>1. h # Home[Listener]
    BY <1>6 DEF Stop, Up
  <2> QED BY <1>6, <2>1 DEF Stop, Aside, SameWay
<1>7. ~ListenerCloses
  BY DEF ListenerCloses, Up, ledger
<1>8. CASE UNCHANGED vars
  BY <1>8 DEF vars, asks, bus, ledger, listens, Aside, SameWay
<1> QED BY <1>1, <1>2, <1>3, <1>4, <1>5, <1>6, <1>7, <1>8 DEF Next, CommandStep

LEMMA LineTaken ==
  ASSUME Placed, lines # << >>, lines' = Tail(lines), NEW x \in Tasks
  PROVE  Waiting(x) <=> (Waiting(x))' \/ Head(lines) = Request(x)
<1>1. lines \in Seq(LocalLine)
  BY DEF Placed
<1>2. /\ Len(lines) \in Nat \ {0} /\ Head(lines) = lines[1]
      /\ Len(lines') = Len(lines) - 1
      /\ \A i \in 1 .. Len(lines') : lines'[i] = lines[i + 1]
  BY <1>1, HeadTailProperties
<1>3. ASSUME (Waiting(x))'
      PROVE  Waiting(x)
  BY <1>2, <1>3 DEF Waiting, Request
<1>4. ASSUME Head(lines) = Request(x)
      PROVE  Waiting(x)
  BY <1>2, <1>4 DEF Waiting
<1>5. ASSUME NEW i \in 1 .. Len(lines), lines[i] = Request(x)
      PROVE  (Waiting(x))' \/ Head(lines) = Request(x)
  <2>1. CASE i = 1
    BY <1>2, <1>5, <2>1
  <2>2. CASE i # 1
    <3>1. i - 1 \in 1 .. Len(lines') /\ lines'[i - 1] = lines[i]
      BY <1>2, <2>2
    <3> QED BY <1>5, <3>1 DEF Waiting, Request
  <2> QED BY <2>1, <2>2
<1> QED BY <1>3, <1>4, <1>5 DEF Waiting

LEMMA LineAdded ==
  ASSUME Placed, NEW e \in LocalLine, lines' = Append(lines, e), NEW x \in Tasks
  PROVE  (Waiting(x))' <=> Waiting(x) \/ e = Request(x)
<1>1. lines \in Seq(LocalLine)
  BY DEF Placed
<1>2. /\ Len(lines) \in Nat /\ Len(lines') = Len(lines) + 1
      /\ \A i \in 1 .. Len(lines) : lines'[i] = lines[i]
      /\ lines'[Len(lines) + 1] = e
  BY <1>1, AppendProperties
<1> QED BY <1>2 DEF Waiting, Request

LEMMA StepPushedOnce ==
  ASSUME Placed, PushedOnce, [Next]_vars, Up'
  PROVE  PushedOnce'
<1>1. lines \in Seq(LocalLine) /\ routing \subseteq Tasks
  BY DEF Placed, Local
<1>2. ASSUME NEW t \in Tasks, Issues(t)
      PROVE  PushedOnce'
  BY <1>1, <1>2 DEF Issues, PushedOnce, NoRequestTwice, Waiting, Request
<1>3. ASSUME lines # << >>, lines' = Tail(lines)
      PROVE  NoRequestTwice'
  <2>1. /\ Len(lines) \in Nat \ {0}
        /\ Len(lines') = Len(lines) - 1
        /\ \A i \in 1 .. Len(lines') : lines'[i] = lines[i + 1]
    BY <1>1, <1>3, HeadTailProperties
  <2> SUFFICES ASSUME NEW i \in 1 .. Len(lines'), NEW j \in 1 .. Len(lines'),
                      lines'[i] = lines'[j], lines'[i].kind = "task_request"
               PROVE  i = j
    BY DEF NoRequestTwice
  <2>2. /\ i + 1 \in 1 .. Len(lines) /\ j + 1 \in 1 .. Len(lines)
        /\ lines[i + 1] = lines[j + 1] /\ lines[i + 1].kind = "task_request"
    BY <2>1
  <2>3. i + 1 = j + 1
    BY <2>2 DEF PushedOnce, NoRequestTwice
  <2> QED BY <2>3
<1>4. ASSUME NEW e \in LocalLine, lines' = Append(lines, e),
             \A i \in 1 .. Len(lines) : lines[i] = e => e.kind # "task_request"
      PROVE  NoRequestTwice'
  <2>1. /\ Len(lines) \in Nat /\ Len(lines') = Len(lines) + 1
        /\ \A i \in 1 .. Len(lines) : lines'[i] = lines[i]
        /\ lines'[Len(lines) + 1] = e
    BY <1>1, <1>4, AppendProperties
  <2> QED BY <1>4, <2>1 DEF PushedOnce, NoRequestTwice
<1>5. ASSUME NEW t \in Tasks, Route(t)
      PROVE  PushedOnce'
  <2>1. t \in routing /\ routing' = routing \ {t} /\ UNCHANGED <<asker, seen>>
    BY <1>5 DEF Route, asks
  <2>2. CASE UNCHANGED lines
    BY <1>1, <2>1, <2>2 DEF PushedOnce, NoRequestTwice, Waiting, Request
  <2>3. CASE lines' = Append(lines, Request(t))
    <3>1. Request(t) \in LocalLine
      BY <2>1 DEF Placed, Request, LocalLine
    <3>2. \A x \in Tasks : (Waiting(x))' <=> Waiting(x) \/ x = t
      <4>1. \A x \in Tasks : Request(t) = Request(x) <=> x = t
        BY DEF Request
      <4> QED BY <2>3, <3>1, <4>1, LineAdded
    <3>3. \A i \in 1 .. Len(lines) : lines[i] # Request(t)
      BY <2>1 DEF PushedOnce, Waiting
    <3>4. NoRequestTwice'
      BY <1>4, <2>3, <3>1, <3>3
    <3> QED BY <1>1, <2>1, <3>2, <3>4 DEF PushedOnce
  <2> QED BY <1>5, <2>2, <2>3 DEF Route
<1>6. ASSUME NEW t \in Tasks, ReadRequest(t)
      PROVE  PushedOnce'
  <2>1. /\ lines # << >> /\ Head(lines) = Request(t) /\ lines' = Tail(lines)
        /\ seen' = seen \cup {t} /\ UNCHANGED <<asker, routing, pushed>>
    BY <1>6 DEF ReadRequest, asks, bus, ledger
  <2>2. \A x \in Tasks : (Waiting(x))' => Waiting(x)
    BY <2>1, LineTaken
  <2>3. Waiting(t)
    BY <2>1, LineTaken
  <2>4. ~(Waiting(t))'
    <3>1. /\ Len(lines) \in Nat \ {0} /\ Head(lines) = lines[1]
          /\ Len(lines') = Len(lines) - 1
          /\ \A i \in 1 .. Len(lines') : lines'[i] = lines[i + 1]
      BY <1>1, <2>1, HeadTailProperties
    <3>2. ASSUME NEW i \in 1 .. Len(lines'), lines'[i] = Request(t)
          PROVE  FALSE
      <4>1. /\ i + 1 \in 1 .. Len(lines) /\ 1 \in 1 .. Len(lines)
            /\ lines[i + 1] = lines[1] /\ lines[1] = Request(t)
        BY <2>1, <3>1, <3>2
      <4>2. lines[i + 1].kind = "task_request"
        BY <4>1 DEF Request
      <4>3. i + 1 = 1
        BY <4>1, <4>2 DEF PushedOnce, NoRequestTwice
      <4> QED BY <4>3
    <3> QED BY <3>2 DEF Waiting, Request
  <2>5. NoRequestTwice'
    BY <1>3, <2>1
  <2> QED BY <1>1, <2>1, <2>2, <2>3, <2>4, <2>5 DEF PushedOnce
<1>7. ASSUME ReadAnswer \/ SkipLine
      PROVE  PushedOnce'
  <2>1. lines # << >> /\ lines' = Tail(lines) /\ UNCHANGED <<asker, routing, seen, pushed>>
    BY <1>7 DEF ReadAnswer, SkipLine, asks, bus, ledger
  <2>2. \A x \in Tasks : (Waiting(x))' => Waiting(x)
    BY <2>1, LineTaken
  <2> QED BY <1>1, <1>3, <2>1, <2>2 DEF PushedOnce
<1>8. ASSUME Aside
      PROVE  PushedOnce'
  <2>1. CASE UNCHANGED lines
    BY <1>1, <1>8, <2>1 DEF Aside, SameWay, PushedOnce, NoRequestTwice, Waiting, Request
  <2>2. ASSUME NEW y \in Local(Listener), lines' = Append(lines, Reply(y))
        PROVE  PushedOnce'
    <3>1. Reply(y) \in LocalLine /\ Reply(y).kind # "task_request"
      BY DEF Reply, LocalLine
    <3>2. \A x \in Tasks : Reply(y) # Request(x)
      BY DEF Reply, Request
    <3>3. \A x \in Tasks : (Waiting(x))' <=> Waiting(x)
      BY <2>2, <3>1, <3>2, LineAdded
    <3>4. NoRequestTwice'
      BY <1>4, <2>2, <3>1
    <3> QED BY <1>1, <1>8, <3>3, <3>4 DEF Aside, SameWay, PushedOnce
  <2> QED BY <1>8, <2>1, <2>2 DEF Aside
<1> QED BY <1>2, <1>5, <1>6, <1>7, <1>8, ListenerStep

\* What a step does to the misses: reading the answer to a reply can add one, and
\* only a request that was seen makes the listener read it.
LEMMA MissStep ==
  ASSUME Placed, PushedOnce, [Next]_vars, Up'
  PROVE  \/ Missed' \subseteq Missed /\ UNCHANGED <<seen, listener>>
         \/ \E t \in Tasks : /\ Missed' \subseteq Missed
                             /\ t \notin seen /\ seen' = seen \cup {t}
                             /\ listener = "event" /\ listener' = "answer"
         \/ \E t : /\ Missed' \subseteq Missed \cup {t}
                   /\ seen' = seen
                   /\ listener = "answer" /\ listener' = "event"
<1>0. pushed \subseteq Tasks
  BY DEF Placed
<1>1. ASSUME NEW t \in Tasks, Issues(t)
      PROVE  Missed' \subseteq Missed /\ UNCHANGED <<seen, listener>>
  BY <1>1 DEF Issues, Missed, Waiting, Request
<1>2. ASSUME NEW t \in Tasks, Route(t)
      PROVE  Missed' \subseteq Missed /\ UNCHANGED <<seen, listener>>
  <2>1. /\ UNCHANGED <<seen, listener>>
        /\ \/ pushed' = pushed \cup {t} /\ lines' = Append(lines, Request(t))
           \/ UNCHANGED <<pushed, lines>>
    BY <1>2 DEF Route
  <2>2. ASSUME lines' = Append(lines, Request(t)), NEW x \in Tasks
        PROVE  (Waiting(x))' <=> Waiting(x) \/ x = t
    <3>1. Request(t) \in LocalLine /\ (Request(t) = Request(x) <=> x = t)
      BY <1>2 DEF Route, Placed, Request, LocalLine
    <3> QED BY <2>2, <3>1, LineAdded
  <2>3. CASE pushed' = pushed \cup {t} /\ lines' = Append(lines, Request(t))
    BY <1>0, <2>1, <2>2, <2>3 DEF Missed
  <2>4. CASE UNCHANGED <<pushed, lines>>
    BY <2>1, <2>4 DEF Missed, Waiting, Request
  <2> QED BY <2>1, <2>3, <2>4
<1>3. ASSUME NEW t \in Tasks, ReadRequest(t)
      PROVE  /\ Missed' \subseteq Missed
             /\ t \notin seen /\ seen' = seen \cup {t}
             /\ listener = "event" /\ listener' = "answer"
  <2>1. /\ lines # << >> /\ Head(lines) = Request(t) /\ lines' = Tail(lines)
        /\ seen' = seen \cup {t} /\ UNCHANGED <<asker, routing, pushed>>
        /\ listener = "event" /\ listener' = "answer"
    BY <1>3 DEF ReadRequest, asks, bus, ledger, Up
  <2>2. \A x \in Tasks : Waiting(x) <=> (Waiting(x))' \/ x = t
    <3>1. \A x \in Tasks : Request(t) = Request(x) <=> x = t
      BY DEF Request
    <3> QED BY <2>1, <3>1, LineTaken
  <2>3. t \notin seen
    BY <2>2 DEF PushedOnce
  <2> QED BY <1>0, <2>1, <2>2, <2>3 DEF Missed
<1>4. ASSUME ReadAnswer
      PROVE  /\ Missed' \subseteq Missed \cup {Head(lines).task}
             /\ seen' = seen
             /\ listener = "answer" /\ listener' = "event"
  <2>1. /\ lines # << >> /\ lines' = Tail(lines) /\ UNCHANGED <<asker, routing, seen, pushed>>
        /\ listener = "answer" /\ listener' = "event"
    BY <1>4 DEF ReadAnswer, asks, bus, ledger
  <2>2. \A x \in Tasks : Waiting(x) => (Waiting(x))' \/ x = Head(lines).task
    <3>1. \A x \in Tasks : Head(lines) = Request(x) => x = Head(lines).task
      BY DEF Request
    <3> QED BY <2>1, <3>1, LineTaken
  <2> QED BY <1>0, <2>1, <2>2 DEF Missed
<1>5. ASSUME SkipLine
      PROVE  Missed' \subseteq Missed /\ UNCHANGED <<seen, listener>>
  <2>1. /\ lines # << >> /\ Head(lines).kind = "answer" /\ lines' = Tail(lines)
        /\ UNCHANGED <<asker, routing, seen, listener, pushed>>
    BY <1>5 DEF SkipLine, asks, bus, ledger
  <2>2. \A x \in Tasks : Waiting(x) => (Waiting(x))'
    <3>1. \A x \in Tasks : Head(lines) # Request(x)
      BY <2>1 DEF Request
    <3> QED BY <2>1, <3>1, LineTaken
  <2> QED BY <1>0, <2>1, <2>2 DEF Missed
<1>6. ASSUME Aside
      PROVE  Missed' \subseteq Missed /\ UNCHANGED <<seen, listener>>
  <2>1. SameWay /\ UNCHANGED <<routing, listener, seen, pushed>>
    BY <1>6 DEF Aside
  <2>2. \A x \in Tasks : Waiting(x) <=> (Waiting(x))'
    <3>1. CASE UNCHANGED lines
      BY <3>1 DEF Waiting, Request
    <3>2. ASSUME NEW y \in Local(Listener), lines' = Append(lines, Reply(y))
          PROVE  \A x \in Tasks : Waiting(x) <=> (Waiting(x))'
      <4>1. Reply(y) \in LocalLine /\ \A x \in Tasks : Reply(y) # Request(x)
        BY DEF Reply, LocalLine, Request
      <4> QED BY <3>2, <4>1, LineAdded
    <3> QED BY <1>6, <3>1, <3>2 DEF Aside
  <2> QED BY <1>0, <1>6, <2>1, <2>2 DEF Missed, Aside
<1> QED BY <1>1, <1>2, <1>3, <1>4, <1>5, <1>6, ListenerStep

\* A miss is paid for by a request that was seen before: the reply to it is
\* what made the listener take a line for an answer.
MissesPaid ==
  /\ IsFiniteSet(Missed) /\ IsFiniteSet(seen)
  /\ Cardinality(Missed) + (IF listener = "answer" THEN 1 ELSE 0) <= Cardinality(seen)

LEMMA StepMissesPaid ==
  ASSUME Placed, PushedOnce, MissesPaid, [Next]_vars, Up'
  PROVE  MissesPaid'
<1>1. /\ IsFiniteSet(Missed) /\ IsFiniteSet(seen)
      /\ Cardinality(Missed) \in Nat /\ Cardinality(seen) \in Nat
  BY FS_CardinalityType DEF MissesPaid
<1>2. ASSUME Missed' \subseteq Missed
      PROVE  /\ IsFiniteSet(Missed')
             /\ Cardinality(Missed') \in Nat
             /\ Cardinality(Missed') <= Cardinality(Missed)
  BY <1>1, <1>2, FS_Subset, FS_CardinalityType
<1>3. ASSUME Missed' \subseteq Missed, UNCHANGED <<seen, listener>>
      PROVE  MissesPaid'
  BY <1>1, <1>2, <1>3 DEF MissesPaid
<1>4. ASSUME NEW t \in Tasks, Missed' \subseteq Missed, t \notin seen, seen' = seen \cup {t},
             listener = "event", listener' = "answer"
      PROVE  MissesPaid'
  <2>1. IsFiniteSet(seen') /\ Cardinality(seen') = Cardinality(seen) + 1
    BY <1>1, <1>4, FS_AddElement
  <2> QED BY <1>1, <1>2, <1>4, <2>1 DEF MissesPaid
<1>5. ASSUME NEW t, Missed' \subseteq Missed \cup {t}, seen' = seen,
             listener = "answer", listener' = "event"
      PROVE  MissesPaid'
  <2>1. /\ IsFiniteSet(Missed \cup {t})
        /\ Cardinality(Missed \cup {t}) \in {Cardinality(Missed), Cardinality(Missed) + 1}
    BY <1>1, FS_AddElement, Zenon
  <2>2. IsFiniteSet(Missed') /\ Cardinality(Missed') <= Cardinality(Missed \cup {t})
    BY <1>5, <2>1, FS_Subset
  <2>3. Cardinality(Missed') \in Nat /\ Cardinality(Missed \cup {t}) \in Nat
    BY <2>1, <2>2, FS_CardinalityType
  <2> QED BY <1>1, <1>5, <2>1, <2>2, <2>3 DEF MissesPaid
<1> QED BY <1>3, <1>4, <1>5, MissStep

LEMMA InitMisses == Init => PushedOnce /\ MissesPaid
<1> SUFFICES ASSUME Init
             PROVE  PushedOnce /\ MissesPaid
  OBVIOUS
<1>1. /\ seen = {} /\ pushed = {} /\ routing = {} /\ lines = << >> /\ listener = "event"
      /\ \A t \in Tasks : asker[t] = "new"
  BY DEF Init
<1>2. \A t \in Tasks : ~Waiting(t)
  BY <1>1 DEF Waiting
<1>3. PushedOnce
  BY <1>1, <1>2 DEF PushedOnce, NoRequestTwice
<1>4. Missed = {}
  BY <1>1 DEF Missed
<1> QED BY <1>1, <1>3, <1>4, FS_EmptySet DEF MissesPaid

\* Of the requests pushed to the listener it misses at most as many as it sees,
\* in whatever order requests, answers and results come, until the daemon stops: a
\* lost request needs a reply that was under way, and each reply loses one line at
\* most.
THEOREM MissesAreBounded == Spec => []OneMissPerReply
<1> DEFINE Paid == Up => PushedOnce /\ MissesPaid
<1>1. Paid => OneMissPerReply
  <2> SUFFICES ASSUME MissesPaid
               PROVE  Cardinality(Missed) <= Cardinality(seen)
    BY DEF OneMissPerReply, Missed, Up
  <2>1. Cardinality(Missed) \in Nat /\ Cardinality(seen) \in Nat
    BY FS_CardinalityType DEF MissesPaid
  <2> QED BY <2>1 DEF MissesPaid
<1>2. Inv /\ Paid /\ [Next]_vars => Paid'
  <2> SUFFICES ASSUME Inv, Paid, [Next]_vars, Up'
               PROVE  PushedOnce' /\ MissesPaid'
    OBVIOUS
  <2>1. Up
    BY Grows DEF Up, Inv
  <2> QED BY <2>1, StepPushedOnce, StepMissesPaid DEF Inv
<1>3. Init => Paid
  BY InitMisses
<1> HIDE DEF Paid
<1> QED BY <1>1, <1>2, <1>3, Invariance, PTL DEF Spec
=============================================================================
