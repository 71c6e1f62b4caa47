----------------------- MODULE ConversationLoopProofs -----------------------
(***************************************************************************)
(* Proofs about ConversationLoop, for any number of turns, tasks of others *)
(* and restarts.                                                           *)
(***************************************************************************)
EXTENDS ConversationLoop, FiniteSetTheorems, SequenceTheorems, TLAPS

-----------------------------------------------------------------------------
(* The conversation: types.                                                  *)

\* What the daemon pushes to the loop, and to the bridge.
Line == [kind : {"ack", "task_request", "task_result", "eof"},
         task : Nat, ok : BOOLEAN]
DriverLine ==
  {l \in Line : /\ l.kind \in {"ack", "task_result"} => l.task \in Own
                /\ l.kind = "task_request" => l.task \in Tasks \ Own
                /\ l.kind = "eof" => l = Eof}
BridgeLine == {l \in Line : l = Eof \/ l.task \in Tasks}
Answer == [task : Tasks, ok : BOOLEAN]

Working == bridge = "thinking" => working \in Tasks

MoreToCome == driver = "composing" => turn + 1 \in Own

LoopTypes ==
  /\ up \in BOOLEAN /\ life \in Nat /\ noise \in 0 .. MaxNoise
  /\ ledger \in [Tasks -> {"none", "pending", "over"}]
  /\ bridgeIn \in Seq(BridgeLine) /\ replies \in Seq(Answer) /\ Working
  /\ driver \in {"new", "ready", "asking", "waiting", "composing"} \cup Over
  /\ driverIn \in Seq(DriverLine)
  /\ asking \in BOOLEAN /\ turn \in Own /\ MoreToCome /\ want \in Tasks \cup {None}
  /\ reply \in [Own -> Tasks \cup {None}]
  /\ calm \in BOOLEAN

LEMMA LineFacts ==
  /\ Own \subseteq Tasks /\ Tasks \subseteq Nat /\ 0 \notin Tasks /\ None \notin Tasks
  /\ 1 \in Own /\ Own \subseteq Nat
  /\ \A t \in Own : Ack(t) \in DriverLine /\ \A ok \in BOOLEAN : Result(t, ok) \in DriverLine
  /\ \A t \in Tasks \ Own : Request(t) \in DriverLine
  /\ \A t \in Tasks : Request(t) \in BridgeLine
  /\ Eof \in DriverLine /\ Eof \in BridgeLine
<1>1. Own \subseteq Tasks /\ Tasks \subseteq Nat /\ 0 \notin Tasks /\ 1 \in Own /\ Own \subseteq Nat
  BY LoopAssumption DEF Own, Tasks
<1>2. None \notin Tasks
  BY <1>1, LoopAssumption
<1>3. \A t \in Own : Ack(t) \in DriverLine
  BY <1>1 DEF Ack, Line, DriverLine
<1>4. \A t \in Own : \A ok \in BOOLEAN : Result(t, ok) \in DriverLine
  BY <1>1 DEF Result, Line, DriverLine
<1>5. \A t \in Tasks : /\ Request(t) \in BridgeLine
                       /\ t \notin Own => Request(t) \in DriverLine
  BY <1>1 DEF Request, Line, DriverLine, BridgeLine
<1>6. Eof \in DriverLine /\ Eof \in BridgeLine
  BY DEF Eof, Line, DriverLine, BridgeLine
<1> QED
  BY <1>1, <1>2, <1>3, <1>4, <1>5, <1>6

\* The queues keep their types, whatever is written to them.
LEMMA QueueTypes ==
  ASSUME LoopTypes
  PROVE  /\ \A l \in DriverLine : ToDriver(l) => driverIn' \in Seq(DriverLine)
         /\ \A l \in BridgeLine : ToBridge(l) => bridgeIn' \in Seq(BridgeLine)
<1>1. \A l \in DriverLine : Append(driverIn, l) \in Seq(DriverLine)
  BY AppendProperties DEF LoopTypes
<1>2. \A l \in BridgeLine : Append(bridgeIn, l) \in Seq(BridgeLine)
  BY AppendProperties DEF LoopTypes
<1> QED
  BY <1>1, <1>2 DEF LoopTypes, ToDriver, ToBridge

LEMMA LoopTypesInit == Init => LoopTypes
<1> SUFFICES ASSUME Init PROVE LoopTypes
  OBVIOUS
<1>1. ledger \in [Tasks -> {"none", "pending", "over"}]
  BY DEF Init
<1>2. reply \in [Own -> Tasks \cup {None}]
  BY DEF Init
<1>3. bridgeIn \in Seq(BridgeLine) /\ driverIn \in Seq(DriverLine) /\ replies \in Seq(Answer)
  BY EmptySeq DEF Init
<1>4. turn \in Own /\ noise \in 0 .. MaxNoise
  BY LineFacts, LoopAssumption DEF Init
<1> QED
  BY <1>1, <1>2, <1>3, <1>4 DEF Init, LoopTypes, Working, MoreToCome, Over

LEMMA LoopTypesDaemon ==
  ASSUME LoopTypes, DaemonStep
  PROVE  LoopTypes'
<1> USE LineFacts
<1>1. CASE TakeAsk
  <2>1. driverIn' \in Seq(DriverLine) /\ bridgeIn' \in Seq(BridgeLine)
    BY <1>1, QueueTypes DEF TakeAsk, LoopTypes
  <2>2. ledger' \in [Tasks -> {"none", "pending", "over"}]
    BY <1>1 DEF TakeAsk, LoopTypes
  <2> QED
    BY <1>1, <2>1, <2>2 DEF TakeAsk, LoopTypes, Working, MoreToCome
<1>2. CASE RefuseAsk
  <2>1. bridgeIn' \in Seq(BridgeLine)
    BY <1>2, QueueTypes DEF RefuseAsk, LoopTypes
  <2>2. ledger' \in [Tasks -> {"none", "pending", "over"}]
    BY <1>2 DEF RefuseAsk, LoopTypes
  <2> QED
    BY <1>2, <2>1, <2>2 DEF RefuseAsk, LoopTypes, Working, MoreToCome
<1>3. ASSUME NEW t \in Tasks, NEW ok \in BOOLEAN, Resolve(t, ok)
      PROVE  /\ driverIn' \in Seq(DriverLine)
             /\ ledger' \in [Tasks -> {"none", "pending", "over"}]
  <2>1. ledger' \in [Tasks -> {"none", "pending", "over"}]
    BY <1>3 DEF Resolve, LoopTypes
  <2>2. CASE t \in Own
    BY <1>3, <2>1, <2>2, QueueTypes DEF Resolve
  <2>3. CASE t \notin Own
    BY <1>3, <2>1, <2>3 DEF Resolve, LoopTypes
  <2> QED
    BY <2>2, <2>3
<1>4. CASE TakeReply
  <2>1. Head(replies) \in Answer /\ Tail(replies) \in Seq(Answer)
    BY <1>4, HeadTailProperties DEF TakeReply, LoopTypes
  <2>2. PICK r \in Answer : r = Head(replies)
    BY <2>1
  <2>3. r.task \in Tasks /\ r.ok \in BOOLEAN
    BY DEF Answer
  <2>4. \/ Resolve(r.task, r.ok)
        \/ UNCHANGED <<ledger, driverIn>>
    BY <1>4, <2>2 DEF TakeReply
  <2>5. driverIn' \in Seq(DriverLine) /\ ledger' \in [Tasks -> {"none", "pending", "over"}]
    BY <1>3, <2>3, <2>4 DEF LoopTypes
  <2>6. calm' \in BOOLEAN /\ replies' \in Seq(Answer)
    BY <1>4, <2>1 DEF TakeReply, LoopTypes
  <2> QED
    BY <1>4, <2>5, <2>6 DEF TakeReply, LoopTypes, Working, MoreToCome
<1>5. ASSUME NEW t \in Tasks, TimeOut(t)
      PROVE  LoopTypes'
  <2>1. driverIn' \in Seq(DriverLine) /\ ledger' \in [Tasks -> {"none", "pending", "over"}]
    BY <1>3, <1>5 DEF TimeOut
  <2> QED
    BY <1>5, <2>1 DEF TimeOut, LoopTypes, Working, MoreToCome, bridgeVars
<1>6. ASSUME NEW t \in Tasks, RecordAgain(t)
      PROVE  LoopTypes'
  <2>1. ledger' \in [Tasks -> {"none", "pending", "over"}]
    BY <1>6 DEF RecordAgain, LoopTypes
  <2> QED
    BY <1>6, <2>1 DEF RecordAgain, LoopTypes, Working, MoreToCome, bridgeVars, driverVars
<1>7. CASE Broadcast
  <2>1. Turns + noise + 1 \in Tasks \ Own /\ noise + 1 \in 0 .. MaxNoise
    BY <1>7, LoopAssumption DEF Broadcast, LoopTypes, Tasks, Own
  <2>2. driverIn' \in Seq(DriverLine) /\ bridgeIn' \in Seq(BridgeLine)
    BY <1>7, <2>1, QueueTypes DEF Broadcast
  <2>3. ledger' \in [Tasks -> {"none", "pending", "over"}]
    BY <1>7, <2>1 DEF Broadcast, LoopTypes
  <2> QED
    BY <1>7, <2>1, <2>2, <2>3 DEF Broadcast, LoopTypes, Working, MoreToCome
<1>8. CASE Stop
  <2>1. driverIn' \in Seq(DriverLine) /\ bridgeIn' \in Seq(BridgeLine)
    BY <1>8, QueueTypes DEF Stop, LoopTypes
  <2>2. ledger' \in [Tasks -> {"none", "pending", "over"}]
    BY <1>8 DEF Stop, LoopTypes
  <2>3. replies' \in Seq(Answer)
    BY <1>8, EmptySeq DEF Stop
  <2> QED
    BY <1>8, <2>1, <2>2, <2>3 DEF Stop, LoopTypes, Working, MoreToCome
<1>9. CASE Start
  BY <1>9 DEF Start, LoopTypes, Working, MoreToCome, bridgeVars, driverVars
<1> QED
  BY <1>1, <1>2, <1>4, <1>5, <1>6, <1>7, <1>8, <1>9 DEF DaemonStep

LEMMA LoopTypesBridge ==
  ASSUME LoopTypes, BridgeStep
  PROVE  LoopTypes'
<1> USE LineFacts DEF LoopTypes, Working, MoreToCome, daemonVars, driverVars
<1>1. CASE BridgeConnect
  BY <1>1, EmptySeq DEF BridgeConnect
<1>2. CASE BridgeSubscribe \/ BridgeCutOff
  BY <1>2 DEF BridgeSubscribe, BridgeCutOff
<1>3. CASE BridgeTake
  <2>1. Head(bridgeIn) \in BridgeLine /\ Tail(bridgeIn) \in Seq(BridgeLine)
    BY <1>3, HeadTailProperties DEF BridgeTake
  <2>2. Head(bridgeIn) # Eof => Head(bridgeIn).task \in Tasks
    BY <2>1 DEF BridgeLine
  <2> QED
    BY <1>3, <2>1, <2>2 DEF BridgeTake
<1>4. CASE BridgeReply
  <2>1. PICK ok \in BOOLEAN : replies' = Append(replies, [task |-> working, ok |-> ok])
    BY <1>4 DEF BridgeReply
  <2>2. [task |-> working, ok |-> ok] \in Answer
    BY <1>4 DEF BridgeReply, Answer
  <2>3. replies' \in Seq(Answer)
    BY <2>1, <2>2, AppendProperties
  <2> QED
    BY <1>4, <2>3 DEF BridgeReply
<1>5. CASE BridgeBroken
  BY <1>5 DEF BridgeBroken
<1> QED
  BY <1>1, <1>2, <1>3, <1>4, <1>5 DEF BridgeStep

LEMMA LoopTypesDriver ==
  ASSUME LoopTypes, DriverStep
  PROVE  LoopTypes'
<1> USE LineFacts DEF LoopTypes, Working, MoreToCome, daemonVars, bridgeVars, Over
<1>1. CASE DriverStart \/ Ask \/ AskDies \/ WaitTimeout
  BY <1>1 DEF DriverStart, Ask, AskDies, WaitTimeout
<1>2. ASSUME driverIn # << >>
      PROVE  /\ Tail(driverIn) \in Seq(DriverLine)
             /\ Head(driverIn) \in DriverLine
             /\ Head(driverIn) # Eof => Head(driverIn).task \in Tasks
  <2>1. Head(driverIn) \in DriverLine /\ Tail(driverIn) \in Seq(DriverLine)
    BY <1>2, HeadTailProperties
  <2> QED
    BY <2>1 DEF DriverLine, Line
<1>3. CASE AskReads
  BY <1>2, <1>3 DEF AskReads
<1>4. CASE WaitReads
  <2>1. PICK l \in DriverLine : l = Head(driverIn)
    BY <1>2, <1>4 DEF WaitReads
  <2>2. UNCHANGED reply \/ (reply' = [reply EXCEPT ![turn] = l.task] /\ l # Eof)
    BY <1>4, <2>1 DEF WaitReads, EndTurn
  <2>3. reply' \in [Own -> Tasks \cup {None}]
    BY <1>2, <1>4, <2>1, <2>2 DEF WaitReads
  <2>4. driver' \in {"new", "ready", "asking", "waiting", "composing"} \cup Over
    BY <1>4 DEF WaitReads, EndTurn
  <2>5. driver' = "composing" => turn # Turns
    BY <1>4 DEF WaitReads, EndTurn
  <2>6. turn # Turns => turn + 1 \in Own
    BY LoopAssumption DEF Own
  <2> QED
    BY <1>2, <1>4, <2>3, <2>4, <2>5, <2>6 DEF WaitReads
<1>5. CASE Compose
  <2>1. turn' \in Own /\ driver' \in {"ready", "failed"}
    BY <1>5 DEF Compose
  <2> QED
    BY <1>5, <2>1 DEF Compose
<1> QED
  BY <1>1, <1>3, <1>4, <1>5 DEF DriverStep

LEMMA LoopTypesStep ==
  ASSUME LoopTypes, [Next]_vars
  PROVE  LoopTypes'
<1>1. CASE UNCHANGED vars
  BY <1>1 DEF LoopTypes, Working, MoreToCome, vars, daemonVars, bridgeVars, driverVars
<1> QED
  BY <1>1, LoopTypesDaemon, LoopTypesBridge, LoopTypesDriver DEF Next

-----------------------------------------------------------------------------
(* The conversation, left alone.                                             *)

\* What the loop has asked for and the daemon has told it, at each of its states.
TurnSoFar ==
  \/ /\ driver \in {"new", "ready"} /\ ~asking
     /\ ledger[turn] = "none" /\ driverIn = << >>
  \/ /\ driver = "asking" /\ asking
     /\ ledger[turn] = "none" /\ driverIn = << >>
  \/ /\ driver = "asking" /\ ~asking
     /\ ledger[turn] = "pending" /\ driverIn = <<Ack(turn)>>
  \/ /\ driver = "asking" /\ ~asking
     /\ ledger[turn] = "over" /\ driverIn = <<Ack(turn), Result(turn, TRUE)>>
  \/ /\ driver = "waiting" /\ ~asking /\ want = turn
     /\ ledger[turn] = "pending" /\ driverIn = << >>
  \/ /\ driver = "waiting" /\ ~asking /\ want = turn
     /\ ledger[turn] = "over" /\ driverIn = <<Result(turn, TRUE)>>
  \/ /\ driver = "composing" /\ ~asking
     /\ ledger[turn] = "over" /\ driverIn = << >>

NothingElse ==
  /\ driver = "new" => turn = 1 /\ want = None
  /\ \A t \in Tasks : /\ t > turn => ledger[t] = "none"
                      /\ t < turn => ledger[t] = "over"

Undisturbed ==
  /\ up /\ life = 0 /\ driverLife = 0
  /\ driver \notin Over => TurnSoFar /\ NothingElse
  /\ driver \in {"stopped", "failed"} => turn = 1 /\ want = None

LEMMA TupleFacts ==
  \A a, b : /\ Append(<< >>, a) = <<a>> /\ Append(<<a>>, b) = <<a, b>>
            /\ Head(<<a>>) = a /\ Head(<<a, b>>) = a
            /\ Tail(<<a>>) = << >> /\ Tail(<<a, b>>) = <<b>>
            /\ <<a>> # << >> /\ <<a, b>> # << >>
<1> TAKE a, b
<1>1. Append(<< >>, a) = <<a>>
  OBVIOUS
<1>2. Append(<<a>>, b) = <<a, b>>
  <2> DEFINE S == {a, b}
  <2>1. <<a>> \in Seq(S) /\ b \in S /\ Len(<<a>>) = 1 /\ <<a>>[1] = a
    OBVIOUS
  <2>2. /\ Append(<<a>>, b) \in Seq(S) /\ Len(Append(<<a>>, b)) = 2
        /\ Append(<<a>>, b)[1] = a /\ Append(<<a>>, b)[2] = b
    BY <2>1, AppendProperties
  <2>3. <<a, b>> \in Seq(S) /\ Len(<<a, b>>) = 2 /\ <<a, b>>[1] = a /\ <<a, b>>[2] = b
    OBVIOUS
  <2> HIDE DEF S
  <2>4. \A p, q \in Seq(S) : Len(p) = 2 /\ Len(q) = 2 /\ p[1] = q[1] /\ p[2] = q[2] => p = q
    <3> TAKE p, q \in Seq(S)
    <3> HAVE Len(p) = 2 /\ Len(q) = 2 /\ p[1] = q[1] /\ p[2] = q[2]
    <3>1. \A i \in 1 .. Len(p) : p[i] = q[i]
      BY SMT
    <3> QED
      BY <3>1, SeqEqual
  <2> QED
    BY <2>2, <2>3, <2>4, Zenon
<1>3. Head(<<a>>) = a /\ Head(<<a, b>>) = a
  OBVIOUS
<1>4. Tail(<<a>>) = << >>
  OBVIOUS
<1>5. Tail(<<a, b>>) = <<b>>
  OBVIOUS
<1>6. <<a>> # << >> /\ <<a, b>> # << >>
  OBVIOUS
<1> QED
  BY <1>1, <1>2, <1>3, <1>4, <1>5, <1>6

LEMMA CalmInit == Init => (calm => Undisturbed)
<1> SUFFICES ASSUME Init, calm PROVE Undisturbed
  OBVIOUS
<1>1. \A t \in Tasks : ledger[t] = "none" /\ ~(t < 1)
  BY LineFacts, LoopAssumption DEF Init, Tasks
<1> QED
  BY <1>1, LineFacts DEF Init, Undisturbed, TurnSoFar, NothingElse, Over

LEMMA CalmTakeAsk ==
  ASSUME LoopTypes, Undisturbed, TakeAsk
  PROVE  Undisturbed'
<1>1. /\ UNCHANGED <<up, life, driverLife, driver, turn, want>>
      /\ asking /\ ~asking'
  BY DEF TakeAsk
<1>2. CASE driver \in Over
  BY <1>1, <1>2 DEF Undisturbed
<1>3. CASE driver \notin Over
  <2>1. driver = "asking" /\ driverIn = << >> /\ NothingElse
    BY <1>1, <1>3 DEF Undisturbed, TurnSoFar
  <2>2. Converses
    BY <1>3, <2>1 DEF Undisturbed, Converses, Over
  <2>3. driverIn' = <<Ack(turn)>>
    BY <2>1, <2>2, TupleFacts DEF TakeAsk, ToDriver
  <2>4. ledger'[turn] = "pending" /\ \A t \in Tasks \ {turn} : ledger'[t] = ledger[t]
    BY LineFacts DEF TakeAsk, LoopTypes
  <2>5. TurnSoFar'
    BY <1>1, <2>1, <2>3, <2>4 DEF TurnSoFar
  <2>6. NothingElse'
    BY <1>1, <2>1, <2>4, LineFacts DEF NothingElse, LoopTypes
  <2> QED
    BY <1>1, <2>1, <2>5, <2>6 DEF Undisturbed, Over
<1> QED
  BY <1>2, <1>3

LEMMA CalmTakeReply ==
  ASSUME LoopTypes, Undisturbed, TakeReply, calm'
  PROVE  Undisturbed'
<1>1. /\ UNCHANGED <<up, life, driverLife, driver, turn, want, asking>>
      /\ replies # << >>
  BY DEF TakeReply
<1>2. CASE driver \in Over
  BY <1>1, <1>2 DEF Undisturbed
<1>3. CASE driver \notin Over
  <2>1. PICK r \in Answer : r = Head(replies)
    BY <1>1, HeadTailProperties DEF LoopTypes
  <2>2. r.task \in Tasks /\ r.ok = TRUE
    BY <2>1 DEF Answer, TakeReply
  <2>3. CASE ledger[r.task] # "pending"
    <3>1. UNCHANGED <<ledger, driverIn>>
      BY <2>1, <2>3 DEF TakeReply
    <3> QED
      BY <1>1, <3>1 DEF Undisturbed, TurnSoFar, NothingElse
  <2>4. CASE ledger[r.task] = "pending"
    <3>1. r.task = turn
      <4>1. r.task \in Nat /\ turn \in Nat
        BY <2>2, LineFacts DEF LoopTypes
      <4>2. r.task > turn => ledger[r.task] = "none"
        BY <1>3, <2>2 DEF Undisturbed, NothingElse
      <4>3. r.task < turn => ledger[r.task] = "over"
        BY <1>3, <2>2 DEF Undisturbed, NothingElse
      <4> QED
        BY <2>4, <4>1, <4>2, <4>3
    <3>2. Resolve(turn, TRUE)
      BY <2>1, <2>2, <2>4, <3>1 DEF TakeReply
    <3>3. /\ ledger'[turn] = "over" /\ \A t \in Tasks \ {turn} : ledger'[t] = ledger[t]
          /\ ToDriver(Result(turn, TRUE))
      BY <3>2, LineFacts DEF Resolve, LoopTypes
    <3>4. \/ driver = "asking" /\ ~asking /\ driverIn = <<Ack(turn)>>
          \/ driver = "waiting" /\ ~asking /\ want = turn /\ driverIn = << >>
      BY <1>3, <2>4, <3>1 DEF Undisturbed, TurnSoFar
    <3>5. driverIn' = Append(driverIn, Result(turn, TRUE))
      BY <3>3, <3>4 DEF ToDriver, Undisturbed, Converses, Over
    <3>6. TurnSoFar'
      BY <1>1, <3>3, <3>4, <3>5, TupleFacts DEF TurnSoFar, Result
    <3>7. NothingElse'
      BY <1>1, <1>3, <3>3, <3>4, LineFacts DEF Undisturbed, NothingElse, LoopTypes
    <3> QED
      BY <1>1, <1>3, <3>6, <3>7 DEF Undisturbed, Over
  <2> QED
    BY <2>3, <2>4
<1> QED
  BY <1>2, <1>3

LEMMA CalmDriver ==
  ASSUME LoopTypes, Undisturbed, DriverStep, calm'
  PROVE  Undisturbed'
<1>1. CASE DriverStart
  <2>1. UNCHANGED <<up, life, asking, turn, want, ledger, driverIn>> /\ driver = "new"
    BY <1>1 DEF DriverStart, daemonVars
  <2>2. TurnSoFar /\ NothingElse /\ turn = 1 /\ want = None
    BY <2>1 DEF Undisturbed, NothingElse, Over
  <2>3. driver' \in {"ready", "failed"} /\ driverLife' = 0
    BY <1>1 DEF DriverStart, Undisturbed
  <2> QED
    BY <2>1, <2>2, <2>3 DEF Undisturbed, TurnSoFar, NothingElse, Over
<1>2. CASE Ask
  <2>1. UNCHANGED <<up, life, driverLife, turn, want, ledger, driverIn>> /\ driver = "ready"
    BY <1>2 DEF Ask, daemonVars
  <2>2. TurnSoFar /\ NothingElse /\ Converses
    BY <2>1 DEF Undisturbed, Converses, Over
  <2>3. driver' = "asking" /\ asking'
    BY <1>2, <2>2 DEF Ask
  <2> QED
    BY <2>1, <2>2, <2>3 DEF Undisturbed, TurnSoFar, NothingElse, Over
<1>3. CASE AskReads
  <2>1. /\ UNCHANGED <<up, life, driverLife, turn, ledger, asking>>
        /\ driver = "asking" /\ driverIn # << >>
    BY <1>3 DEF AskReads, daemonVars
  <2>2. TurnSoFar /\ NothingElse
    BY <2>1 DEF Undisturbed, Over
  <2>3. /\ Head(driverIn) = Ack(turn)
        /\ \/ ~asking /\ ledger[turn] = "pending" /\ Tail(driverIn) = << >>
           \/ ~asking /\ ledger[turn] = "over" /\ Tail(driverIn) = <<Result(turn, TRUE)>>
    BY <2>1, <2>2, TupleFacts DEF TurnSoFar
  <2>4. Ack(turn) # Eof /\ Ack(turn).task = turn
    BY LineFacts DEF Ack, Eof, LoopTypes
  <2>5. driver' = "waiting" /\ want' = turn /\ driverIn' = Tail(driverIn)
    BY <1>3, <2>3, <2>4 DEF AskReads
  <2> QED
    BY <2>1, <2>2, <2>3, <2>5 DEF Undisturbed, TurnSoFar, NothingElse, Over
<1>4. CASE AskDies
  <2>1. driver = "asking" /\ driverIn = << >> /\ ~asking
    BY <1>4 DEF AskDies
  <2> QED
    BY <2>1, TupleFacts DEF Undisturbed, TurnSoFar, Over
<1>5. CASE WaitReads
  <2>1. /\ UNCHANGED <<up, life, driverLife, turn, want, ledger, asking>>
        /\ driver = "waiting" /\ driverIn # << >>
    BY <1>5 DEF WaitReads, daemonVars
  <2>2. TurnSoFar /\ NothingElse
    BY <2>1 DEF Undisturbed, Over
  <2>3. /\ Head(driverIn) = Result(turn, TRUE) /\ Tail(driverIn) = << >>
        /\ ~asking /\ want = turn /\ ledger[turn] = "over"
    BY <2>1, <2>2, TupleFacts DEF TurnSoFar
  <2>4. /\ Result(turn, TRUE) # Eof /\ Result(turn, TRUE).task = turn
        /\ Result(turn, TRUE).kind = "task_result" /\ Result(turn, TRUE).ok = TRUE
    BY LineFacts DEF Result, Eof, LoopTypes
  <2>5. EndTurn(Result(turn, TRUE)) /\ driverIn' = Tail(driverIn)
    BY <1>5, <2>3, <2>4 DEF WaitReads
  <2>6. driver' \in {"done", "composing"}
    BY <2>4, <2>5 DEF EndTurn
  <2> QED
    BY <2>1, <2>2, <2>3, <2>5, <2>6 DEF Undisturbed, TurnSoFar, NothingElse, Over
<1>6. CASE WaitTimeout
  <2>1. driver = "waiting" /\ driverIn = << >> /\ ledger[want] # "pending"
    BY <1>6 DEF WaitTimeout
  <2> QED
    BY <2>1, TupleFacts DEF Undisturbed, TurnSoFar, Over
<1>7. CASE Compose
  <2>1. /\ UNCHANGED <<up, life, driverLife, want, ledger, asking, driverIn>>
        /\ driver = "composing" /\ driver' = "ready" /\ turn' = turn + 1
    BY <1>7 DEF Compose, daemonVars
  <2>2. TurnSoFar /\ NothingElse /\ turn + 1 \in Own /\ turn \in Nat
    BY <2>1, LineFacts DEF Undisturbed, Over, LoopTypes, MoreToCome
  <2>3. ~asking /\ driverIn = << >> /\ ledger[turn] = "over"
    BY <2>1, <2>2 DEF TurnSoFar
  <2>4. ledger[turn + 1] = "none"
    BY <2>2, LineFacts DEF NothingElse
  <2>5. \A t \in Tasks : /\ t > turn + 1 => ledger[t] = "none"
                         /\ t < turn + 1 => ledger[t] = "over"
    BY <2>2, <2>3, LineFacts DEF NothingElse
  <2> QED
    BY <2>1, <2>3, <2>4, <2>5 DEF Undisturbed, TurnSoFar, NothingElse, Over
<1> QED
  BY <1>1, <1>2, <1>3, <1>4, <1>5, <1>6, <1>7 DEF DriverStep

LEMMA CalmStep ==
  ASSUME LoopTypes, calm => Undisturbed, [Next]_vars
  PROVE  calm' => Undisturbed'
<1> SUFFICES ASSUME calm' PROVE Undisturbed'
  OBVIOUS
<1>1. CASE UNCHANGED <<daemonVars, driverVars, calm>>
  BY <1>1 DEF daemonVars, driverVars, Undisturbed, TurnSoFar, NothingElse
<1>2. CASE UNCHANGED vars
  BY <1>1, <1>2 DEF vars
<1>3. CASE BridgeStep
  BY <1>1, <1>3 DEF BridgeStep, BridgeConnect, BridgeSubscribe, BridgeCutOff, BridgeTake,
                    BridgeReply, BridgeBroken
<1>4. CASE DaemonStep
  <2>1. TakeAsk \/ TakeReply \/ Start
    BY <1>4 DEF DaemonStep, RefuseAsk, TimeOut, RecordAgain, Broadcast, Stop
  <2>2. calm
    BY <2>1 DEF TakeAsk, TakeReply, Start, LoopTypes
  <2>3. ~Start
    BY <2>2 DEF Start, Undisturbed
  <2> QED
    BY <2>1, <2>2, <2>3, CalmTakeAsk, CalmTakeReply
<1>5. CASE DriverStep
  <2>1. calm
    BY <1>5 DEF DriverStep, DriverStart, Ask, AskReads, AskDies, WaitReads, WaitTimeout,
                Compose
  <2> QED
    BY <1>5, <2>1, CalmDriver
<1> QED
  BY <1>2, <1>3, <1>4, <1>5 DEF Next

\* For any number of turns, other tasks and restarts: a loop that gives up had been
\* disturbed by then, or had not found the bridge when it started.
THEOREM LoopStopsForCause == Spec => []StopsForCause
<1>1. Init => LoopTypes /\ (calm => Undisturbed)
  BY LoopTypesInit, CalmInit
<1>2. LoopTypes /\ (calm => Undisturbed) /\ [Next]_vars
        => (LoopTypes /\ (calm => Undisturbed))'
  BY LoopTypesStep, CalmStep
<1>3. (calm => Undisturbed) => StopsForCause
  BY DEF Undisturbed, StopsForCause
<1> QED
  BY <1>1, <1>2, <1>3, PTL DEF Spec

-----------------------------------------------------------------------------
(* The conversation: whose result ends a turn.                               *)

IsResult(l, n) == l.kind = "task_result" /\ l.task = n

\* How many results of n a queue holds.
NoResult(q, n)  == \A i \in 1 .. Len(q) : ~IsResult(q[i], n)
OneResult(q, n) ==
  \A i, j \in 1 .. Len(q) : IsResult(q[i], n) /\ IsResult(q[j], n) => i = j
TwoResults(q, n) ==
  \A i, j, k \in 1 .. Len(q) :
     IsResult(q[i], n) /\ IsResult(q[j], n) /\ IsResult(q[k], n) => i = j \/ j = k \/ i = k

\* How many the daemon can still give: none, one, two.
Spent(n)    == ledger[n] = "over" /\ n \in again
OneToGo(n)  == (ledger[n] = "over" /\ n \notin again) \/ (ledger[n] = "pending" /\ n \in again)
TwoToGo(n)  == ledger[n] = "none" \/ (ledger[n] = "pending" /\ n \notin again)

\* How many the loop may still read.
NoneLeft(n) == Spent(n) /\ NoResult(driverIn, n)
OneLeft(n)  == \/ Spent(n) /\ OneResult(driverIn, n)
               \/ OneToGo(n) /\ NoResult(driverIn, n)
TwoLeft(n)  == \/ Spent(n) /\ TwoResults(driverIn, n)
               \/ OneToGo(n) /\ OneResult(driverIn, n)
               \/ TwoToGo(n) /\ NoResult(driverIn, n)

\* A task has two results at most; the turn that it was for has read one of them,
\* and the turn that took another for its answer the second.
ResultsLeft ==
  \A n \in Own :
     /\ TwoLeft(n)
     /\ n < turn \/ (n = turn /\ driver = "composing") => OneLeft(n)
     /\ driver = "waiting" /\ want = n /\ n < turn => NoneLeft(n)

\* A turn asks once, and its task is unknown before.
NotAsked ==
  /\ \A n \in Own : n > turn => ledger[n] = "none"
  /\ driver \in {"new", "ready"} \/ asking => ledger[turn] = "none"
  /\ asking => driver \in {"asking", "waiting"} \cup Over
  /\ driver = "waiting" => want \in Tasks /\ (want \in Own => want <= turn)
  /\ driver = "waiting" /\ want = turn => ~asking

\* The acknowledgement comes once, before the results, and in its turn.
AckPlace(q, n) ==
  \A i \in 1 .. Len(q) : q[i].kind = "ack" =>
    /\ q[i].task = n
    /\ \A j \in 1 .. i - 1 : q[j].kind # "ack" /\ ~IsResult(q[j], n)
NoAck(q) == \A i \in 1 .. Len(q) : q[i].kind # "ack"
AckFirst ==
  /\ AckPlace(driverIn, turn)
  /\ \/ NoAck(driverIn)
     \/ /\ ~asking /\ driver \in {"asking", "waiting"} \cup Over
        /\ ~(driver = "waiting" /\ want = turn)

TurnsInv == ResultsLeft /\ NotAsked /\ AckFirst /\ TurnsOwnReply

\* What a queue holds after a line more, and after a line less.
LEMMA QueueCounts ==
  ASSUME NEW q \in Seq(DriverLine), NEW n
  PROVE  /\ NoResult(q, n) => OneResult(q, n)
         /\ OneResult(q, n) => TwoResults(q, n)
BY DEF NoResult, OneResult, TwoResults

LEMMA QueueGrows ==
  ASSUME NEW q \in Seq(DriverLine), NEW l \in DriverLine, NEW n
  PROVE  /\ NoResult(q, n) => OneResult(Append(q, l), n)
         /\ OneResult(q, n) => TwoResults(Append(q, l), n)
         /\ ~IsResult(l, n) => /\ NoResult(q, n) => NoResult(Append(q, l), n)
                               /\ OneResult(q, n) => OneResult(Append(q, l), n)
                               /\ TwoResults(q, n) => TwoResults(Append(q, l), n)
<1> DEFINE s == Append(q, l)
<1>1. Len(q) \in Nat /\ Len(s) = Len(q) + 1 /\ s[Len(q) + 1] = l
  BY AppendProperties
<1>2. \A i \in 1 .. Len(s) : i = Len(q) + 1 \/ (i \in 1 .. Len(q) /\ s[i] = q[i])
  <2>1. \A i \in 1 .. Len(q) : s[i] = q[i]
    BY AppendProperties
  <2> QED
    BY <1>1, <2>1
<1> HIDE DEF s
<1>3. NoResult(q, n) => OneResult(s, n)
  BY <1>1, <1>2 DEF NoResult, OneResult
<1>4. OneResult(q, n) => TwoResults(s, n)
  BY <1>1, <1>2 DEF OneResult, TwoResults
<1>5. ASSUME ~IsResult(l, n)
      PROVE  /\ NoResult(q, n) => NoResult(s, n)
             /\ OneResult(q, n) => OneResult(s, n)
             /\ TwoResults(q, n) => TwoResults(s, n)
  <2>1. \A i \in 1 .. Len(s) : IsResult(s[i], n) => i \in 1 .. Len(q) /\ IsResult(q[i], n)
    BY <1>1, <1>2, <1>5
  <2> QED
    BY <2>1 DEF NoResult, OneResult, TwoResults
<1> QED
  BY <1>3, <1>4, <1>5 DEF s

LEMMA QueueShrinks ==
  ASSUME NEW q \in Seq(DriverLine), q # << >>, NEW n
  PROVE  /\ NoResult(q, n) => NoResult(Tail(q), n) /\ ~IsResult(Head(q), n)
         /\ OneResult(q, n) => OneResult(Tail(q), n)
         /\ TwoResults(q, n) => TwoResults(Tail(q), n)
         /\ IsResult(Head(q), n) => /\ OneResult(q, n) => NoResult(Tail(q), n)
                                    /\ TwoResults(q, n) => OneResult(Tail(q), n)
<1> DEFINE s == Tail(q)
<1>1. /\ Len(q) \in Nat \ {0} /\ Len(s) = Len(q) - 1 /\ Head(q) = q[1]
      /\ \A i \in 1 .. Len(s) : s[i] = q[i + 1]
  BY HeadTailProperties
<1> HIDE DEF s
<1>2. \A i \in 1 .. Len(s) : i + 1 \in 1 .. Len(q) /\ s[i] = q[i + 1] /\ i + 1 # 1
  BY <1>1
<1>3. 1 \in 1 .. Len(q)
  BY <1>1
<1>4. \A i, j \in 1 .. Len(s) : i + 1 = j + 1 => i = j
  BY <1>1
<1>5. NoResult(q, n) => NoResult(s, n) /\ ~IsResult(Head(q), n)
  BY <1>1, <1>2, <1>3 DEF NoResult
<1>6. OneResult(q, n) => OneResult(s, n)
  BY <1>2, <1>4 DEF OneResult
<1>7. TwoResults(q, n) => TwoResults(s, n)
  BY <1>2, <1>4 DEF TwoResults
<1>8. IsResult(Head(q), n) /\ OneResult(q, n) => NoResult(s, n)
  BY <1>1, <1>2, <1>3 DEF OneResult, NoResult
<1>9. IsResult(Head(q), n) /\ TwoResults(q, n) => OneResult(s, n)
  BY <1>1, <1>2, <1>3, <1>4 DEF TwoResults, OneResult
<1> QED
  BY <1>5, <1>6, <1>7, <1>8, <1>9 DEF s

\* A step that leaves the record of n alone and queues no result of it leaves n no more
\* results to be read than it had.
LEMMA LeftKept ==
  ASSUME LoopTypes, NEW n \in Own,
         ledger'[n] = ledger[n], n \in again' <=> n \in again,
         \/ driverIn' = driverIn
         \/ \E l \in DriverLine : ~IsResult(l, n) /\ driverIn' = Append(driverIn, l)
         \/ driverIn # << >> /\ driverIn' = Tail(driverIn)
  PROVE  /\ TwoLeft(n) => TwoLeft(n)'
         /\ OneLeft(n) => OneLeft(n)'
         /\ NoneLeft(n) => NoneLeft(n)'
<1>1. /\ NoResult(driverIn, n) => NoResult(driverIn, n)'
      /\ OneResult(driverIn, n) => OneResult(driverIn, n)'
      /\ TwoResults(driverIn, n) => TwoResults(driverIn, n)'
  <2>1. driverIn \in Seq(DriverLine)
    BY DEF LoopTypes
  <2>2. CASE driverIn' = driverIn
    BY <2>2
  <2>3. ASSUME NEW l \in DriverLine, ~IsResult(l, n), driverIn' = Append(driverIn, l)
        PROVE  /\ NoResult(driverIn, n) => NoResult(driverIn, n)'
               /\ OneResult(driverIn, n) => OneResult(driverIn, n)'
               /\ TwoResults(driverIn, n) => TwoResults(driverIn, n)'
    BY <2>1, <2>3, QueueGrows
  <2>4. CASE driverIn # << >> /\ driverIn' = Tail(driverIn)
    BY <2>1, <2>4, QueueShrinks
  <2> QED
    BY <2>2, <2>3, <2>4
<1> QED
  BY <1>1 DEF TwoLeft, OneLeft, NoneLeft, Spent, OneToGo, TwoToGo

\* A result given is one less to be given.
LEMMA LeftResolved ==
  ASSUME LoopTypes, NEW n \in Own, ledger[n] = "pending", ledger'[n] = "over",
         n \in again' <=> n \in again,
         \/ driverIn' = driverIn
         \/ \E l \in DriverLine : driverIn' = Append(driverIn, l)
  PROVE  /\ TwoLeft(n) => TwoLeft(n)'
         /\ OneLeft(n) => OneLeft(n)'
         /\ ~NoneLeft(n)
<1>1. /\ NoResult(driverIn, n) => OneResult(driverIn, n)'
      /\ OneResult(driverIn, n) => TwoResults(driverIn, n)'
  <2>1. driverIn \in Seq(DriverLine)
    BY DEF LoopTypes
  <2>2. CASE driverIn' = driverIn
    BY <2>1, <2>2, QueueCounts
  <2>3. ASSUME NEW l \in DriverLine, driverIn' = Append(driverIn, l)
        PROVE  /\ NoResult(driverIn, n) => OneResult(driverIn, n)'
               /\ OneResult(driverIn, n) => TwoResults(driverIn, n)'
    BY <2>1, <2>3, QueueGrows
  <2> QED
    BY <2>2, <2>3
<1> QED
  BY <1>1 DEF TwoLeft, OneLeft, NoneLeft, Spent, OneToGo, TwoToGo

\* So is a result read.
LEMMA LeftRead ==
  ASSUME LoopTypes, NEW n \in Own, UNCHANGED <<ledger, again>>,
         driverIn # << >>, IsResult(Head(driverIn), n), driverIn' = Tail(driverIn)
  PROVE  /\ TwoLeft(n) => OneLeft(n)'
         /\ OneLeft(n) => NoneLeft(n)'
         /\ ~NoneLeft(n) /\ (TwoLeft(n) => ledger[n] # "none")
<1>1. /\ ~NoResult(driverIn, n)
      /\ OneResult(driverIn, n) => NoResult(driverIn, n)'
      /\ TwoResults(driverIn, n) => OneResult(driverIn, n)'
  BY QueueShrinks DEF LoopTypes
<1> QED
  BY <1>1 DEF TwoLeft, OneLeft, NoneLeft, Spent, OneToGo, TwoToGo

\* The acknowledgement stays first as the queue grows and shrinks.
LEMMA AckMoves ==
  ASSUME NEW q \in Seq(DriverLine), NEW n
  PROVE  /\ \A l \in DriverLine :
              l.kind # "ack" =>
                /\ NoAck(q) => NoAck(Append(q, l))
                /\ AckPlace(q, n) => AckPlace(Append(q, l), n)
         /\ \A l \in DriverLine :
              NoAck(q) /\ NoResult(q, n) /\ l.task = n => AckPlace(Append(q, l), n)
         /\ q # << >> /\ AckPlace(q, n) =>
              /\ AckPlace(Tail(q), n)
              /\ Head(q).kind = "ack" \/ IsResult(Head(q), n) => NoAck(Tail(q))
         /\ q # << >> /\ NoAck(q) => NoAck(Tail(q)) /\ Head(q).kind # "ack"
         /\ NoAck(q) => AckPlace(q, n)
<1>1. ASSUME NEW l \in DriverLine
      PROVE  /\ l.kind # "ack" =>
                /\ NoAck(q) => NoAck(Append(q, l))
                /\ AckPlace(q, n) => AckPlace(Append(q, l), n)
             /\ NoAck(q) /\ NoResult(q, n) /\ l.task = n => AckPlace(Append(q, l), n)
  <2> DEFINE s == Append(q, l)
  <2>1. Len(q) \in Nat /\ Len(s) = Len(q) + 1 /\ s[Len(q) + 1] = l
    BY AppendProperties
  <2>2. \A i \in 1 .. Len(q) : s[i] = q[i]
    BY AppendProperties
  <2> HIDE DEF s
  <2>3. \A i \in 1 .. Len(s) : i = Len(q) + 1 \/ i \in 1 .. Len(q)
    BY <2>1
  <2>4. \A i \in 1 .. Len(s) : \A j \in 1 .. i - 1 : j \in 1 .. Len(q)
    BY <2>1
  <2>5. l.kind # "ack" /\ NoAck(q) => NoAck(s)
    BY <2>1, <2>2, <2>3 DEF NoAck
  <2>6. l.kind # "ack" /\ AckPlace(q, n) => AckPlace(s, n)
    BY <2>1, <2>2, <2>3, <2>4 DEF AckPlace
  <2>7. NoAck(q) /\ NoResult(q, n) /\ l.task = n => AckPlace(s, n)
    BY <2>1, <2>2, <2>3, <2>4 DEF NoAck, NoResult, AckPlace
  <2> QED
    BY <2>5, <2>6, <2>7 DEF s
<1>2. ASSUME q # << >>
      PROVE  /\ AckPlace(q, n) =>
                  /\ AckPlace(Tail(q), n)
                  /\ Head(q).kind = "ack" \/ IsResult(Head(q), n) => NoAck(Tail(q))
             /\ NoAck(q) => NoAck(Tail(q)) /\ Head(q).kind # "ack"
  <2> DEFINE s == Tail(q)
  <2>1. /\ Len(q) \in Nat \ {0} /\ Len(s) = Len(q) - 1 /\ Head(q) = q[1]
        /\ \A i \in 1 .. Len(s) : s[i] = q[i + 1]
    BY <1>2, HeadTailProperties
  <2> HIDE DEF s
  <2>2. \A i \in 1 .. Len(s) : i + 1 \in 1 .. Len(q) /\ 1 \in 1 .. (i + 1) - 1
    BY <2>1
  <2>3. \A i \in 1 .. Len(s) : \A j \in 1 .. i - 1 : j \in 1 .. Len(s) /\ j + 1 \in 1 .. (i + 1) - 1
    BY <2>1
  <2>4. AckPlace(q, n) => AckPlace(s, n)
    <3> SUFFICES ASSUME AckPlace(q, n), NEW i \in 1 .. Len(s), s[i].kind = "ack"
                 PROVE  /\ s[i].task = n
                        /\ \A j \in 1 .. i - 1 : s[j].kind # "ack" /\ ~IsResult(s[j], n)
      BY DEF AckPlace
    <3>1. i + 1 \in 1 .. Len(q) /\ q[i + 1] = s[i]
      BY <2>1, <2>2
    <3>2. /\ q[i + 1].task = n
          /\ \A j \in 1 .. (i + 1) - 1 : q[j].kind # "ack" /\ ~IsResult(q[j], n)
      BY <3>1 DEF AckPlace
    <3>3. \A j \in 1 .. i - 1 : s[j] = q[j + 1] /\ j + 1 \in 1 .. (i + 1) - 1
      BY <2>1, <2>3
    <3> QED
      BY <3>1, <3>2, <3>3
  <2>5. AckPlace(q, n) /\ (Head(q).kind = "ack" \/ IsResult(Head(q), n)) => NoAck(s)
    BY <2>1, <2>2 DEF AckPlace, NoAck
  <2>6. NoAck(q) => NoAck(s) /\ Head(q).kind # "ack"
    BY <2>1, <2>2 DEF NoAck
  <2> QED
    BY <2>4, <2>5, <2>6 DEF s
<1>3. NoAck(q) => AckPlace(q, n)
  BY DEF NoAck, AckPlace
<1> QED
  BY <1>1, <1>2, <1>3

LEMMA TurnsTakeAsk ==
  ASSUME LoopTypes, TurnsInv, TakeAsk \/ RefuseAsk
  PROVE  TurnsInv'
<1>1. /\ UNCHANGED <<again, driver, turn, want, reply>> /\ asking /\ ~asking'
      /\ driver \in {"asking", "waiting"} \cup Over /\ ledger[turn] = "none"
      /\ driver = "waiting" => want # turn
  BY DEF TakeAsk, RefuseAsk, TurnsInv, NotAsked
<1>2. /\ ledger'[turn] \in {"none", "pending"}
      /\ \A n \in Own \ {turn} : ledger'[n] = ledger[n]
  <2>1. turn \in Tasks /\ Own \subseteq Tasks
    BY LineFacts DEF LoopTypes
  <2>2. ledger' = [ledger EXCEPT ![turn] = "pending"] \/ ledger' = ledger
    BY DEF TakeAsk, RefuseAsk
  <2> QED
    BY <1>1, <2>1, <2>2 DEF LoopTypes
<1>3. turn \in Own /\ Ack(turn) \in DriverLine /\ driverIn \in Seq(DriverLine)
  BY LineFacts DEF LoopTypes
<1>4. driverIn' = driverIn \/ driverIn' = Append(driverIn, Ack(turn))
  BY DEF TakeAsk, RefuseAsk, ToDriver
<1>5. NoAck(driverIn) /\ NoResult(driverIn, turn)
  BY <1>1, <1>3 DEF TurnsInv, AckFirst, ResultsLeft, TwoLeft, Spent, OneToGo
<1>6. NoResult(driverIn, turn)' /\ OneResult(driverIn, turn)'
  <2>1. ~IsResult(Ack(turn), turn)
    BY DEF Ack, IsResult
  <2>2. /\ NoResult(Append(driverIn, Ack(turn)), turn)
        /\ OneResult(Append(driverIn, Ack(turn)), turn)
    BY <1>3, <1>5, <2>1, QueueGrows
  <2>3. OneResult(driverIn, turn)
    BY <1>3, <1>5, QueueCounts
  <2> QED
    BY <1>1, <1>4, <1>5, <2>2, <2>3
<1>7. TwoLeft(turn)'
  BY <1>1, <1>2, <1>6 DEF TwoLeft, OneToGo, TwoToGo
<1>8. ASSUME NEW n \in Own \ {turn}
      PROVE  /\ TwoLeft(n) => TwoLeft(n)'
             /\ OneLeft(n) => OneLeft(n)'
             /\ NoneLeft(n) => NoneLeft(n)'
  <2>1. ~IsResult(Ack(turn), n)
    BY DEF Ack, IsResult
  <2> QED
    BY <1>1, <1>2, <1>3, <1>4, <2>1, LeftKept
<1>9. ResultsLeft'
  BY <1>1, <1>7, <1>8, LineFacts DEF TurnsInv, ResultsLeft, Over, LoopTypes
<1>10. NotAsked'
  BY <1>1, <1>2, LineFacts DEF TurnsInv, NotAsked, Over, LoopTypes
<1>11. AckFirst'
  <2>1. Ack(turn).task = turn
    BY DEF Ack
  <2>2. AckPlace(driverIn, turn) /\ AckPlace(Append(driverIn, Ack(turn)), turn)
    BY <1>3, <1>5, <2>1, AckMoves
  <2>3. AckPlace(driverIn, turn)'
    BY <1>1, <1>4, <2>2
  <2> QED
    BY <1>1, <2>3 DEF AckFirst
<1> QED
  BY <1>1, <1>9, <1>10, <1>11 DEF TurnsInv, TurnsOwnReply

\* The steps of the daemon at which the turn and the loop stay as they are.
LEMMA TurnsKept ==
  ASSUME LoopTypes, TurnsInv,
         UNCHANGED <<driver, turn, want, reply>>, asking' => asking,
         \A n \in Own : /\ ledger'[n] = "none" <=> ledger[n] = "none"
                        /\ TwoLeft(n) => TwoLeft(n)'
                        /\ OneLeft(n) => OneLeft(n)'
                        /\ NoneLeft(n) => NoneLeft(n)',
         \/ driverIn' = driverIn
         \/ \E l \in DriverLine : l.kind # "ack" /\ driverIn' = Append(driverIn, l)
  PROVE  TurnsInv'
<1>1. ResultsLeft'
  BY DEF TurnsInv, ResultsLeft
<1>2. NotAsked'
  BY DEF TurnsInv, NotAsked, LoopTypes
<1>3. AckFirst'
  <2>1. driverIn \in Seq(DriverLine)
    BY DEF LoopTypes
  <2>2. ASSUME NEW l \in DriverLine, l.kind # "ack", driverIn' = Append(driverIn, l)
        PROVE  /\ AckPlace(driverIn, turn) => AckPlace(driverIn, turn)'
               /\ NoAck(driverIn) => NoAck(driverIn)'
    BY <2>1, <2>2, AckMoves
  <2>3. /\ AckPlace(driverIn, turn) => AckPlace(driverIn, turn)'
        /\ NoAck(driverIn) => NoAck(driverIn)'
    BY <2>2
  <2> QED
    BY <2>3 DEF TurnsInv, AckFirst
<1> QED
  BY <1>1, <1>2, <1>3 DEF TurnsInv, TurnsOwnReply

LEMMA TurnsResolve ==
  ASSUME LoopTypes, TurnsInv, NEW t \in Tasks, NEW ok \in BOOLEAN, ledger[t] = "pending",
         Resolve(t, ok), UNCHANGED <<again, driver, turn, want, reply, asking>>
  PROVE  TurnsInv'
<1>1. ledger'[t] = "over" /\ \A n \in Own \ {t} : ledger'[n] = ledger[n]
  BY LineFacts DEF Resolve, LoopTypes
<1>2. driverIn' = driverIn \/ (t \in Own /\ driverIn' = Append(driverIn, Result(t, ok)))
  BY DEF Resolve, ToDriver
<1>3. /\ t \in Own => Result(t, ok) \in DriverLine
      /\ Result(t, ok).kind # "ack" /\ \A n \in Own \ {t} : ~IsResult(Result(t, ok), n)
  BY LineFacts DEF Result, IsResult
<1>4. ASSUME NEW n \in Own
      PROVE  /\ ledger'[n] = "none" <=> ledger[n] = "none"
             /\ TwoLeft(n) => TwoLeft(n)'
             /\ OneLeft(n) => OneLeft(n)'
             /\ NoneLeft(n) => NoneLeft(n)'
  <2>1. CASE n = t
    BY <1>1, <1>2, <1>3, <2>1, LeftResolved
  <2>2. CASE n # t
    BY <1>1, <1>2, <1>3, <2>2, LeftKept
  <2> QED
    BY <2>1, <2>2
<1> QED
  BY <1>2, <1>3, <1>4, TurnsKept

LEMMA TurnsDaemon ==
  ASSUME LoopTypes, TurnsInv, DaemonStep
  PROVE  TurnsInv'
<1>1. CASE TakeAsk \/ RefuseAsk
  BY <1>1, TurnsTakeAsk
<1>2. CASE TakeReply
  <2>1. UNCHANGED <<again, driver, turn, want, reply, asking>> /\ replies # << >>
    BY <1>2 DEF TakeReply
  <2>2. PICK r \in Answer : r = Head(replies)
    BY <2>1, HeadTailProperties DEF LoopTypes
  <2>3. r.task \in Tasks /\ r.ok \in BOOLEAN
    BY DEF Answer
  <2>4. CASE ledger[r.task] = "pending"
    <3>1. Resolve(r.task, r.ok)
      BY <1>2, <2>2, <2>4 DEF TakeReply
    <3> QED
      BY <2>1, <2>3, <2>4, <3>1, TurnsResolve
  <2>5. CASE ledger[r.task] # "pending"
    <3>1. UNCHANGED <<ledger, driverIn>>
      BY <1>2, <2>2, <2>5 DEF TakeReply
    <3>2. \A n \in Own : /\ TwoLeft(n) => TwoLeft(n)'
                         /\ OneLeft(n) => OneLeft(n)'
                         /\ NoneLeft(n) => NoneLeft(n)'
      BY <2>1, <3>1, LeftKept
    <3> QED
      BY <2>1, <3>1, <3>2, TurnsKept
  <2> QED
    BY <2>4, <2>5
<1>3. ASSUME NEW t \in Tasks, TimeOut(t)
      PROVE  TurnsInv'
  <2>1. /\ UNCHANGED <<again, driver, turn, want, reply, asking>>
        /\ ledger[t] = "pending" /\ Resolve(t, FALSE)
    BY <1>3 DEF TimeOut
  <2> QED
    BY <2>1, TurnsResolve
<1>4. ASSUME NEW t \in Tasks, RecordAgain(t)
      PROVE  TurnsInv'
  <2>1. /\ UNCHANGED <<driver, driverIn, turn, want, reply, asking>>
        /\ ledger[t] = "over" /\ t \notin again /\ again' = again \cup {t}
        /\ ledger'[t] = "pending" /\ \A n \in Own \ {t} : ledger'[n] = ledger[n]
    BY <1>4, LineFacts DEF RecordAgain, driverVars, LoopTypes
  <2>2. ASSUME NEW n \in Own \ {t}
        PROVE  /\ TwoLeft(n) => TwoLeft(n)'
               /\ OneLeft(n) => OneLeft(n)'
               /\ NoneLeft(n) => NoneLeft(n)'
    BY <2>1, LeftKept
  <2>3. t \in Own => /\ TwoLeft(t) => TwoLeft(t)'
                     /\ OneLeft(t) => OneLeft(t)'
                     /\ NoneLeft(t) => NoneLeft(t)'
    BY <2>1 DEF TwoLeft, OneLeft, NoneLeft, Spent, OneToGo, TwoToGo
  <2>4. ASSUME NEW n \in Own
        PROVE  /\ ledger'[n] = "none" <=> ledger[n] = "none"
               /\ TwoLeft(n) => TwoLeft(n)'
               /\ OneLeft(n) => OneLeft(n)'
               /\ NoneLeft(n) => NoneLeft(n)'
    <3>1. CASE n = t
      BY <2>1, <2>3, <3>1
    <3>2. CASE n # t
      BY <2>1, <2>2, <3>2
    <3> QED
      BY <3>1, <3>2
  <2> QED
    BY <2>1, <2>4, TurnsKept
<1>5. CASE Broadcast
  <2>1. PICK t \in Tasks \ Own : t = Turns + noise + 1
    BY <1>5, LoopAssumption DEF Broadcast, LoopTypes, Tasks, Own
  <2>2. /\ UNCHANGED <<again, driver, turn, want, reply, asking>>
        /\ \A n \in Own : ledger'[n] = ledger[n]
        /\ driverIn' = driverIn \/ driverIn' = Append(driverIn, Request(t))
    BY <1>5, <2>1, LineFacts DEF Broadcast, LoopTypes, ToDriver
  <2>3. /\ Request(t) \in DriverLine /\ Request(t).kind # "ack"
        /\ \A n \in Own : ~IsResult(Request(t), n)
    BY LineFacts DEF Request, IsResult
  <2>4. \A n \in Own : /\ TwoLeft(n) => TwoLeft(n)'
                       /\ OneLeft(n) => OneLeft(n)'
                       /\ NoneLeft(n) => NoneLeft(n)'
    BY <2>2, <2>3, LeftKept
  <2> QED
    BY <2>2, <2>3, <2>4, TurnsKept
<1>6. CASE Stop
  <2>1. /\ UNCHANGED <<driver, turn, want, reply>> /\ ~asking' /\ again' = Tasks
        /\ driverIn' = driverIn \/ driverIn' = Append(driverIn, Eof)
    BY <1>6 DEF Stop, ToDriver
  <2>2. \A n \in Own : ledger'[n] = IF ledger[n] = "pending" THEN "over" ELSE ledger[n]
    BY <1>6, LineFacts DEF Stop
  <2>3. Eof \in DriverLine /\ Eof.kind # "ack" /\ \A n \in Own : ~IsResult(Eof, n)
    BY LineFacts DEF Eof, IsResult
  <2>4. ASSUME NEW n \in Own
        PROVE  /\ ledger'[n] = "none" <=> ledger[n] = "none"
               /\ TwoLeft(n) => TwoLeft(n)'
               /\ OneLeft(n) => OneLeft(n)'
               /\ NoneLeft(n) => NoneLeft(n)'
    <3>1. driverIn \in Seq(DriverLine) /\ driverIn' \in Seq(DriverLine) /\ n \in again'
      <4>1. driverIn \in Seq(DriverLine) /\ Append(driverIn, Eof) \in Seq(DriverLine)
        BY <2>3, AppendProperties DEF LoopTypes
      <4> QED
        BY <2>1, <4>1, LineFacts
    <3>2. /\ NoResult(driverIn, n) => NoResult(driverIn, n)'
          /\ OneResult(driverIn, n) => OneResult(driverIn, n)'
          /\ TwoResults(driverIn, n) => TwoResults(driverIn, n)'
      BY <2>1, <2>3, <3>1, QueueGrows
    <3>3. /\ NoResult(driverIn, n)' => OneResult(driverIn, n)'
          /\ OneResult(driverIn, n)' => TwoResults(driverIn, n)'
      BY <3>1, QueueCounts
    <3>4. ledger[n] \in {"none", "pending", "over"}
      BY LineFacts DEF LoopTypes
    <3> QED
      BY <2>2, <3>1, <3>2, <3>3, <3>4
         DEF TwoLeft, OneLeft, NoneLeft, Spent, OneToGo, TwoToGo
  <2> QED
    BY <2>1, <2>3, <2>4, TurnsKept
<1>7. CASE Start
  <2>1. UNCHANGED <<ledger, again, driverVars>>
    BY <1>7 DEF Start
  <2>2. \A n \in Own : /\ TwoLeft(n) => TwoLeft(n)'
                       /\ OneLeft(n) => OneLeft(n)'
                       /\ NoneLeft(n) => NoneLeft(n)'
    BY <2>1, LeftKept DEF driverVars
  <2> QED
    BY <2>1, <2>2, TurnsKept DEF driverVars
<1> QED
  BY <1>1, <1>2, <1>3, <1>4, <1>5, <1>6, <1>7 DEF DaemonStep

\* The loop reads.
LEMMA TurnsReads ==
  ASSUME LoopTypes, TurnsInv, AskReads \/ WaitReads
  PROVE  TurnsInv'
<1>1. /\ UNCHANGED <<ledger, again, asking, turn>>
      /\ driverIn # << >> /\ driverIn' = Tail(driverIn) /\ driverIn \in Seq(DriverLine)
  BY DEF AskReads, WaitReads, LoopTypes, daemonVars
<1>2. PICK l \in DriverLine : l = Head(driverIn)
  BY <1>1, HeadTailProperties
<1>3. \A n \in Own : /\ TwoLeft(n) => TwoLeft(n)'
                     /\ OneLeft(n) => OneLeft(n)'
                     /\ NoneLeft(n) => NoneLeft(n)'
  BY <1>1, LeftKept
<1>4. \A n \in Own : IsResult(l, n) => /\ TwoLeft(n) => OneLeft(n)'
                                       /\ OneLeft(n) => NoneLeft(n)'
                                       /\ ~NoneLeft(n) /\ ledger[n] # "none"
  BY <1>1, <1>2, LeftRead DEF TurnsInv, ResultsLeft
<1>5. /\ AckPlace(driverIn, turn)'
      /\ NoAck(driverIn) => NoAck(driverIn)' /\ l.kind # "ack"
      /\ l.kind = "ack" \/ IsResult(l, turn) => NoAck(driverIn)'
  <2>1. AckPlace(driverIn, turn)
    BY DEF TurnsInv, AckFirst
  <2> QED
    BY <1>1, <1>2, <2>1, AckMoves
<1>6. CASE UNCHANGED <<driver, want, reply>>
  BY <1>1, <1>3, <1>5, <1>6
     DEF TurnsInv, ResultsLeft, NotAsked, AckFirst, TurnsOwnReply
<1>7. CASE AskReads /\ l # Eof
  <2>1. /\ driver = "asking" /\ driver' = "waiting" /\ want' = l.task /\ reply' = reply
        /\ turn \in Own
    BY <1>2, <1>7 DEF AskReads, LoopTypes
  <2>2. l.kind \in {"ack", "task_result", "task_request"} /\ l.task \in Tasks
    BY <1>7, LineFacts DEF DriverLine, Line
  <2>3. l.kind = "ack" => l.task = turn /\ ~asking
    <3>1. ASSUME l.kind = "ack" PROVE l.task = turn /\ ~NoAck(driverIn)
      <4>1. 1 \in 1 .. Len(driverIn) /\ driverIn[1] = l
        BY <1>1, <1>2, HeadTailProperties
      <4> QED
        BY <3>1, <4>1 DEF TurnsInv, AckFirst, AckPlace, NoAck
    <3> QED
      BY <3>1 DEF TurnsInv, AckFirst
  <2>4. l.kind = "task_result" => IsResult(l, l.task) /\ l.task \in Own
    BY DEF IsResult, DriverLine
  <2>5. l.kind = "task_request" => l.task \notin Own
    BY DEF DriverLine
  <2>6. l.kind = "task_result" => l.task <= turn
    <3>1. l.kind = "task_result" => ledger[l.task] # "none"
      BY <1>4, <2>4
    <3>2. l.kind = "task_result" => ~(l.task > turn)
      BY <2>4, <3>1 DEF TurnsInv, NotAsked
    <3>3. turn \in Nat /\ (l.kind = "task_result" => l.task \in Nat)
      BY <2>1, <2>4, LineFacts
    <3> QED
      BY <3>2, <3>3
  <2>7. l.task = turn => ~asking /\ NoAck(driverIn)'
    BY <1>4, <1>5, <2>1, <2>2, <2>3, <2>4, <2>5 DEF TurnsInv, NotAsked
  <2>8. l.task \in Own /\ l.task < turn => NoneLeft(l.task)'
    <3> SUFFICES ASSUME l.task \in Own, l.task < turn PROVE NoneLeft(l.task)'
      OBVIOUS
    <3>1. l.kind = "task_result"
      BY <2>1, <2>2, <2>3, <2>5, LineFacts
    <3>2. OneLeft(l.task)
      BY DEF TurnsInv, ResultsLeft
    <3> QED
      BY <1>4, <2>4, <3>1, <3>2
  <2>9. ResultsLeft'
    BY <1>1, <1>3, <2>1, <2>8 DEF TurnsInv, ResultsLeft
  <2>10. NotAsked'
    BY <1>1, <2>1, <2>2, <2>3, <2>5, <2>6, <2>7, LineFacts DEF TurnsInv, NotAsked
  <2>11. AckFirst'
    BY <1>1, <1>5, <2>1, <2>7 DEF TurnsInv, AckFirst
  <2> QED
    BY <2>1, <2>9, <2>10, <2>11 DEF TurnsInv, TurnsOwnReply
<1>8. CASE WaitReads /\ driver' = "stopped" /\ UNCHANGED <<reply, want>>
  <2>1. driver = "waiting"
    BY <1>8 DEF WaitReads
  <2> QED
    BY <1>1, <1>3, <1>5, <1>8, <2>1
       DEF TurnsInv, ResultsLeft, NotAsked, AckFirst, TurnsOwnReply, Over
<1>9. CASE WaitReads /\ l.kind = "task_result" /\ l.task = want /\ EndTurn(l)
  <2>1. driver = "waiting" /\ want' = want /\ turn \in Own /\ driver' \in {"stopped", "done", "composing"}
    BY <1>9 DEF WaitReads, LoopTypes, EndTurn
  <2>2. want \in Own /\ IsResult(l, want)
    BY <1>9 DEF DriverLine, IsResult
  <2>3. want = turn
    BY <1>4, <2>1, <2>2, LineFacts DEF TurnsInv, NotAsked, ResultsLeft
  <2>4. ~asking /\ NoAck(driverIn)'
    BY <1>5, <2>1, <2>2, <2>3 DEF TurnsInv, NotAsked
  <2>5. ResultsLeft'
    <3>1. PICK n \in Own : n = turn
      BY <2>1
    <3>2. TwoLeft(n) /\ IsResult(l, n)
      BY <2>2, <2>3, <3>1 DEF TurnsInv, ResultsLeft
    <3>3. OneLeft(n)'
      BY <1>4, <3>2
    <3> QED
      BY <1>1, <1>3, <2>1, <3>1, <3>3 DEF TurnsInv, ResultsLeft
  <2>6. NotAsked'
    BY <1>1, <2>1, <2>4 DEF TurnsInv, NotAsked
  <2>7. AckFirst'
    BY <1>1, <1>5, <2>4 DEF AckFirst
  <2>8. TurnsOwnReply'
    BY <1>9, <2>1, <2>3 DEF TurnsInv, TurnsOwnReply, EndTurn, LoopTypes
  <2> QED
    BY <2>5, <2>6, <2>7, <2>8 DEF TurnsInv
<1>10. AskReads => (l # Eof \/ UNCHANGED <<driver, want, reply>>)
  BY <1>2 DEF AskReads
<1>11. WaitReads => \/ driver' = "stopped" /\ UNCHANGED <<reply, want>>
                    \/ UNCHANGED <<driver, want, reply>>
                    \/ l.kind = "task_result" /\ l.task = want /\ EndTurn(l)
  BY <1>2 DEF WaitReads
<1> QED
  BY <1>6, <1>7, <1>8, <1>9, <1>10, <1>11

LEMMA TurnsDriver ==
  ASSUME LoopTypes, TurnsInv, DriverStep
  PROVE  TurnsInv'
<1>1. CASE AskReads \/ WaitReads
  BY <1>1, TurnsReads
<1>2. ASSUME UNCHANGED <<ledger, again, driverIn>>
      PROVE  /\ \A n \in Own : /\ TwoLeft(n) => TwoLeft(n)'
                               /\ OneLeft(n) => OneLeft(n)'
                               /\ NoneLeft(n) => NoneLeft(n)'
             /\ NoAck(driverIn) => NoAck(driverIn)'
  BY <1>2, LeftKept
<1>3. CASE DriverStart
  <2>1. /\ UNCHANGED <<ledger, again, driverIn, asking, turn, want, reply>>
        /\ driver = "new" /\ driver' \in {"ready", "failed"}
    BY <1>3 DEF DriverStart, daemonVars
  <2> QED
    BY <1>2, <2>1 DEF TurnsInv, ResultsLeft, NotAsked, AckFirst, TurnsOwnReply, Over
<1>4. CASE Ask
  <2>1. /\ UNCHANGED <<ledger, again, driverIn, turn, want, reply>> /\ driver = "ready"
        /\ driver' \in {"asking", "failed"}
    BY <1>4 DEF Ask, daemonVars
  <2>2. NoAck(driverIn) /\ ledger[turn] = "none"
    BY <2>1 DEF TurnsInv, AckFirst, NotAsked, Over
  <2> QED
    BY <1>2, <2>1, <2>2 DEF TurnsInv, ResultsLeft, NotAsked, AckFirst, TurnsOwnReply, Over
<1>5. CASE AskDies \/ WaitTimeout
  <2>1. /\ UNCHANGED <<ledger, again, driverIn, asking, turn, want, reply>>
        /\ driver \in {"asking", "waiting"} /\ driver' \in {"failed", "stopped"}
    BY <1>5 DEF AskDies, WaitTimeout, daemonVars
  <2> QED
    BY <1>2, <2>1 DEF TurnsInv, ResultsLeft, NotAsked, AckFirst, TurnsOwnReply, Over
<1>6. CASE Compose
  <2>1. /\ UNCHANGED <<ledger, again, driverIn, asking, want, reply>>
        /\ driver = "composing"
        /\ \/ driver' = "ready" /\ turn' = turn + 1
           \/ driver' = "failed" /\ turn' = turn
    BY <1>6 DEF Compose, daemonVars
  <2>2. /\ NoAck(driverIn) /\ ~asking /\ turn \in Own /\ turn + 1 \in Own
        /\ \A n \in Own : n <= turn => OneLeft(n)
    <3>1. turn \in Own /\ turn + 1 \in Own
      BY <2>1 DEF LoopTypes, MoreToCome
    <3>2. NoAck(driverIn) /\ ~asking
      BY <2>1 DEF TurnsInv, AckFirst, NotAsked, Over
    <3>3. \A n \in Own : n <= turn => n < turn \/ n = turn
      BY <3>1, LineFacts
    <3> QED
      BY <2>1, <3>1, <3>2, <3>3 DEF TurnsInv, ResultsLeft
  <2>3. NoAck(driverIn)' /\ AckPlace(driverIn, turn)'
    BY <1>2, <2>1, <2>2 DEF NoAck, AckPlace
  <2>4. \A n \in Own : /\ n < turn + 1 => n <= turn
                       /\ n > turn + 1 => n > turn
    BY <2>2, LineFacts
  <2>5. ResultsLeft'
    BY <1>2, <2>1, <2>2, <2>4 DEF TurnsInv, ResultsLeft
  <2>6. NotAsked'
    <3>1. turn + 1 > turn
      BY <2>2, LineFacts
    <3> QED
      BY <2>1, <2>2, <2>4, <3>1 DEF TurnsInv, NotAsked
  <2> QED
    BY <2>1, <2>3, <2>5, <2>6 DEF TurnsInv, AckFirst, TurnsOwnReply
<1> QED
  BY <1>1, <1>3, <1>4, <1>5, <1>6 DEF DriverStep

LEMMA TurnsInit == Init => TurnsInv
<1> SUFFICES ASSUME Init PROVE TurnsInv
  OBVIOUS
<1>1. /\ driver = "new" /\ turn = 1 /\ ~asking /\ driverIn = << >> /\ Len(driverIn) = 0
      /\ \A n \in Own : ledger[n] = "none" /\ reply[n] = None /\ ~(n < 1)
  BY LineFacts, LoopAssumption DEF Init, Own
<1>2. NoAck(driverIn) /\ AckPlace(driverIn, turn) /\ \A n \in Own : NoResult(driverIn, n)
  BY <1>1 DEF NoAck, AckPlace, NoResult
<1> QED
  BY <1>1, <1>2, LineFacts
     DEF TurnsInv, ResultsLeft, NotAsked, AckFirst, TurnsOwnReply, TwoLeft, TwoToGo, Over

LEMMA TurnsStep ==
  ASSUME LoopTypes, TurnsInv, [Next]_vars
  PROVE  TurnsInv'
<1>1. CASE UNCHANGED <<ledger, again, driverVars>>
  <2>1. \A n \in Own : /\ TwoLeft(n) => TwoLeft(n)'
                       /\ OneLeft(n) => OneLeft(n)'
                       /\ NoneLeft(n) => NoneLeft(n)'
    BY <1>1, LeftKept DEF driverVars
  <2> QED
    BY <1>1, <2>1, TurnsKept DEF driverVars
<1>2. CASE BridgeStep \/ UNCHANGED vars
  BY <1>1, <1>2 DEF BridgeStep, BridgeConnect, BridgeSubscribe, BridgeCutOff, BridgeTake,
                    BridgeReply, BridgeBroken, vars, daemonVars
<1> QED
  BY <1>2, TurnsDaemon, TurnsDriver DEF Next

\* For any number of turns, other tasks and restarts: the result that ends a turn is
\* that of the turn's own task.
THEOREM LoopTurnsOwnReply == Spec => []TurnsOwnReply
<1>1. Init => LoopTypes /\ TurnsInv
  BY LoopTypesInit, TurnsInit
<1>2. LoopTypes /\ TurnsInv /\ [Next]_vars => (LoopTypes /\ TurnsInv)'
  BY LoopTypesStep, TurnsStep
<1>3. TurnsInv => TurnsOwnReply
  BY DEF TurnsInv
<1> QED
  BY <1>1, <1>2, <1>3, PTL DEF Spec
=============================================================================
