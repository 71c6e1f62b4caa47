------------------------------ MODULE ClientProofs ------------------------------
(***************************************************************************)
(* Proofs about the programs' clients: DaemonClient, for each of the three *)
(* libraries and any number of calls and events, and Gateway, which keeps  *)
(* such clients, for any requests and agents.                              *)
(***************************************************************************)
EXTENDS DaemonClient, Gateway, FiniteSetTheorems, SequenceTheorems, WellFoundedInduction, TLAPS

Lines    == [kind : {"answer"}, what : Calls] \cup [kind : {"event"}, what : Nat]
Outcomes == Calls \cup {None, "closed", "cancelled"}

TypeOK ==
  /\ library \in {"rust", "python", "javascript"}
  /\ connected \in BOOLEAN /\ reading \in BOOLEAN /\ open \in BOOLEAN
  /\ call \in [Calls -> {"new", "queued", "waiting", "done"}]
  /\ outcome \in [Calls -> Outcomes]
  /\ turn \in Seq(Calls)
  /\ holder \in Calls \cup {None}
  /\ sent \in Seq(Calls)
  /\ line \in Seq(Lines)
  /\ answers \in Seq(Calls)
  /\ events \in Seq(Nat) /\ taken \in Seq(Nat)
  /\ pushed \in Nat
  /\ poison \in Calls \cup {None}

-----------------------------------------------------------------------------
(* Sequences.                                                                *)

\* A nonempty sequence and what is left of it without its head.
LEMMA TailElements ==
  ASSUME NEW S, NEW s \in Seq(S), s # << >>
  PROVE  /\ Len(s) \in Nat \ {0}
         /\ Head(s) = s[1] /\ Head(s) \in S
         /\ Tail(s) \in Seq(S)
         /\ Len(Tail(s)) = Len(s) - 1
         /\ \A i \in 1 .. Len(s) - 1 : Tail(s)[i] = s[i + 1]
<1>1. Len(s) \in Nat \ {0}
  BY EmptySeq
<1>2. Head(s) = s[1]
  OBVIOUS
<1> QED
  BY <1>1, <1>2, HeadTailProperties

LEMMA AppendElements ==
  ASSUME NEW S, NEW s \in Seq(S), NEW e \in S
  PROVE  /\ Append(s, e) \in Seq(S)
         /\ Len(s) \in Nat
         /\ Len(Append(s, e)) = Len(s) + 1
         /\ Append(s, e)[Len(s) + 1] = e
         /\ \A i \in 1 .. Len(s) : Append(s, e)[i] = s[i]
OBVIOUS

\* What a sequence loses at its front or in the middle.
LEMMA SuffixElements ==
  ASSUME NEW S, NEW s \in Seq(S), NEW n \in 0 .. Len(s)
  PROVE  /\ SubSeq(s, n + 1, Len(s)) \in Seq(S)
         /\ Len(SubSeq(s, n + 1, Len(s))) = Len(s) - n
         /\ \A i \in 1 .. Len(s) - n : SubSeq(s, n + 1, Len(s))[i] = s[i + n]
<1>1. Len(s) \in Nat /\ n \in Int /\ \A i \in 1 .. Len(s) : s[i] \in S
  BY LenProperties, ElementOfSeq
<1>2. /\ SubSeq(s, n + 1, Len(s)) \in Seq(S)
      /\ Len(SubSeq(s, n + 1, Len(s))) = IF n + 1 <= Len(s) THEN Len(s) - (n + 1) + 1 ELSE 0
      /\ \A i \in 1 .. Len(s) - (n + 1) + 1 : SubSeq(s, n + 1, Len(s))[i] = s[n + 1 + i - 1]
  BY <1>1, SubSeqProperties
<1> QED
  BY <1>1, <1>2

LEMMA RemoveAtElements ==
  ASSUME NEW S, NEW s \in Seq(S), NEW k \in 1 .. Len(s)
  PROVE  /\ RemoveAt(s, k) \in Seq(S)
         /\ Len(RemoveAt(s, k)) = Len(s) - 1
         /\ \A i \in 1 .. Len(s) - 1 : RemoveAt(s, k)[i] = IF i < k THEN s[i] ELSE s[i + 1]
<1> DEFINE front == SubSeq(s, 1, k - 1)
           back  == SubSeq(s, k + 1, Len(s))
<1>1. Len(s) \in Nat /\ \A i \in 1 .. Len(s) : s[i] \in S
  BY LenProperties, ElementOfSeq
<1>2. front \in Seq(S) /\ Len(front) = k - 1 /\ \A i \in 1 .. k - 1 : front[i] = s[i]
  <2>1. /\ front \in Seq(S)
        /\ Len(front) = IF 1 <= k - 1 THEN k - 1 - 1 + 1 ELSE 0
        /\ \A i \in 1 .. k - 1 - 1 + 1 : front[i] = s[1 + i - 1]
    BY <1>1, SubSeqProperties
  <2> QED
    BY <1>1, <2>1
<1>3. back \in Seq(S) /\ Len(back) = Len(s) - k /\ \A i \in 1 .. Len(s) - k : back[i] = s[i + k]
  BY SuffixElements
<1> HIDE DEF front, back
<1>4. /\ front \o back \in Seq(S)
      /\ Len(front \o back) = Len(front) + Len(back)
      /\ \A i \in 1 .. Len(front) + Len(back) :
           (front \o back)[i] = IF i <= Len(front) THEN front[i] ELSE back[i - Len(front)]
  BY <1>2, <1>3, ConcatProperties
<1>5. RemoveAt(s, k) = front \o back
  BY DEF RemoveAt, front, back
<1>6. Len(front \o back) = Len(s) - 1
  BY <1>1, <1>2, <1>3, <1>4
<1>7. ASSUME NEW i \in 1 .. Len(s) - 1
      PROVE  (front \o back)[i] = IF i < k THEN s[i] ELSE s[i + 1]
  <2>1. CASE i < k
    BY <1>1, <1>2, <1>3, <1>4, <2>1
  <2>2. CASE ~(i < k)
    <3>1. (front \o back)[i] = back[i - (k - 1)]
      BY <1>1, <1>2, <1>3, <1>4, <2>2
    <3>2. i - (k - 1) \in 1 .. Len(s) - k
      BY <1>1, <2>2
    <3>3. back[i - (k - 1)] = s[i - (k - 1) + k]
      BY <1>3, <3>2
    <3> QED
      BY <1>1, <2>2, <3>1, <3>3
  <2> QED
    BY <2>1, <2>2
<1> QED
  BY <1>4, <1>5, <1>6, <1>7

-----------------------------------------------------------------------------
(* Types.                                                                    *)

LEMMA InitTypes == Init => TypeOK
<1> SUFFICES ASSUME Init PROVE TypeOK
  OBVIOUS
<1>1. \A S : << >> \in Seq(S)
  BY EmptySeq
<1>2. call \in [Calls -> {"new", "queued", "waiting", "done"}] /\ outcome \in [Calls -> Outcomes]
  BY DEF Init, Outcomes
<1> QED
  BY <1>1, <1>2, ClientAssumption DEF Init, TypeOK

LEMMA DaemonTypes ==
  ASSUME TypeOK, DaemonStep
  PROVE  TypeOK'
<1>1. CASE Answer
  <2>1. sent' \in Seq(Calls) /\ Head(sent) \in Calls
    BY <1>1, TailElements DEF TypeOK, Answer
  <2>2. AnswerTo(Head(sent)) \in Lines
    BY <2>1 DEF AnswerTo, Lines
  <2> QED
    BY <1>1, <2>1, <2>2, AppendElements DEF TypeOK, Answer
<1>2. CASE Push
  <2>1. Event(pushed + 1) \in Lines
    BY DEF TypeOK, Event, Lines
  <2> QED
    BY <1>2, <2>1, AppendElements DEF TypeOK, Push
<1>3. CASE Close
  BY <1>3, EmptySeq DEF TypeOK, Close
<1> QED
  BY <1>1, <1>2, <1>3 DEF DaemonStep

LEMMA ReaderTypes ==
  ASSUME TypeOK, ReaderStep
  PROVE  TypeOK'
<1>1. CASE Connected
  <2>1. line' \in Seq(Lines)
    <3>1. \A n \in 0 .. Len(line) : SubSeq(line, n + 1, Len(line)) \in Seq(Lines)
      BY SuffixElements DEF TypeOK
    <3>2. line' = line \/ \E n \in 0 .. Len(line) : line' = SubSeq(line, n + 1, Len(line))
      BY <1>1 DEF Connected
    <3> QED
      BY <3>1, <3>2 DEF TypeOK
  <2>2. /\ connected' \in BOOLEAN /\ reading' \in BOOLEAN
        /\ UNCHANGED <<library, call, outcome, turn, holder, sent, answers, events, taken, pushed,
                       open, poison>>
    BY <1>1 DEF Connected
  <2> QED
    BY <2>1, <2>2 DEF TypeOK
<1>2. CASE Read
  <2>1. line' \in Seq(Lines) /\ Head(line) \in Lines
    BY <1>2, TailElements DEF TypeOK, Read
  <2>2. answers' \in Seq(Calls) /\ events' \in Seq(Nat)
    <3>1. CASE Head(line).kind = "answer"
      <4>1. Head(line).what \in Calls
        BY <2>1, <3>1 DEF Lines
      <4>2. Append(answers, Head(line).what) \in Seq(Calls)
        BY <4>1 DEF TypeOK
      <4> QED
        BY <1>2, <3>1, <4>2 DEF TypeOK, Read
    <3>2. CASE Head(line).kind # "answer"
      <4>1. Head(line).what \in Nat
        BY <2>1, <3>2 DEF Lines
      <4>2. Append(events, Head(line).what) \in Seq(Nat)
        BY <4>1 DEF TypeOK
      <4> QED
        BY <1>2, <3>2, <4>2 DEF TypeOK, Read
    <3> QED
      BY <3>1, <3>2
  <2>3. UNCHANGED <<library, connected, call, outcome, turn, holder, sent, reading, taken, pushed,
                    open, poison>>
    BY <1>2 DEF Read
  <2> QED
    BY <2>1, <2>2, <2>3 DEF TypeOK
<1>3. CASE ReadEnd \/ ReadFails
  BY <1>3 DEF TypeOK, ReadEnd, ReadFails
<1>4. CASE Drain
  <2>1. taken' \in Seq(Nat) /\ events' \in Seq(Nat)
    BY <1>4, ConcatProperties DEF TypeOK, Drain
  <2> QED
    BY <1>4, <2>1 DEF TypeOK, Drain
<1> QED
  BY <1>1, <1>2, <1>3, <1>4 DEF ReaderStep

LEMMA CallTypes ==
  ASSUME TypeOK, NEW k \in Calls, CallStep(k)
  PROVE  TypeOK'
<1>1. CASE Call(k)
  BY <1>1, AppendElements DEF TypeOK, Call
<1>2. CASE Write(k)
  <2>1. turn' \in Seq(Calls) /\ sent' \in Seq(Calls)
    BY <1>2, TailElements, AppendElements DEF TypeOK, Write, MyTurn
  <2> QED
    BY <1>2, <2>1 DEF TypeOK, Write
<1>3. CASE WriteFails(k) \/ FailPoisoned(k)
  <2>1. turn' \in Seq(Calls)
    <3>1. turn # << >> /\ turn' = Tail(turn)
      BY <1>3 DEF WriteFails, FailPoisoned, MyTurn
    <3> QED
      BY <3>1, TailElements DEF TypeOK
  <2>2. outcome' \in [Calls -> Outcomes] /\ call' \in [Calls -> {"new", "queued", "waiting", "done"}]
    <3>1. PICK o \in Outcomes : Finish(k, o)
      BY <1>3 DEF TypeOK, WriteFails, FailPoisoned, Outcomes
    <3> QED
      BY <3>1 DEF TypeOK, Finish
  <2>3. UNCHANGED <<library, connected, holder, sent, line, reading, answers, events, taken, pushed,
                    open, poison>>
    BY <1>3 DEF WriteFails, FailPoisoned
  <2> QED
    BY <2>1, <2>2, <2>3 DEF TypeOK
<1>4. CASE Return(k)
  <2>1. answers' \in Seq(Calls) /\ Head(answers) \in Calls
    BY <1>4, TailElements DEF TypeOK, Return
  <2> QED
    BY <1>4, <2>1 DEF TypeOK, Return, Finish, Outcomes
<1>5. CASE Disconnected(k)
  BY <1>5 DEF TypeOK, Disconnected, Finish, Outcomes
<1>6. CASE Cancel(k)
  <2>1. turn' \in Seq(Calls)
    BY <1>6, RemoveAtElements DEF TypeOK, Cancel
  <2> QED
    BY <1>6, <2>1 DEF TypeOK, Cancel, Finish, Outcomes
<1> QED
  BY <1>1, <1>2, <1>3, <1>4, <1>5, <1>6 DEF CallStep

LEMMA NextTypes == TypeOK /\ [Next]_vars => TypeOK'
<1>1. TypeOK /\ UNCHANGED vars => TypeOK'
  BY DEF vars, TypeOK
<1> QED
  BY <1>1, DaemonTypes, ReaderTypes, CallTypes DEF Next

-----------------------------------------------------------------------------
(* Whose call it is, and what is known when the reader has ended.            *)

TurnOK ==
  /\ \A i \in 1 .. Len(turn) : call[turn[i]] = "queued"
  /\ \A i, j \in 1 .. Len(turn) : turn[i] = turn[j] => i = j
  /\ holder # None => call[holder] = "waiting"
  /\ \A k \in Calls : outcome[k] # None => call[k] = "done"

\* Where the reader is: before the acknowledgement there is no call and no event
\* has been handed on, and but for Python's it ends only when nothing more can come.
ReaderOK ==
  /\ reading => connected
  /\ holder # None \/ turn # << >> => connected
  /\ ~connected => taken = << >> /\ events = << >>
  /\ connected /\ ~reading /\ library # "python" => ~open /\ line = << >>
  /\ ~open => sent = << >>

LEMMA TurnStep ==
  ASSUME TypeOK, TurnOK, [Next]_vars
  PROVE  TurnOK'
<1>1. CASE UNCHANGED vars
  BY <1>1 DEF vars, TurnOK
<1>2. CASE DaemonStep \/ ReaderStep
  <2>1. UNCHANGED <<turn, call, holder, outcome>>
    BY <1>2 DEF DaemonStep, ReaderStep, Answer, Push, Close, Connected, Read, ReadEnd, ReadFails, Drain
  <2> QED
    BY <2>1 DEF TurnOK
<1>3. ASSUME NEW k \in Calls, Call(k)
      PROVE  TurnOK'
  <2>1. /\ turn' \in Seq(Calls) /\ Len(turn) \in Nat
        /\ Len(turn') = Len(turn) + 1
        /\ turn'[Len(turn) + 1] = k
        /\ \A i \in 1 .. Len(turn) : turn'[i] = turn[i] /\ turn[i] \in Calls
    BY <1>3, AppendElements, ElementOfSeq DEF TypeOK, Call
  <2>2. \A j \in Calls : call'[j] = IF j = k THEN "queued" ELSE call[j]
    BY <1>3 DEF TypeOK, Call
  <2>3. call[k] = "new" /\ UNCHANGED <<holder, outcome>>
    BY <1>3 DEF Call
  <2>4. \A i \in 1 .. Len(turn) : turn[i] # k
    BY <2>3 DEF TurnOK
  <2>5. \A i \in 1 .. Len(turn') : call'[turn'[i]] = "queued"
    BY <2>1, <2>2 DEF TurnOK
  <2>6. \A i, j \in 1 .. Len(turn') : turn'[i] = turn'[j] => i = j
    BY <2>1, <2>4 DEF TurnOK
  <2> QED
    BY <2>2, <2>3, <2>5, <2>6 DEF TurnOK, TypeOK
<1>4. ASSUME NEW k \in Calls, Write(k) \/ WriteFails(k) \/ FailPoisoned(k)
      PROVE  TurnOK'
  <2>1. turn # << >> /\ Head(turn) = k /\ holder = None /\ turn' = Tail(turn)
    BY <1>4 DEF Write, WriteFails, FailPoisoned, MyTurn
  <2>2. /\ Len(turn) \in Nat \ {0} /\ turn[1] = k
        /\ Len(turn') = Len(turn) - 1
        /\ \A i \in 1 .. Len(turn) - 1 : turn'[i] = turn[i + 1]
    BY <2>1, TailElements DEF TypeOK
  <2>3. \A i \in 1 .. Len(turn) : turn[i] \in Calls
    BY ElementOfSeq DEF TypeOK
  <2>4. \A j \in Calls \ {k} : call'[j] = call[j] /\ outcome'[j] = outcome[j]
    BY <1>4 DEF TypeOK, Write, WriteFails, FailPoisoned, Finish
  <2>5. \/ holder' = None /\ call'[k] = "done"
        \/ holder' = k /\ call'[k] = "waiting" /\ outcome' = outcome
    BY <1>4, <2>1 DEF TypeOK, Write, WriteFails, FailPoisoned, Finish
  <2>6. call[k] = "queued"
    BY <2>2 DEF TurnOK
  <2>7. \A i \in 1 .. Len(turn) - 1 : turn[i + 1] # k /\ i + 1 \in 1 .. Len(turn)
    BY <2>2 DEF TurnOK
  <2>8. \A i \in 1 .. Len(turn') : call'[turn'[i]] = "queued"
    BY <2>2, <2>3, <2>4, <2>7 DEF TurnOK
  <2>9. \A i, j \in 1 .. Len(turn') : turn'[i] = turn'[j] => i = j
    BY <2>2, <2>7 DEF TurnOK
  <2>10. \A j \in Calls : outcome'[j] # None => call'[j] = "done"
    BY <2>4, <2>5, <2>6 DEF TurnOK
  <2> QED
    BY <2>5, <2>8, <2>9, <2>10, ClientAssumption DEF TurnOK
<1>5. ASSUME NEW k \in Calls, Return(k) \/ Disconnected(k)
      PROVE  TurnOK'
  <2>1. holder = k /\ holder' = None /\ turn' = turn
    BY <1>5 DEF Return, Disconnected
  <2>2. call'[k] = "done" /\ \A j \in Calls \ {k} : call'[j] = call[j] /\ outcome'[j] = outcome[j]
    BY <1>5 DEF TypeOK, Return, Disconnected, Finish
  <2>3. call[k] = "waiting"
    BY <2>1, ClientAssumption DEF TurnOK
  <2>4. \A i \in 1 .. Len(turn) : turn[i] \in Calls
    BY ElementOfSeq DEF TypeOK
  <2> QED
    BY <2>1, <2>2, <2>3, <2>4 DEF TurnOK
<1>6. ASSUME NEW k \in Calls, Cancel(k)
      PROVE  TurnOK'
  <2>1. /\ call'[k] = "done"
        /\ \A j \in Calls \ {k} : call'[j] = call[j] /\ outcome'[j] = outcome[j]
    BY <1>6 DEF TypeOK, Cancel, Finish
  <2>2. \A i \in 1 .. Len(turn) : turn[i] \in Calls
    BY ElementOfSeq DEF TypeOK
  <2>3. CASE holder = k
    <3>1. turn' = turn /\ holder' = None /\ call[k] = "waiting"
      BY <1>6, <2>3, ClientAssumption DEF Cancel, TurnOK
    <3> QED
      BY <2>1, <2>2, <3>1 DEF TurnOK
  <2>4. CASE holder # k
    <3>1. holder' = holder
      BY <1>6, <2>4 DEF Cancel
    <3>2. PICK n \in 1 .. Len(turn) : turn[n] = k /\ turn' = RemoveAt(turn, n)
      BY <1>6, <2>4 DEF Cancel
    <3>3. /\ Len(turn) \in Nat
          /\ Len(turn') = Len(turn) - 1
          /\ \A i \in 1 .. Len(turn) - 1 : turn'[i] = IF i < n THEN turn[i] ELSE turn[i + 1]
      BY <3>2, RemoveAtElements, LenProperties DEF TypeOK
    <3>4. \A i \in 1 .. Len(turn) : i # n => turn[i] # k
      BY <3>2 DEF TurnOK
    <3>5. ASSUME NEW i \in 1 .. Len(turn')
          PROVE  \E j \in 1 .. Len(turn) : j # n /\ turn'[i] = turn[j]
      <4>1. CASE i < n
        BY <3>3, <3>5, <4>1
      <4>2. CASE ~(i < n)
        <5>1. i + 1 \in 1 .. Len(turn) /\ i + 1 # n /\ turn'[i] = turn[i + 1]
          BY <3>3, <3>5, <4>2
        <5> QED
          BY <5>1
      <4> QED
        BY <4>1, <4>2
    <3>6. ASSUME NEW i \in 1 .. Len(turn')
          PROVE  call'[turn'[i]] = "queued"
      <4>1. PICK j \in 1 .. Len(turn) : j # n /\ turn'[i] = turn[j]
        BY <3>5
      <4>2. turn[j] \in Calls \ {k} /\ call[turn[j]] = "queued"
        BY <2>2, <3>4, <4>1 DEF TurnOK
      <4> QED
        BY <2>1, <4>1, <4>2
    <3>7. ASSUME NEW i \in 1 .. Len(turn'), NEW j \in 1 .. Len(turn'), turn'[i] = turn'[j]
          PROVE  i = j
      <4>1. /\ turn'[i] = IF i < n THEN turn[i] ELSE turn[i + 1]
            /\ turn'[j] = IF j < n THEN turn[j] ELSE turn[j + 1]
            /\ i \in 1 .. Len(turn) /\ i + 1 \in 1 .. Len(turn)
            /\ j \in 1 .. Len(turn) /\ j + 1 \in 1 .. Len(turn)
        BY <3>3
      <4>2. CASE i < n /\ j < n
        <5>1. turn[i] = turn[j]
          BY <3>7, <4>1, <4>2
        <5> QED
          BY <4>1, <5>1 DEF TurnOK
      <4>3. CASE ~(i < n) /\ ~(j < n)
        <5>1. i + 1 = j + 1
          BY <3>7, <4>1, <4>3 DEF TurnOK
        <5> QED
          BY <3>3, <5>1
      <4>4. CASE i < n /\ ~(j < n)
        <5>1. i = j + 1
          BY <3>7, <4>1, <4>4 DEF TurnOK
        <5> QED
          BY <3>3, <4>4, <5>1
      <4>5. CASE ~(i < n) /\ j < n
        <5>1. i + 1 = j
          BY <3>7, <4>1, <4>5 DEF TurnOK
        <5> QED
          BY <3>3, <4>5, <5>1
      <4> QED
        BY <4>2, <4>3, <4>4, <4>5
    <3> QED
      BY <2>1, <2>4, <3>1, <3>6, <3>7 DEF TypeOK, TurnOK
  <2> QED
    BY <2>3, <2>4
<1> QED
  BY <1>1, <1>2, <1>3, <1>4, <1>5, <1>6 DEF Next, CallStep

LEMMA ReaderStepOK ==
  ASSUME TypeOK, TurnOK, ReaderOK, [Next]_vars
  PROVE  ReaderOK'
<1>1. CASE UNCHANGED vars
  BY <1>1 DEF vars, ReaderOK
<1>2. CASE DaemonStep
  BY <1>2 DEF ReaderOK, DaemonStep, Answer, Push, Close
<1>3. CASE Connected
  BY <1>3 DEF ReaderOK, Connected
<1>4. CASE Read \/ ReadEnd \/ ReadFails \/ Drain
  BY <1>4 DEF ReaderOK, Read, ReadEnd, ReadFails, Drain
<1>5. ASSUME NEW k \in Calls, Call(k)
      PROVE  ReaderOK'
  BY <1>5 DEF ReaderOK, Call
<1>6. ASSUME NEW k \in Calls, Write(k) \/ WriteFails(k) \/ FailPoisoned(k)
      PROVE  ReaderOK'
  BY <1>6 DEF ReaderOK, Write, WriteFails, FailPoisoned, MyTurn
<1>7. ASSUME NEW k \in Calls, Return(k) \/ Disconnected(k)
      PROVE  ReaderOK'
  BY <1>7 DEF ReaderOK, Return, Disconnected
<1>8. ASSUME NEW k \in Calls, Cancel(k)
      PROVE  ReaderOK'
  <2>1. connected
    <3>1. CASE holder = k
      BY <3>1, ClientAssumption DEF ReaderOK
    <3>2. CASE holder # k
      <4>1. PICK i \in 1 .. Len(turn) : turn[i] = k
        BY <1>8, <3>2 DEF Cancel
      <4>2. turn # << >>
        BY <4>1, EmptySeq
      <4> QED
        BY <4>2 DEF ReaderOK
    <3> QED
      BY <3>1, <3>2
  <2> QED
    BY <1>8, <2>1 DEF ReaderOK, Cancel
<1> QED
  BY <1>1, <1>2, <1>3, <1>4, <1>5, <1>6, <1>7, <1>8 DEF Next, ReaderStep, CallStep

-----------------------------------------------------------------------------
(* Answers.                                                                  *)

\* Nothing was cancelled, or the library is not one where a call can be.
Undisturbed == library # "python" \/ \A j \in Calls : outcome[j] # "cancelled"

IsAnswer(i) == line[i].kind = "answer"

\* Between the write of a command and the return of its call one thing is under way,
\* the command or its answer, at one of three places: what the daemon has yet to
\* answer, what the reader has yet to read, what the call has yet to take. It belongs
\* to the call whose turn it is.
OneUnderWay ==
  /\ \A i \in 1 .. Len(sent) : sent[i] = holder
  /\ \A i \in 1 .. Len(line) : IsAnswer(i) => line[i].what = holder
  /\ \A i \in 1 .. Len(answers) : answers[i] = holder
  /\ Len(sent) + Len(answers) <= 1
  /\ \A i, j \in 1 .. Len(line) : IsAnswer(i) /\ IsAnswer(j) => i = j
  /\ (\E i \in 1 .. Len(line) : IsAnswer(i)) => sent = << >> /\ answers = << >>

PipeOK == Undisturbed => OneUnderWay

LEMMA NothingWithoutHolder ==
  ASSUME TypeOK, OneUnderWay, holder = None
  PROVE  /\ sent = << >> /\ answers = << >>
         /\ \A i \in 1 .. Len(line) : ~IsAnswer(i)
<1>1. \A s \in Seq(Calls) : s # << >> => 1 \in 1 .. Len(s) /\ s[1] \in Calls
  BY TailElements
<1>2. \A i \in 1 .. Len(line) : IsAnswer(i) => line[i].what \in Calls
  <2>1. \A i \in 1 .. Len(line) : line[i] \in Lines
    BY ElementOfSeq DEF TypeOK
  <2> QED
    BY <2>1 DEF Lines, IsAnswer
<1> QED
  BY <1>1, <1>2, ClientAssumption DEF TypeOK, OneUnderWay

\* An outcome is for good.
LEMMA OutcomeStays ==
  ASSUME TypeOK, TurnOK, [Next]_vars, NEW j \in Calls, outcome[j] # None
  PROVE  outcome'[j] = outcome[j]
<1>1. call[j] = "done"
  BY DEF TurnOK
<1>2. CASE UNCHANGED <<vars>> \/ DaemonStep \/ ReaderStep
  BY <1>2 DEF vars, DaemonStep, ReaderStep, Answer, Push, Close, Connected, Read, ReadEnd, ReadFails, Drain
<1>3. ASSUME NEW k \in Calls, CallStep(k)
      PROVE  outcome'[j] = outcome[j]
  <2>1. CASE Call(k) \/ Write(k)
    BY <2>1 DEF Call, Write
  <2>2. CASE WriteFails(k) \/ FailPoisoned(k)
    <3>1. call[k] = "queued"
      <4>1. turn # << >> /\ Head(turn) = k
        BY <2>2 DEF WriteFails, FailPoisoned, MyTurn
      <4>2. 1 \in 1 .. Len(turn) /\ turn[1] = k
        BY <4>1, TailElements DEF TypeOK
      <4> QED
        BY <4>2 DEF TurnOK
    <3> QED
      BY <1>1, <2>2, <3>1 DEF TypeOK, WriteFails, FailPoisoned, Finish
  <2>3. CASE Return(k) \/ Disconnected(k)
    <3>1. call[k] = "waiting"
      BY <2>3, ClientAssumption DEF Return, Disconnected, TurnOK
    <3> QED
      BY <1>1, <2>3, <3>1 DEF TypeOK, Return, Disconnected, Finish
  <2>4. CASE Cancel(k)
    BY <1>1, <2>4 DEF TypeOK, Cancel, Finish
  <2> QED
    BY <1>3, <2>1, <2>2, <2>3, <2>4 DEF CallStep
<1> QED
  BY <1>2, <1>3 DEF Next

LEMMA LibraryStays == [Next]_vars => library' = library
BY DEF Next, vars, DaemonStep, ReaderStep, CallStep, Answer, Push, Close, Connected, Read, ReadEnd, ReadFails,
       Drain, Call, Write, WriteFails, Return, FailPoisoned, Disconnected, Cancel

LEMMA OnceDisturbed ==
  ASSUME TypeOK, TurnOK, [Next]_vars, Undisturbed'
  PROVE  Undisturbed
<1>1. library' = library
  BY LibraryStays
<1>2. \A j \in Calls : outcome[j] = "cancelled" => outcome'[j] = "cancelled"
  BY OutcomeStays, ClientAssumption
<1> QED
  BY <1>1, <1>2 DEF Undisturbed

LEMMA PipeStep ==
  ASSUME TypeOK, TurnOK, ReaderOK, PipeOK, [Next]_vars
  PROVE  PipeOK'
<1> SUFFICES ASSUME Undisturbed', OneUnderWay
             PROVE  OneUnderWay'
  BY OnceDisturbed DEF PipeOK
<1> USE DEF OneUnderWay, IsAnswer
<1>1. CASE UNCHANGED <<sent, line, answers, holder>>
  BY <1>1
<1>2. CASE Answer
  <2>1. sent # << >> /\ sent' = Tail(sent) /\ line' = Append(line, AnswerTo(Head(sent)))
    BY <1>2 DEF Answer
  <2>2. /\ Len(sent) \in Nat \ {0} /\ Head(sent) = sent[1] /\ Head(sent) \in Calls
        /\ sent' \in Seq(Calls) /\ Len(sent') = Len(sent) - 1
    BY <2>1, TailElements DEF TypeOK
  <2>3. Len(answers) \in Nat /\ Len(line) \in Nat
    BY LenProperties DEF TypeOK
  <2>4. Len(sent) = 1 /\ Len(answers) = 0 /\ sent[1] = holder
    BY <2>2, <2>3
  <2>5. AnswerTo(Head(sent)) \in Lines
    BY <2>2 DEF AnswerTo, Lines
  <2>6. /\ Len(line') = Len(line) + 1
        /\ line'[Len(line) + 1] = AnswerTo(holder)
        /\ \A i \in 1 .. Len(line) : line'[i] = line[i]
    BY <2>1, <2>2, <2>4, <2>5, AppendElements DEF TypeOK
  <2>7. \A i \in 1 .. Len(line) : ~IsAnswer(i)
    BY <2>1
  <2>8. answers' = answers /\ holder' = holder
    BY <1>2 DEF Answer
  <2>9. sent' = << >> /\ answers = << >>
    BY <2>2, <2>3, <2>4, EmptySeq DEF TypeOK
  <2>10. AnswerTo(holder).what = holder
    BY DEF AnswerTo
  <2>11. \A i \in 1 .. Len(line') : i = Len(line) + 1 \/ (i \in 1 .. Len(line) /\ ~IsAnswer(i)')
    BY <2>3, <2>6, <2>7
  <2> QED
    BY <2>6, <2>8, <2>9, <2>10, <2>11, EmptySeq
<1>3. CASE Push
  <2>1. line' = Append(line, Event(pushed + 1)) /\ UNCHANGED <<sent, answers, holder>>
    BY <1>3 DEF Push
  <2>2. Event(pushed + 1) \in Lines
    BY DEF TypeOK, Event, Lines
  <2>3. /\ Len(line) \in Nat /\ Len(line') = Len(line) + 1
        /\ line'[Len(line) + 1] = Event(pushed + 1)
        /\ \A i \in 1 .. Len(line) : line'[i] = line[i]
    BY <2>1, <2>2, AppendElements DEF TypeOK
  <2>4. Event(pushed + 1).kind # "answer"
    BY DEF Event
  <2>5. \A i \in 1 .. Len(line') : IsAnswer(i)' => i \in 1 .. Len(line) /\ IsAnswer(i)
    BY <2>3, <2>4
  <2> QED
    BY <2>1, <2>3, <2>5
<1>4. CASE Close
  <2>1. Len(answers) \in Nat /\ Len(sent) \in Nat
    BY LenProperties DEF TypeOK
  <2> QED
    BY <1>4, <2>1, EmptySeq DEF Close
<1>5. CASE Connected
  <2>1. PICK n \in 0 .. Len(line) :
             /\ Len(line') = Len(line) - n
             /\ \A i \in 1 .. Len(line) - n : line'[i] = line[i + n]
    <3>1. CASE UNCHANGED line
      <4>1. 0 \in 0 .. Len(line) /\ Len(line') = Len(line) - 0
        BY <3>1, LenProperties DEF TypeOK
      <4>2. \A i \in 1 .. Len(line) - 0 : line'[i] = line[i + 0]
        BY <3>1
      <4> QED
        BY <4>1, <4>2
    <3>2. ASSUME NEW n \in 0 .. Len(line), line' = SubSeq(line, n + 1, Len(line))
          PROVE  /\ Len(line') = Len(line) - n
                 /\ \A i \in 1 .. Len(line) - n : line'[i] = line[i + n]
      BY <3>2, SuffixElements DEF TypeOK
    <3> QED
      BY <1>5, <3>1, <3>2 DEF Connected
  <2>2. Len(line) \in Nat
    BY LenProperties DEF TypeOK
  <2>3. \A i \in 1 .. Len(line') : i + n \in 1 .. Len(line) /\ line'[i] = line[i + n]
    BY <2>1, <2>2
  <2>4. UNCHANGED <<sent, answers, holder>>
    BY <1>5 DEF Connected
  <2>5. \A i, j \in 1 .. Len(line') : i + n = j + n => i = j
    BY <2>1, <2>2
  <2>6. \A i \in 1 .. Len(line') : IsAnswer(i)' =>
          IsAnswer(i + n) /\ i + n \in 1 .. Len(line) /\ line'[i].what = holder
    BY <2>3
  <2>7. \A i, j \in 1 .. Len(line') : IsAnswer(i)' /\ IsAnswer(j)' => i = j
    <3> SUFFICES ASSUME NEW i \in 1 .. Len(line'), NEW j \in 1 .. Len(line'),
                        IsAnswer(i)', IsAnswer(j)'
                 PROVE  i = j
      BY DEF IsAnswer
    <3>1. i + n = j + n
      BY <2>6
    <3> QED
      BY <2>5, <3>1
  <2> QED
    BY <2>4, <2>6, <2>7
<1>6. CASE Read
  <2>1. line # << >> /\ line' = Tail(line)
    BY <1>6 DEF Read
  <2>2. /\ Len(line) \in Nat \ {0} /\ Head(line) = line[1]
        /\ Len(line') = Len(line) - 1
        /\ \A i \in 1 .. Len(line) - 1 : line'[i] = line[i + 1]
    BY <2>1, TailElements DEF TypeOK
  <2>3. \A i \in 1 .. Len(line') : i + 1 \in 2 .. Len(line) /\ line'[i] = line[i + 1]
    BY <2>2
  <2>4. sent' = sent /\ holder' = holder
    BY <1>6 DEF Read
  <2>5. CASE Head(line).kind = "answer"
    <3>1. sent = << >> /\ answers = << >> /\ line[1].what = holder
      BY <2>2, <2>5
    <3>2. answers' = Append(answers, holder) /\ holder \in Calls
      <4>1. line[1] \in Lines
        BY <2>2 DEF TypeOK
      <4>2. line[1].what \in Calls
        BY <2>2, <2>5, <4>1 DEF Lines
      <4> QED
        BY <1>6, <2>2, <2>5, <3>1, <4>2 DEF Read
    <3>3. Len(answers') = 1 /\ answers'[1] = holder
      BY <3>1, <3>2
    <3>4. \A i \in 1 .. Len(line') : ~IsAnswer(i)'
      BY <2>2, <2>3, <2>5
    <3>5. Len(sent) = 0
      BY <3>1
    <3> QED
      BY <2>4, <3>3, <3>4, <3>5
  <2>6. CASE Head(line).kind # "answer"
    <3>1. answers' = answers
      BY <1>6, <2>6 DEF Read
    <3>2. \A i \in 1 .. Len(line') : IsAnswer(i)' =>
            IsAnswer(i + 1) /\ i + 1 \in 1 .. Len(line) /\ line'[i].what = holder
      BY <2>3, <2>2
    <3>3. ASSUME NEW i \in 1 .. Len(line'), NEW j \in 1 .. Len(line'),
                 IsAnswer(i)', IsAnswer(j)'
          PROVE  i = j
      <4>1. i + 1 = j + 1
        BY <3>2, <3>3
      <4> QED
        BY <2>2, <4>1
    <3> QED
      BY <2>4, <3>1, <3>2, <3>3
  <2> QED
    BY <2>5, <2>6
<1>7. CASE ReadEnd \/ ReadFails \/ Drain
  BY <1>7 DEF ReadEnd, ReadFails, Drain
<1>8. ASSUME NEW k \in Calls, Call(k) \/ WriteFails(k) \/ FailPoisoned(k)
      PROVE  OneUnderWay'
  <2>1. UNCHANGED <<sent, line, answers, holder>>
    BY <1>8 DEF Call, WriteFails, FailPoisoned
  <2> QED
    BY <2>1
<1>9. ASSUME NEW k \in Calls, Write(k)
      PROVE  OneUnderWay'
  <2>1. sent = << >> /\ answers = << >> /\ \A i \in 1 .. Len(line) : ~IsAnswer(i)
    BY <1>9, NothingWithoutHolder DEF Write, MyTurn
  <2>2. line' = line /\ answers' = answers /\ holder' = k
    BY <1>9 DEF Write
  <2>3. sent' = sent \/ sent' = Append(sent, k)
    BY <1>9 DEF Write
  <2>4. Len(sent') \in {0, 1} /\ \A i \in 1 .. Len(sent') : sent'[i] = k
    BY <2>1, <2>3
  <2> QED
    BY <2>1, <2>2, <2>4
<1>10. ASSUME NEW k \in Calls, Return(k)
       PROVE  OneUnderWay'
  <2>1. answers # << >> /\ answers' = Tail(answers) /\ UNCHANGED <<sent, line>>
    BY <1>10 DEF Return
  <2>2. /\ Len(answers) \in Nat \ {0}
        /\ answers' \in Seq(Calls) /\ Len(answers') = Len(answers) - 1
    BY <2>1, TailElements DEF TypeOK
  <2>3. Len(sent) \in Nat
    BY LenProperties DEF TypeOK
  <2>4. Len(answers') = 0 /\ Len(sent) = 0
    BY <2>2, <2>3
  <2>5. sent' = << >> /\ answers' = << >>
    BY <2>1, <2>2, <2>4, EmptySeq DEF TypeOK
  <2> QED
    BY <2>1, <2>5, EmptySeq
<1>11. ASSUME NEW k \in Calls, Disconnected(k)
       PROVE  OneUnderWay'
  <2>1. answers = << >> /\ ~reading /\ holder = k /\ UNCHANGED <<sent, line, answers>>
    BY <1>11 DEF Disconnected
  <2>2. line = << >> /\ sent = << >>
    BY <1>11, <2>1, ClientAssumption DEF Disconnected, ReaderOK
  <2> QED
    BY <2>1, <2>2, EmptySeq
<1>12. ASSUME NEW k \in Calls, Cancel(k)
       PROVE  FALSE
  BY <1>12 DEF TypeOK, Cancel, Finish, Undisturbed
<1> QED
  BY <1>1, <1>2, <1>3, <1>4, <1>5, <1>6, <1>7, <1>8, <1>9, <1>10, <1>11, <1>12
     DEF Next, vars, DaemonStep, ReaderStep, CallStep

\* A poisoned chain is JavaScript's and holds a rejection.
PoisonOK == poison # None => library = "javascript" /\ poison \in Rejected

\* The outcome a call gets: a failure, the rejection in the chain, or the next answer.
LEMMA OutcomeComes ==
  ASSUME TypeOK, [Next]_vars, NEW k \in Calls
  PROVE  \/ outcome'[k] = outcome[k]
         \/ outcome'[k] \in {"closed", "cancelled"}
         \/ poison # None /\ outcome'[k] = poison
         \/ holder = k /\ answers # << >> /\ outcome'[k] = Head(answers)
<1>1. CASE UNCHANGED <<vars>> \/ DaemonStep \/ ReaderStep
  BY <1>1 DEF vars, DaemonStep, ReaderStep, Answer, Push, Close, Connected, Read, ReadEnd, ReadFails, Drain
<1>2. ASSUME NEW j \in Calls, Call(j) \/ Write(j)
      PROVE  outcome'[k] = outcome[k]
  BY <1>2 DEF Call, Write
<1>3. ASSUME NEW j \in Calls, WriteFails(j) \/ Disconnected(j) \/ Cancel(j)
      PROVE  outcome'[k] = outcome[k] \/ outcome'[k] \in {"closed", "cancelled"}
  BY <1>3 DEF TypeOK, WriteFails, Disconnected, Cancel, Finish
<1>4. ASSUME NEW j \in Calls, FailPoisoned(j)
      PROVE  outcome'[k] = outcome[k] \/ (poison # None /\ outcome'[k] = poison)
  BY <1>4 DEF TypeOK, FailPoisoned, Finish
<1>5. ASSUME NEW j \in Calls, Return(j)
      PROVE  \/ outcome'[k] = outcome[k]
             \/ holder = k /\ answers # << >> /\ outcome'[k] = Head(answers)
  BY <1>5 DEF TypeOK, Return, Finish
<1> QED
  BY <1>1, <1>2, <1>3, <1>4, <1>5 DEF Next, CallStep

LEMMA OwnHead ==
  ASSUME TypeOK, OneUnderWay, answers # << >>
  PROVE  Head(answers) = holder
<1>1. Head(answers) = answers[1] /\ 1 \in 1 .. Len(answers)
  BY TailElements DEF TypeOK
<1> QED
  BY <1>1 DEF OneUnderWay

LEMMA PoisonStep ==
  ASSUME TypeOK, PipeOK, PoisonOK, [Next]_vars
  PROVE  PoisonOK'
<1>1. CASE poison' = poison
  BY <1>1, LibraryStays DEF PoisonOK
<1>2. ASSUME NEW k \in Calls, Return(k)
      PROVE  PoisonOK'
  <2>1. library' = library
    BY LibraryStays
  <2>2. \/ poison' = poison
        \/ poison' = k /\ library = "javascript" /\ Head(answers) \in Rejected
    BY <1>2 DEF Return
  <2>3. CASE library = "javascript" /\ Head(answers) \in Rejected
    <3>1. Head(answers) = k
      BY <1>2, <2>3, OwnHead DEF PipeOK, Undisturbed, Return
    <3> QED
      BY <2>1, <2>2, <2>3, <3>1 DEF PoisonOK
  <2> QED
    BY <2>1, <2>2, <2>3 DEF PoisonOK
<1>3. CASE ~(\E k \in Calls : Return(k))
  <2>1. poison' = poison
    BY <1>3 DEF Next, vars, DaemonStep, ReaderStep, CallStep, Answer, Push, Close, Connected, Read,
                ReadEnd, ReadFails, Drain, Call, Write, WriteFails, FailPoisoned, Disconnected, Cancel
  <2> QED
    BY <1>1, <2>1
<1> QED
  BY <1>2, <1>3

LEMMA OwnAnswerStep ==
  ASSUME TypeOK, TurnOK, PipeOK, PoisonOK, OwnAnswer, [Next]_vars
  PROVE  OwnAnswer'
<1> SUFFICES ASSUME NEW k \in Calls, outcome'[k] \in Calls \ {k}, Undisturbed'
             PROVE  library' = "javascript" /\ outcome'[k] \in Rejected
  BY DEF OwnAnswer, Undisturbed
<1>1. Undisturbed /\ OneUnderWay /\ library' = library
  BY OnceDisturbed, LibraryStays DEF PipeOK
<1>2. CASE outcome'[k] = outcome[k]
  BY <1>1, <1>2 DEF OwnAnswer, Undisturbed
<1>3. CASE poison # None /\ outcome'[k] = poison
  BY <1>1, <1>3 DEF PoisonOK
<1>4. CASE holder = k /\ answers # << >> /\ outcome'[k] = Head(answers)
  BY <1>1, <1>4, OwnHead
<1> QED
  BY <1>2, <1>3, <1>4, OutcomeComes, ClientAssumption

-----------------------------------------------------------------------------
(* Events.                                                                   *)

LEMMA LeastNat ==
  ASSUME NEW S \in SUBSET Nat, S # {}
  PROVE  \E m \in S : \A n \in S : m <= n
<1> DEFINE R == OpToRel(<, Nat)
<1>1. IsWellFoundedOn(R, Nat)
  BY NatLessThanWellFounded, Zenon
<1>2. ASSUME NEW x \in Nat, NEW y \in Nat, y < x
      PROVE  <<y, x>> \in R
  BY <1>2, Zenon DEF OpToRel
<1> HIDE DEF R
<1>3. PICK m \in S : \A n \in S : ~(<<n, m>> \in R)
  BY <1>1, WFMin, Zenon
<1>4. ASSUME NEW n \in S
      PROVE  m <= n
  <2>1. m \in Nat /\ n \in Nat /\ ~(n < m)
    BY <1>2, <1>3, Zenon
  <2> QED
    BY <2>1
<1> QED
  BY <1>4

\* The lines yet to be read hold the events from next on, in order.
IsEvent(i) == line[i].kind = "event"

Holds(next) ==
  /\ \A i \in 1 .. Len(line) : IsEvent(i) => line[i].what \in next .. pushed
  /\ \A n \in next .. pushed : \E i \in 1 .. Len(line) : IsEvent(i) /\ line[i].what = n
  /\ \A i, j \in 1 .. Len(line) : IsEvent(i) /\ IsEvent(j) /\ i < j => line[i].what < line[j].what

\* What the program has got or will get is the events from first to next - 1.
Got(first, next) ==
  /\ first = 1 \/ library = "javascript"
  /\ first <= next
  /\ Len(taken \o events) = next - first
  /\ \A n \in 1 .. next - first : (taken \o events)[n] = n + first - 1

EventsOK == \E first, next \in 1 .. pushed + 1 : Got(first, next) /\ Holds(next)

LEMMA EventsOKIsEventsKept ==
  ASSUME TypeOK, EventsOK
  PROVE  EventsKept
<1>1. PICK first \in 1 .. pushed + 1, next \in 1 .. pushed + 1 : Got(first, next) /\ Holds(next)
  BY DEF EventsOK
<1> DEFINE unread == {i \in 1 .. Len(line) : line[i].kind = "event"}
<1>2. taken \o events = [n \in 1 .. next - first |-> n + first - 1]
  <2>1. taken \o events \in Seq(Nat)
    BY ConcatProperties DEF TypeOK
  <2>2. taken \o events \in [1 .. next - first -> Nat]
    BY <1>1, <2>1, LenProperties DEF Got
  <2> QED
    BY <1>1, <2>2 DEF Got
<1>3. {line[i].what : i \in unread} = next .. pushed
  BY <1>1 DEF Holds, IsEvent
<1>4. \A i, j \in unread : i < j => line[i].what < line[j].what
  BY <1>1 DEF Holds, IsEvent
<1> QED
  BY <1>1, <1>2, <1>3, <1>4 DEF EventsKept, Got

\* The least event of what is left of a line when its front is dropped.
LEMMA DropStep ==
  ASSUME TypeOK, ReaderOK, NEW next \in 1 .. pushed + 1, Holds(next), Connected,
         NEW n \in 0 .. Len(line), line' = SubSeq(line, n + 1, Len(line))
  PROVE  \E m \in 1 .. pushed + 1 : Holds(m)'
<1>1. /\ Len(line) \in Nat /\ pushed \in Nat /\ pushed' = pushed
      /\ Len(line') = Len(line) - n
      /\ \A i \in 1 .. Len(line) - n : line'[i] = line[i + n]
  BY SuffixElements, LenProperties DEF TypeOK, Connected
<1>2. \A i \in 1 .. Len(line') : i + n \in 1 .. Len(line) /\ line'[i] = line[i + n]
  BY <1>1
<1> DEFINE S == {line'[i].what : i \in {j \in 1 .. Len(line') : IsEvent(j)'}}
<1>3. ASSUME NEW i \in 1 .. Len(line'), IsEvent(i)'
      PROVE  IsEvent(i + n) /\ line'[i].what = line[i + n].what /\ line'[i].what \in next .. pushed
  BY <1>2, <1>3 DEF Holds, IsEvent
<1>4. ASSUME NEW i \in 1 .. Len(line'), NEW j \in 1 .. Len(line'), IsEvent(i)', IsEvent(j)', i < j
      PROVE  line'[i].what < line'[j].what
  <2>1. i + n < j + n
    BY <1>1, <1>4
  <2> QED
    BY <1>2, <1>3, <1>4, <2>1 DEF Holds
<1>5. CASE S = {}
  <2>1. \A i \in 1 .. Len(line') : ~IsEvent(i)'
    BY <1>5
  <2>2. Holds(pushed + 1)'
    BY <1>1, <2>1 DEF Holds
  <2> QED
    BY <1>1, <2>2
<1>6. CASE S # {}
  <2>1. S \in SUBSET Nat
    BY <1>1, <1>3
  <2> HIDE DEF S
  <2>2. PICK m \in S : \A v \in S : m <= v
    BY <1>6, <2>1, LeastNat
  <2>3. PICK a \in 1 .. Len(line') : IsEvent(a)' /\ line'[a].what = m
    BY DEF S
  <2>4. m \in next .. pushed
    BY <1>3, <2>3
  <2>5. ASSUME NEW i \in 1 .. Len(line'), IsEvent(i)'
        PROVE  line'[i].what \in m .. pushed
    <3>1. line'[i].what \in S
      BY <2>5 DEF S
    <3> QED
      BY <1>1, <1>3, <2>2, <2>4, <2>5, <3>1
  <2>6. ASSUME NEW v \in m .. pushed
        PROVE  \E i \in 1 .. Len(line') : IsEvent(i)' /\ line'[i].what = v
    <3>1. v \in next .. pushed
      BY <2>4
    <3>2. PICK j \in 1 .. Len(line) : IsEvent(j) /\ line[j].what = v
      BY <3>1 DEF Holds
    <3>3. a + n <= j
      <4>1. SUFFICES ASSUME j < a + n PROVE FALSE
        BY <1>1
      <4>2. a + n \in 1 .. Len(line) /\ IsEvent(a + n) /\ line[a + n].what = m
        BY <1>2, <1>3, <2>3
      <4>3. line[j].what < line[a + n].what
        BY <3>2, <4>1, <4>2 DEF Holds
      <4>4. v < m
        BY <3>2, <4>2, <4>3
      <4> QED
        BY <2>4, <4>4
    <3>4. j - n \in 1 .. Len(line') /\ (j - n) + n = j
      BY <1>1, <3>3
    <3> QED
      BY <1>2, <3>2, <3>4 DEF IsEvent
  <2>7. Holds(m)'
    BY <1>1, <1>4, <2>5, <2>6 DEF Holds
  <2>8. m \in 1 .. pushed + 1
    BY <1>1, <2>4
  <2> QED
    BY <2>7, <2>8
<1> QED
  BY <1>5, <1>6

\* The first event in line is the next one.
LEMMA HeadIsNext ==
  ASSUME TypeOK, NEW next \in 1 .. pushed + 1, Holds(next), line # << >>, IsEvent(1)
  PROVE  line[1].what = next /\ next \in 1 .. pushed
<1>1. Len(line) \in Nat \ {0} /\ pushed \in Nat
  BY TailElements DEF TypeOK
<1>2. line[1].what \in next .. pushed
  BY <1>1 DEF Holds
<1>3. PICK i \in 1 .. Len(line) : IsEvent(i) /\ line[i].what = next
  BY <1>1, <1>2 DEF Holds
<1>4. i = 1 \/ line[1].what < next
  BY <1>1, <1>3 DEF Holds
<1> QED
  BY <1>1, <1>2, <1>3, <1>4

LEMMA EventsStep ==
  ASSUME TypeOK, ReaderOK, EventsOK, [Next]_vars
  PROVE  EventsOK'
<1> PICK first \in 1 .. pushed + 1, next \in 1 .. pushed + 1 : Got(first, next) /\ Holds(next)
  BY DEF EventsOK
<1>1. pushed \in Nat /\ Len(line) \in Nat /\ library' = library
  BY LibraryStays, LenProperties DEF TypeOK
<1>2. CASE UNCHANGED <<line, taken, events, pushed>>
  <2>1. Got(first, next)' /\ Holds(next)'
    BY <1>1, <1>2 DEF Got, Holds, IsEvent
  <2> QED
    BY <1>2, <2>1 DEF EventsOK
<1>3. CASE Answer
  <2>1. line' = Append(line, AnswerTo(Head(sent))) /\ UNCHANGED <<taken, events, pushed>>
    BY <1>3 DEF Answer
  <2>2. Head(sent) \in Calls
    BY <1>3, TailElements DEF TypeOK, Answer
  <2>3. AnswerTo(Head(sent)) \in Lines /\ AnswerTo(Head(sent)).kind # "event"
    BY <2>2 DEF AnswerTo, Lines
  <2>4. /\ Len(line') = Len(line) + 1
        /\ line'[Len(line) + 1] = AnswerTo(Head(sent))
        /\ \A i \in 1 .. Len(line) : line'[i] = line[i]
    BY <2>1, <2>3, AppendElements DEF TypeOK
  <2>5. \A i \in 1 .. Len(line') : IsEvent(i)' => i \in 1 .. Len(line) /\ IsEvent(i)
    BY <1>1, <2>3, <2>4 DEF IsEvent
  <2>6. \A i \in 1 .. Len(line) : i \in 1 .. Len(line') /\ (IsEvent(i) => IsEvent(i)')
    BY <1>1, <2>4 DEF IsEvent
  <2>7. Holds(next)'
    BY <2>1, <2>4, <2>5, <2>6 DEF Holds
  <2>8. Got(first, next)'
    BY <1>1, <2>1 DEF Got
  <2> QED
    BY <2>1, <2>7, <2>8 DEF EventsOK
<1>4. CASE Push
  <2>1. /\ line' = Append(line, Event(pushed + 1)) /\ pushed' = pushed + 1
        /\ UNCHANGED <<taken, events>>
    BY <1>4 DEF Push
  <2>2. Event(pushed + 1) \in Lines
    BY <1>1 DEF Event, Lines
  <2>3. /\ Len(line') = Len(line) + 1
        /\ line'[Len(line) + 1] = Event(pushed + 1)
        /\ \A i \in 1 .. Len(line) : line'[i] = line[i]
    BY <2>1, <2>2, AppendElements DEF TypeOK
  <2>4. line'[Len(line) + 1].kind = "event" /\ line'[Len(line) + 1].what = pushed + 1
    BY <2>3 DEF Event
  <2>5. \A i \in 1 .. Len(line') : i = Len(line) + 1 \/ i \in 1 .. Len(line)
    BY <1>1, <2>3
  <2>6. \A i \in 1 .. Len(line) : IsEvent(i)' <=> IsEvent(i)
    BY <2>3 DEF IsEvent
  <2>7. \A i \in 1 .. Len(line') : IsEvent(i)' => line'[i].what \in next .. pushed'
    BY <1>1, <2>1, <2>3, <2>4, <2>5, <2>6 DEF Holds
  <2>8. ASSUME NEW n \in next .. pushed'
        PROVE  \E i \in 1 .. Len(line') : IsEvent(i)' /\ line'[i].what = n
    <3>1. CASE n = pushed + 1
      BY <1>1, <2>3, <2>4, <3>1 DEF IsEvent
    <3>2. CASE n # pushed + 1
      <4>1. PICK i \in 1 .. Len(line) : IsEvent(i) /\ line[i].what = n
        BY <1>1, <2>1, <3>2 DEF Holds
      <4>2. i \in 1 .. Len(line') /\ IsEvent(i)' /\ line'[i].what = n
        BY <1>1, <2>3, <2>6, <4>1
      <4> QED
        BY <4>2
    <3> QED
      BY <3>1, <3>2
  <2>9. ASSUME NEW i \in 1 .. Len(line'), NEW j \in 1 .. Len(line'), IsEvent(i)', IsEvent(j)', i < j
        PROVE  line'[i].what < line'[j].what
    <3>1. i \in 1 .. Len(line) /\ IsEvent(i)
      BY <1>1, <2>3, <2>5, <2>6, <2>9
    <3>2. line'[i].what = line[i].what /\ line[i].what \in next .. pushed
      BY <2>3, <3>1 DEF Holds
    <3>3. CASE j = Len(line) + 1
      BY <1>1, <2>4, <3>2, <3>3
    <3>4. CASE j \in 1 .. Len(line)
      BY <2>3, <2>6, <2>9, <3>1, <3>2, <3>4 DEF Holds
    <3> QED
      BY <2>5, <3>3, <3>4
  <2>10. Holds(next)'
    BY <2>7, <2>8, <2>9 DEF Holds
  <2>11. Got(first, next)'
    BY <1>1, <2>1 DEF Got
  <2>12. first \in 1 .. pushed' + 1 /\ next \in 1 .. pushed' + 1
    BY <1>1, <2>1
  <2> QED
    BY <2>10, <2>11, <2>12 DEF EventsOK
<1>5. CASE Connected
  <2>1. UNCHANGED <<taken, events, pushed>>
    BY <1>5 DEF Connected
  <2>2. CASE line' = line
    BY <1>2, <2>1, <2>2
  <2>3. CASE library = "javascript" /\ \E n \in 0 .. Len(line) : line' = SubSeq(line, n + 1, Len(line))
    <3>1. PICK m \in 1 .. pushed + 1 : Holds(m)'
      BY <1>5, <2>3, DropStep
    <3>2. taken' = << >> /\ events' = << >>
      BY <1>5, <2>1 DEF ReaderOK, Connected
    <3>3. taken' \o events' = << >>
      BY <3>2
    <3>4. Got(m, m)'
      BY <1>1, <2>3, <3>3 DEF Got
    <3> QED
      BY <2>1, <3>1, <3>4 DEF EventsOK
  <2> QED
    BY <1>5, <2>2, <2>3 DEF Connected
<1>6. CASE Read
  <2>1. /\ line # << >> /\ line' = Tail(line)
        /\ UNCHANGED <<taken, pushed>>
        /\ \/ Head(line).kind = "answer" /\ UNCHANGED events
           \/ Head(line).kind # "answer" /\ events' = Append(events, Head(line).what)
    BY <1>6 DEF Read
  <2>2. /\ Len(line) \in Nat \ {0} /\ Head(line) = line[1] /\ Head(line) \in Lines
        /\ Len(line') = Len(line) - 1
        /\ \A i \in 1 .. Len(line) - 1 : line'[i] = line[i + 1]
    BY <2>1, TailElements DEF TypeOK
  <2>3. \A i \in 1 .. Len(line') : i + 1 \in 2 .. Len(line) /\ line'[i] = line[i + 1]
    BY <2>2
  <2>4. \A i \in 1 .. Len(line') : IsEvent(i)' <=> IsEvent(i + 1)
    BY <2>3 DEF IsEvent
  <2>5. ASSUME NEW i \in 1 .. Len(line'), NEW j \in 1 .. Len(line'), IsEvent(i)', IsEvent(j)', i < j
        PROVE  line'[i].what < line'[j].what
    <3>1. i + 1 < j + 1 /\ i + 1 \in 1 .. Len(line) /\ j + 1 \in 1 .. Len(line)
      BY <2>2, <2>5
    <3>2. IsEvent(i + 1) /\ IsEvent(j + 1)
      BY <2>4, <2>5
    <3>3. line[i + 1].what < line[j + 1].what
      BY <3>1, <3>2 DEF Holds
    <3> QED
      BY <2>3, <3>3
  <2>6. CASE Head(line).kind = "answer"
    <3>1. ~IsEvent(1) /\ events' = events
      BY <2>1, <2>2, <2>6 DEF IsEvent
    <3>2. \A i \in 1 .. Len(line') : IsEvent(i)' => line'[i].what \in next .. pushed'
      BY <2>1, <2>2, <2>3, <2>4 DEF Holds
    <3>3. ASSUME NEW n \in next .. pushed'
          PROVE  \E i \in 1 .. Len(line') : IsEvent(i)' /\ line'[i].what = n
      <4>1. PICK j \in 1 .. Len(line) : IsEvent(j) /\ line[j].what = n
        BY <2>1 DEF Holds
      <4>2. j # 1
        BY <3>1, <4>1
      <4>3. j - 1 \in 1 .. Len(line') /\ (j - 1) + 1 = j
        BY <2>2, <4>2
      <4> QED
        BY <2>3, <2>4, <4>1, <4>3
    <3>4. Holds(next)'
      BY <2>5, <3>2, <3>3 DEF Holds
    <3>5. Got(first, next)'
      BY <1>1, <2>1, <3>1 DEF Got
    <3> QED
      BY <2>1, <3>4, <3>5 DEF EventsOK
  <2>7. CASE Head(line).kind # "answer"
    <3>1. IsEvent(1)
      BY <2>2, <2>7 DEF IsEvent, Lines
    <3>2. line[1].what = next /\ next \in 1 .. pushed
      BY <2>1, <3>1, HeadIsNext
    <3>3. ASSUME NEW i \in 1 .. Len(line'), IsEvent(i)'
          PROVE  line'[i].what \in next + 1 .. pushed'
      <4>1. i + 1 \in 1 .. Len(line) /\ IsEvent(i + 1) /\ line'[i] = line[i + 1] /\ 1 < i + 1
        BY <2>2, <2>3, <2>4, <3>3
      <4>2. line[1].what < line[i + 1].what /\ line[i + 1].what \in next .. pushed
        BY <2>2, <3>1, <4>1 DEF Holds
      <4> QED
        BY <1>1, <2>1, <3>2, <4>1, <4>2
    <3>4. ASSUME NEW n \in next + 1 .. pushed'
          PROVE  \E i \in 1 .. Len(line') : IsEvent(i)' /\ line'[i].what = n
      <4>1. n \in next .. pushed
        BY <1>1, <2>1
      <4>2. PICK j \in 1 .. Len(line) : IsEvent(j) /\ line[j].what = n
        BY <4>1 DEF Holds
      <4>3. j # 1
        BY <3>2, <4>2
      <4>4. j - 1 \in 1 .. Len(line') /\ (j - 1) + 1 = j
        BY <2>2, <4>3
      <4> QED
        BY <2>3, <2>4, <4>2, <4>4
    <3>5. Holds(next + 1)'
      BY <2>5, <3>3, <3>4 DEF Holds
    <3>6. events' = Append(events, next) /\ next \in Nat
      BY <2>1, <2>2, <2>7, <3>2
    <3>7. /\ Len(taken \o events') = Len(taken \o events) + 1
          /\ (taken \o events')[Len(taken \o events) + 1] = next
          /\ \A n \in 1 .. Len(taken \o events) : (taken \o events')[n] = (taken \o events)[n]
      BY <3>6 DEF TypeOK
    <3>8. Got(first, next + 1)'
      <4>1. next \in Int /\ first \in Int /\ first <= next + 1 /\ first <= next
        BY <1>1 DEF Got
      <4>2. Len(taken \o events) = next - first
        BY DEF Got
      <4>3. Len(taken' \o events') = next + 1 - first
        BY <2>1, <3>7, <4>1, <4>2
      <4>4. ASSUME NEW n \in 1 .. next + 1 - first
            PROVE  (taken' \o events')[n] = n + first - 1
        <5>1. CASE n = next - first + 1
          BY <2>1, <3>7, <4>1, <4>2, <5>1
        <5>2. CASE n # next - first + 1
          <6>1. n \in 1 .. next - first
            BY <4>1, <5>2
          <6>2. (taken \o events)[n] = n + first - 1
            BY <6>1 DEF Got
          <6> QED
            BY <2>1, <3>7, <4>2, <6>1, <6>2
        <5> QED
          BY <5>1, <5>2
      <4> QED
        BY <1>1, <4>1, <4>3, <4>4 DEF Got
    <3>9. next + 1 \in 1 .. pushed' + 1
      BY <1>1, <2>1, <3>2
    <3> QED
      BY <2>1, <3>5, <3>8, <3>9 DEF EventsOK
  <2> QED
    BY <2>6, <2>7
<1>7. CASE Drain
  <2>1. UNCHANGED <<line, pushed>> /\ taken' = taken \o events /\ events' = << >>
    BY <1>7 DEF Drain
  <2>2. taken' \o events' = taken \o events
    BY <2>1, ConcatProperties, ConcatEmptySeq DEF TypeOK
  <2>3. Got(first, next)' /\ Holds(next)'
    BY <1>1, <2>1, <2>2 DEF Got, Holds, IsEvent
  <2> QED
    BY <2>1, <2>3 DEF EventsOK
<1>8. CASE Close \/ ReadEnd \/ ReadFails \/ \E k \in Calls : CallStep(k)
  BY <1>2, <1>8 DEF Close, ReadEnd, ReadFails, CallStep, Call, Write, WriteFails, Return, FailPoisoned,
                    Disconnected, Cancel
<1> QED
  BY <1>2, <1>3, <1>4, <1>5, <1>6, <1>7, <1>8 DEF Next, vars, DaemonStep, ReaderStep

-----------------------------------------------------------------------------

\* The inductive invariant: the types; whose turn it is; what a reader that has not
\* begun or has ended means; one command or answer under way; where a rejection comes
\* from; and the events.
IInv ==
  TypeOK /\ TurnOK /\ ReaderOK /\ PipeOK /\ PoisonOK /\ OwnAnswer /\ EventsOK

LEMMA InitIInv == Init => IInv
<1> SUFFICES ASSUME Init PROVE IInv
  OBVIOUS
<1>1. TypeOK
  BY InitTypes
<1>2. TurnOK
  BY EmptySeq DEF Init, TurnOK
<1>3. ReaderOK
  BY DEF Init, ReaderOK
<1>4. PipeOK
  BY EmptySeq DEF Init, PipeOK, OneUnderWay, IsAnswer
<1>5. PoisonOK /\ OwnAnswer
  BY ClientAssumption DEF Init, PoisonOK, OwnAnswer
<1>6. EventsOK
  <2>1. Got(1, 1)
    BY DEF Init, Got
  <2>2. Holds(1)
    BY EmptySeq DEF Init, Holds, IsEvent
  <2> QED
    BY <2>1, <2>2 DEF Init, EventsOK
<1> QED
  BY <1>1, <1>2, <1>3, <1>4, <1>5, <1>6 DEF IInv

LEMMA NextIInv == IInv /\ [Next]_vars => IInv'
BY NextTypes, TurnStep, ReaderStepOK, PipeStep, PoisonStep, OwnAnswerStep, EventsStep DEF IInv

\* A call returns the answer to its own command, whatever runs beside it, in all three
\* libraries; but in Python a cancelled call leaves its answer to the next one, and in
\* JavaScript a rejection is handed to all calls after it.
THEOREM CallsGetTheirAnswers == Spec => []OwnAnswer
BY InitIInv, NextIInv, PTL DEF Spec, IInv

\* No event is lost, repeated or put out of order on its way to the program; JavaScript
\* may lose the first ones with the acknowledgement, and no others.
THEOREM EventsAreKept == Spec => []EventsKept
<1>1. IInv => EventsKept
  BY EventsOKIsEventsKept DEF IInv
<1> QED
  BY <1>1, InitIInv, NextIInv, PTL DEF Spec

-----------------------------------------------------------------------------
(* The gateway (Gateway): for any requests, agents and restarts of the daemon. *)

Stages == {"new", "locking", "connecting", "calling"} \cup Over

GatewayTypes ==
  /\ request \in [Requests -> Stages]
  /\ conn \in [Requests -> Lives \cup {NoOne}]
  /\ lock \in Requests \cup {NoOne}
  /\ routers \in [Agents -> Lives \cup {NoOne}]
  /\ life \in Lives
  /\ up \in BOOLEAN
  /\ registered \subseteq Agents \X Lives \X Requests

LEMMA GatewayInitTypes == GatewayInit => GatewayTypes
BY GatewayAssumption DEF GatewayInit, GatewayTypes, Stages, Over, Lives

LEMMA GatewayNextTypes == GatewayTypes /\ [GatewayNext]_gatewayVars => GatewayTypes'
<1> SUFFICES ASSUME GatewayTypes, [GatewayNext]_gatewayVars PROVE GatewayTypes'
  OBVIOUS
<1> USE GatewayAssumption DEF GatewayTypes, Stages, Over
<1>1. CASE UNCHANGED gatewayVars
  BY <1>1 DEF gatewayVars
<1>2. ASSUME NEW r \in Requests, Arrive(r) \/ Found(r) \/ Missing(r)
      PROVE  GatewayTypes'
  BY <1>2 DEF Arrive, Found, Missing
<1>3. ASSUME NEW r \in Requests, Registered(r)
      PROVE  GatewayTypes'
  <2>1. <<Agent[r], life, r>> \in Agents \X Lives \X Requests
    OBVIOUS
  <2> QED
    BY <1>3, <2>1 DEF Registered
<1>4. ASSUME NEW r \in Requests, ClientConnected(r) \/ ConnectFails(r) \/ Serve(r)
      PROVE  GatewayTypes'
  BY <1>4 DEF ClientConnected, ConnectFails, Serve
<1>5. ASSUME NEW r \in Requests, HangUp(r)
      PROVE  GatewayTypes'
  <2>1. registered' \subseteq registered
    BY <1>5 DEF HangUp
  <2> QED
    BY <1>5, <2>1 DEF HangUp
<1>6. CASE Stop
  BY <1>6 DEF Stop
<1>7. CASE Start
  <2>1. life' \in Lives
    BY <1>7 DEF Start, Lives
  <2> QED
    BY <1>7, <2>1 DEF Start
<1> QED
  BY <1>1, <1>2, <1>3, <1>4, <1>5, <1>6, <1>7 DEF GatewayNext, RequestStep

-----------------------------------------------------------------------------
(* The write lock.                                                           *)

\* Who connects has the lock, and nobody else; while it does so its agent has no
\* router yet.
OneConnects ==
  \A r \in Requests :
    /\ request[r] = "connecting" <=> lock = r
    /\ request[r] = "connecting" => routers[Agent[r]] = NoOne

LEMMA OneConnectsStep ==
  ASSUME GatewayTypes, OneConnects, [GatewayNext]_gatewayVars
  PROVE  OneConnects'
<1> USE GatewayAssumption DEF GatewayTypes, OneConnects
<1>1. CASE UNCHANGED gatewayVars
  BY <1>1 DEF gatewayVars
<1>2. ASSUME NEW r \in Requests, Arrive(r) \/ Found(r) \/ Missing(r)
      PROVE  OneConnects'
  BY <1>2 DEF Arrive, Found, Missing
<1>3. ASSUME NEW r \in Requests, Registered(r) \/ Serve(r)
      PROVE  OneConnects'
  BY <1>3 DEF Registered, Serve
<1>4. ASSUME NEW r \in Requests, ClientConnected(r) \/ ConnectFails(r)
      PROVE  OneConnects'
  BY <1>4 DEF ClientConnected, ConnectFails
<1>5. ASSUME NEW r \in Requests, HangUp(r)
      PROVE  OneConnects'
  BY <1>5 DEF HangUp
<1>6. CASE Stop \/ Start
  BY <1>6 DEF Stop, Start
<1> QED
  BY <1>1, <1>2, <1>3, <1>4, <1>5, <1>6 DEF GatewayNext, RequestStep

-----------------------------------------------------------------------------
(* The clients.                                                              *)

\* Why there is no need to register for a again in life l: its router is there, or
\* the request that registered is about to put it there, or that life is over.
Settled(a, l, r) ==
  /\ l <= life
  /\ \/ routers[a] # NoOne
     \/ request[r] = "connecting" /\ conn[r] = l /\ Agent[r] = a
     \/ l < life
     \/ ~up

ClientsSettled ==
  \A a \in Agents, l \in Lives, r \in Requests :
    <<a, l, r>> \in registered => Settled(a, l, r)

OneClient ==
  \A a \in Agents, l \in Lives, r, s \in Requests :
    <<a, l, r>> \in registered /\ <<a, l, s>> \in registered => r = s

\* Clients come by Registered only.
LEMMA RegisteredStep ==
  ASSUME GatewayTypes, [GatewayNext]_gatewayVars,
         NEW a \in Agents, NEW l \in Lives, NEW r \in Requests, <<a, l, r>> \in registered'
  PROVE  <<a, l, r>> \in registered \/ (Registered(r) /\ a = Agent[r] /\ l = life)
<1>1. CASE UNCHANGED gatewayVars
  BY <1>1 DEF gatewayVars
<1>2. ASSUME NEW q \in Requests, RequestStep(q), ~Registered(q)
      PROVE  registered' \subseteq registered
  BY <1>2 DEF RequestStep, Arrive, Found, Missing, ClientConnected, ConnectFails, Serve, HangUp
<1>3. ASSUME NEW q \in Requests, Registered(q)
      PROVE  <<a, l, r>> \in registered \/ (q = r /\ a = Agent[r] /\ l = life)
  BY <1>3 DEF Registered
<1>4. CASE Stop \/ Start
  BY <1>4 DEF Stop, Start
<1> QED
  BY <1>1, <1>2, <1>3, <1>4 DEF GatewayNext

LEMMA SettledStep ==
  ASSUME GatewayTypes, OneConnects, [GatewayNext]_gatewayVars,
         NEW a \in Agents, NEW l \in Lives, NEW r \in Requests,
         Settled(a, l, r), <<a, l, r>> \in registered'
  PROVE  Settled(a, l, r)'
<1> USE GatewayAssumption DEF GatewayTypes, Settled, OneConnects, Lives
<1>1. CASE UNCHANGED gatewayVars
  BY <1>1 DEF gatewayVars
<1>2. ASSUME NEW q \in Requests, Arrive(q) \/ Found(q) \/ Missing(q) \/ Serve(q)
      PROVE  Settled(a, l, r)'
  BY <1>2 DEF Arrive, Found, Missing, Serve
<1>3. ASSUME NEW q \in Requests, Registered(q)
      PROVE  Settled(a, l, r)'
  BY <1>3 DEF Registered
<1>4. ASSUME NEW q \in Requests, ClientConnected(q)
      PROVE  Settled(a, l, r)'
  BY <1>4 DEF ClientConnected
<1>5. ASSUME NEW q \in Requests, ConnectFails(q)
      PROVE  Settled(a, l, r)'
  BY <1>5 DEF ConnectFails
<1>6. ASSUME NEW q \in Requests, HangUp(q)
      PROVE  Settled(a, l, r)'
  <2>1. CASE q = r /\ request[r] = "connecting"
    <3>1. <<a, l, r>>[3] = r
      OBVIOUS
    <3> QED
      BY <1>6, <2>1, <3>1 DEF HangUp
  <2>2. CASE ~(q = r /\ request[r] = "connecting")
    BY <1>6, <2>2 DEF HangUp
  <2> QED
    BY <2>1, <2>2
<1>7. CASE Stop \/ Start
  BY <1>7 DEF Stop, Start
<1> QED
  BY <1>1, <1>2, <1>3, <1>4, <1>5, <1>6, <1>7 DEF GatewayNext, RequestStep

LEMMA ClientsStep ==
  ASSUME GatewayTypes, OneConnects, ClientsSettled, OneClient, [GatewayNext]_gatewayVars
  PROVE  ClientsSettled' /\ OneClient'
<1>1. ASSUME NEW a \in Agents, NEW l \in Lives, NEW r \in Requests, <<a, l, r>> \in registered'
      PROVE  Settled(a, l, r)'
  <2>1. CASE <<a, l, r>> \in registered
    BY <1>1, <2>1, SettledStep DEF ClientsSettled
  <2>2. CASE Registered(r) /\ a = Agent[r] /\ l = life
    BY <2>2, GatewayAssumption DEF GatewayTypes, Registered, Settled, Lives
  <2> QED
    BY <1>1, <2>1, <2>2, RegisteredStep
<1>2. ASSUME NEW r \in Requests, NEW s \in Requests, Registered(r),
             <<Agent[r], life, s>> \in registered
      PROVE  FALSE
  <2>1. Settled(Agent[r], life, s)
    BY <1>2, GatewayAssumption DEF GatewayTypes, ClientsSettled
  <2>2. s = r \/ request[s] # "connecting"
    BY <1>2, GatewayAssumption DEF GatewayTypes, OneConnects, Registered
  <2> QED
    BY <1>2, <2>1, <2>2, GatewayAssumption DEF GatewayTypes, OneConnects, Registered, Settled, Lives
<1>3. ASSUME NEW a \in Agents, NEW l \in Lives, NEW r \in Requests, NEW s \in Requests,
             <<a, l, r>> \in registered', <<a, l, s>> \in registered'
      PROVE  r = s
  <2>1. \/ <<a, l, r>> \in registered
        \/ Registered(r) /\ a = Agent[r] /\ l = life
    BY <1>3, RegisteredStep
  <2>2. \/ <<a, l, s>> \in registered
        \/ Registered(s) /\ a = Agent[s] /\ l = life
    BY <1>3, RegisteredStep
  <2>3. CASE Registered(r) /\ Registered(s)
    BY <2>3, GatewayAssumption DEF GatewayTypes, OneConnects, Registered
  <2> QED
    BY <1>2, <2>1, <2>2, <2>3 DEF OneClient
<1> QED
  BY <1>1, <1>3 DEF ClientsSettled, OneClient

-----------------------------------------------------------------------------

\* The inductive invariant: one request connects at a time, and only for an agent
\* without a router; so who registers finds nobody registered in this life.
GatewayIInv == GatewayTypes /\ OneConnects /\ ClientsSettled /\ OneClient

LEMMA GatewayInitIInv == GatewayInit => GatewayIInv
<1> SUFFICES ASSUME GatewayInit PROVE GatewayIInv
  OBVIOUS
<1>1. OneConnects
  BY GatewayAssumption DEF GatewayInit, OneConnects
<1>2. ClientsSettled /\ OneClient
  BY DEF GatewayInit, ClientsSettled, OneClient
<1> QED
  BY <1>1, <1>2, GatewayInitTypes DEF GatewayIInv

LEMMA GatewayNextIInv == GatewayIInv /\ [GatewayNext]_gatewayVars => GatewayIInv'
BY GatewayNextTypes, OneConnectsStep, ClientsStep DEF GatewayIInv

\* Equal members make a set of at most one.
LEMMA AtMostOne == OneClient => OneClientPerAgent
<1> SUFFICES ASSUME OneClient, NEW a \in Agents, NEW l \in Lives
             PROVE  Cardinality({r \in Requests : <<a, l, r>> \in registered}) <= 1
  BY DEF OneClientPerAgent
<1> DEFINE Clients == {r \in Requests : <<a, l, r>> \in registered}
<1>1. ASSUME NEW r \in Clients, NEW s \in Clients PROVE r = s
  BY DEF OneClient
<1> SUFFICES Cardinality(Clients) <= 1
  OBVIOUS
<1> HIDE DEF Clients
<1>2. CASE Clients = {}
  BY <1>2, FS_EmptySet
<1>3. ASSUME NEW r \in Clients PROVE Cardinality(Clients) <= 1
  <2>1. Clients = {r}
    BY <1>1, <1>3
  <2>2. Cardinality({r}) = 1
    BY FS_Singleton
  <2> QED
    BY <2>1, <2>2
<1> QED
  BY <1>2, <1>3

\* However many requests name an agent at once, hang up halfway or see the daemon
\* restart under them, the gateway keeps at most one client of that agent with each
\* life of the daemon (get_or_create_router, under its write lock).
THEOREM AgentsHaveOneClient == GatewaySpec => []OneClientPerAgent
BY AtMostOne, GatewayInitIInv, GatewayNextIInv, PTL DEF GatewaySpec, GatewayIInv

=============================================================================
