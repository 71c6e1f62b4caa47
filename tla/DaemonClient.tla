----------------------------- MODULE DaemonClient -----------------------------
(***************************************************************************)
(* A client of the daemon's socket, shared by the tasks of one program. It *)
(* has registered and sent subscribe_tasks, so answers to its commands and *)
(* pushed events come down one socket, and a reader tells them apart.      *)
(*                                                                         *)
(* Three libraries do this: Rust (crates/twilight-mcp-server/src/lib.rs),  *)
(* Python (bridges/python/twilight_bark/client.py) and JavaScript          *)
(* (bridges/js/index.js). They differ in what becomes of a call when the   *)
(* socket closes, when it is cancelled and when another call was rejected. *)
(***************************************************************************)
EXTENDS Naturals, Sequences, SequencesExt

CONSTANTS
  Calls,      \* calls of the library's methods
  Rejected,   \* the calls whose command the daemon answers with an error
  MaxEvents,  \* bound on the events the daemon pushes
  Libraries,  \* the libraries to look at
  None

ASSUME ClientAssumption ==
  /\ Rejected \subseteq Calls
  /\ MaxEvents \in Nat
  /\ Libraries \subseteq {"rust", "python", "javascript"}
  /\ Calls \cap {None, "closed", "cancelled"} = {}
  /\ None \notin {"closed", "cancelled"}

VARIABLES
  library,    \* the library the program has linked
  connected,  \* the acknowledgement of subscribe_tasks has been read
  call,       \* call[k]: where a call is: new, queued, waiting, done
  outcome,    \* outcome[k]: the call whose answer k returns, or how it failed
  turn,       \* the calls that wait for their turn, in order
  holder,     \* the call whose turn it is
  sent,       \* commands the daemon has yet to answer
  line,       \* what the daemon has written and the reader has not handed on
  reading,    \* the reader runs
  answers,    \* answers the reader has handed on
  events,     \* events it has queued
  taken,      \* history: the events the program has taken
  pushed,     \* how many events the daemon has pushed
  open,       \* the daemon's end is open
  poison      \* JavaScript: the rejected call that ended the chain

vars == <<library, connected, call, outcome, turn, holder, sent, line, reading,
          answers, events, taken, pushed, open, poison>>

AnswerTo(k) == [kind |-> "answer", what |-> k]
Event(n)    == [kind |-> "event", what |-> n]

Init ==
  /\ library \in Libraries
  /\ connected = FALSE
  /\ call = [k \in Calls |-> "new"]
  /\ outcome = [k \in Calls |-> None]
  /\ turn = << >>
  /\ holder = None
  /\ sent = << >>
  /\ line = << >>
  /\ reading = FALSE
  /\ answers = << >>
  /\ events = << >>
  /\ taken = << >>
  /\ pushed = 0
  /\ open = TRUE
  /\ poison = None

\* Call k ends with o.
Finish(k, o) ==
  /\ call' = [call EXCEPT ![k] = "done"]
  /\ outcome' = [outcome EXCEPT ![k] = o]

-----------------------------------------------------------------------------
(* The daemon's end: it answers commands in order and pushes events between. *)

Answer ==
  /\ open
  /\ sent # << >>
  /\ sent' = Tail(sent)
  /\ line' = Append(line, AnswerTo(Head(sent)))
  /\ UNCHANGED <<library, connected, call, outcome, turn, holder, reading, answers, events,
                 taken, pushed, open, poison>>

Push ==
  /\ open
  /\ pushed < MaxEvents
  /\ pushed' = pushed + 1
  /\ line' = Append(line, Event(pushed + 1))
  /\ UNCHANGED <<library, connected, call, outcome, turn, holder, sent, reading, answers,
                 events, taken, open, poison>>

\* The daemon stops; what it has written can still be read.
Close ==
  /\ open
  /\ open' = FALSE
  /\ sent' = << >>
  /\ UNCHANGED <<library, connected, call, outcome, turn, holder, line, reading, answers,
                 events, taken, pushed, poison>>

-----------------------------------------------------------------------------
(* The reader.                                                              *)

\* The acknowledgement is read and the reader starts. JavaScript's readOneLine
\* drops the rest of the chunk the acknowledgement came in.
Connected ==
  /\ ~connected
  /\ connected' = TRUE
  /\ reading' = TRUE
  /\ IF library = "javascript"
     THEN \E n \in 0 .. Len(line) : line' = SubSeq(line, n + 1, Len(line))
     ELSE UNCHANGED line
  /\ UNCHANGED <<library, call, outcome, turn, holder, sent, answers, events, taken, pushed,
                 open, poison>>

\* Variant: while a call waits, the next line is its answer.
Read_nextIsAnswer ==
  /\ reading
  /\ line # << >>
  /\ IF Head(line).kind = "answer"
     THEN answers' = Append(answers, Head(line).what) /\ UNCHANGED events
     ELSE IF holder # None
          THEN answers' = Append(answers, holder) /\ UNCHANGED events
          ELSE events' = Append(events, Head(line).what) /\ UNCHANGED answers
  /\ line' = Tail(line)
  /\ UNCHANGED <<library, connected, call, outcome, turn, holder, sent, reading, taken,
                 pushed, open, poison>>

\* A line with an event goes to the events, any other to the answers.
Read ==
  /\ reading
  /\ line # << >>
  /\ IF Head(line).kind = "answer"
     THEN answers' = Append(answers, Head(line).what) /\ UNCHANGED events
     ELSE events' = Append(events, Head(line).what) /\ UNCHANGED answers
  /\ line' = Tail(line)
  /\ UNCHANGED <<library, connected, call, outcome, turn, holder, sent, reading, taken,
                 pushed, open, poison>>

\* End of file: the Rust reader breaks and drops its sender, Python's raises in a
\* task nobody awaits, JavaScript emits "close".
ReadEnd ==
  /\ reading
  /\ ~open /\ line = << >>
  /\ reading' = FALSE
  /\ UNCHANGED <<library, connected, call, outcome, turn, holder, sent, line, answers, events,
                 taken, pushed, open, poison>>

\* Python: readline raises on a line longer than the buffer of the stream (64 KiB by
\* default), which ends the task of the reader while the socket stays open. That line,
\* of an event or an answer, and all behind it are handed on to nobody.
ReadFails ==
  /\ library = "python"
  /\ reading
  /\ line # << >>
  /\ reading' = FALSE
  /\ UNCHANGED <<library, connected, call, outcome, turn, holder, sent, line, answers, events,
                 taken, pushed, open, poison>>

\* get_pending_tasks, drain_events.
Drain ==
  /\ events # << >>
  /\ taken' = taken \o events
  /\ events' = << >>
  /\ UNCHANGED <<library, connected, call, outcome, turn, holder, sent, line, reading, answers,
                 pushed, open, poison>>

-----------------------------------------------------------------------------
(* A call: it waits for its turn, writes its command and waits for an answer. *)

Call(k) ==
  /\ connected
  /\ call[k] = "new"
  /\ call' = [call EXCEPT ![k] = "queued"]
  /\ turn' = Append(turn, k)
  /\ UNCHANGED <<library, connected, outcome, holder, sent, line, reading, answers, events,
                 taken, pushed, open, poison>>

\* Variant: a call does not wait for the one before it.
MyTurn_always(k) == turn # << >> /\ Head(turn) = k

\* The Mutex, the Lock and the promise chain are all first come, first served.
MyTurn(k) == holder = None /\ turn # << >> /\ Head(turn) = k

\* The command is written, into the void when the daemon's end is closed.
Write(k) ==
  /\ MyTurn(k)
  /\ poison = None
  /\ turn' = Tail(turn)
  /\ holder' = k
  /\ call' = [call EXCEPT ![k] = "waiting"]
  /\ sent' = IF open THEN Append(sent, k) ELSE sent
  /\ UNCHANGED <<library, connected, outcome, line, reading, answers, events, taken, pushed,
                 open, poison>>

\* The write fails, which JavaScript hears of only by an event on the socket.
WriteFails(k) ==
  /\ MyTurn(k)
  /\ ~open
  /\ library # "javascript"
  /\ turn' = Tail(turn)
  /\ Finish(k, "closed")
  /\ UNCHANGED <<library, connected, holder, sent, line, reading, answers, events, taken,
                 pushed, open, poison>>

\* The call returns the next answer there is. In JavaScript a rejection ends the
\* chain every later call is appended to.
Return(k) ==
  /\ holder = k
  /\ answers # << >>
  /\ Finish(k, Head(answers))
  /\ answers' = Tail(answers)
  /\ holder' = None
  /\ poison' = IF library = "javascript" /\ Head(answers) \in Rejected THEN k ELSE poison
  /\ UNCHANGED <<library, connected, turn, sent, line, reading, events, taken, pushed, open>>

\* JavaScript: then() of a rejected promise does not run the call.
FailPoisoned(k) ==
  /\ MyTurn(k)
  /\ poison # None
  /\ turn' = Tail(turn)
  /\ Finish(k, poison)
  /\ UNCHANGED <<library, connected, holder, sent, line, reading, answers, events, taken,
                 pushed, open, poison>>

\* Variant: something keeps a sender of the answer channel.
Disconnected_never(k) == FALSE /\ UNCHANGED vars

\* Rust: recv returns None once the reader is gone and nothing is queued.
Disconnected(k) ==
  /\ library = "rust"
  /\ holder = k
  /\ ~reading /\ answers = << >>
  /\ Finish(k, "closed")
  /\ holder' = None
  /\ UNCHANGED <<library, connected, turn, sent, line, reading, answers, events, taken, pushed,
                 open, poison>>

\* asyncio cancels the task of a call (wait_for): the lock is released, the
\* command, if it was written, is not taken back.
Cancel(k) ==
  /\ library = "python"
  /\ call[k] \in {"queued", "waiting"}
  /\ Finish(k, "cancelled")
  /\ IF holder = k
     THEN holder' = None /\ UNCHANGED turn
     ELSE /\ \E i \in 1 .. Len(turn) : turn[i] = k /\ turn' = RemoveAt(turn, i)
          /\ UNCHANGED holder
  /\ UNCHANGED <<library, connected, sent, line, reading, answers, events, taken, pushed, open,
                 poison>>

-----------------------------------------------------------------------------

DaemonStep == Answer \/ Push \/ Close
ReaderStep == Connected \/ Read \/ ReadEnd \/ ReadFails \/ Drain
CallStep(k) ==
  \/ Call(k) \/ Write(k) \/ WriteFails(k) \/ Return(k) \/ FailPoisoned(k)
  \/ Disconnected(k) \/ Cancel(k)

Next == DaemonStep \/ ReaderStep \/ \E k \in Calls : CallStep(k)

\* The daemon answers what it has read, or is gone; the reader and the calls run.
\* Nobody has to push, close, take events, call or cancel, and no line has to be long.
Fairness ==
  /\ WF_vars(Answer) /\ WF_vars(Connected) /\ WF_vars(Read) /\ WF_vars(ReadEnd)
  /\ \A k \in Calls :
       /\ WF_vars(Write(k) \/ WriteFails(k) \/ FailPoisoned(k))
       /\ WF_vars(Return(k) \/ Disconnected(k))

Spec == Init /\ [][Next]_vars
FairSpec == Spec /\ Fairness

-----------------------------------------------------------------------------

\* A call returns the answer to its own command, whichever calls run beside it, and
\* where a library falls short of that it does so in one way only: in Python the
\* calls behind a cancelled one may get answers that are not theirs, in JavaScript
\* the calls behind a rejected one get its rejection and never another's success.
\* (The Rust client: "serialised so no two commands race".)
OwnAnswer ==
  \A k \in Calls :
    outcome[k] \in Calls \ {k} =>
      \/ library = "python" /\ \E j \in Calls : outcome[j] = "cancelled"
      \/ library = "javascript" /\ outcome[k] \in Rejected

\* No event is lost, repeated or put out of order between the daemon and what the
\* reader has handed on, while calls, answers and a closing socket come in between.
\* JavaScript may have dropped the first ones with its acknowledgement, and no others.
\* What is unread when Python's reader fails on a long line stays so.
EventsKept ==
  LET unread == {i \in 1 .. Len(line) : line[i].kind = "event"} IN
  \E first, next \in 1 .. pushed + 1 :
    /\ first = 1 \/ library = "javascript"
    /\ first <= next
    /\ taken \o events = [n \in 1 .. next - first |-> n + first - 1]
    /\ {line[i].what : i \in unread} = next .. pushed
    /\ \A i, j \in unread : i < j => line[i].what < line[j].what

\* Every call ends, in Rust also when the daemon goes away while it waits or before, in
\* JavaScript as long as the daemon stays, and in Python as long as the daemon stays and
\* no line has been too long for the reader. (client.py:20 says of TwilightError that it
\* is raised when the daemon "closes the socket": in Python that is so of a write alone.)
EveryCallReturns ==
  \A k \in Calls :
    call[k] = "queued" ~> call[k] = "done" \/ (library # "rust" /\ ~(open /\ reading))
=============================================================================
