----------------------------- MODULE TaskPromise ------------------------------
(***************************************************************************)
(* What the daemon promises about a task, with the connections, channels,  *)
(* agents and clocks left out: a published task is recorded by the handler *)
(* that published it and perhaps once more by the router, and every time   *)
(* its record is taken out of the ledger one result is made.               *)
(*                                                                         *)
(* The second record is the point: the abstract specification is the       *)
(* strongest one the code implements, and it allows a second result.       *)
(***************************************************************************)
EXTENDS Naturals

CONSTANT Tasks

VARIABLES
  issued,       \* tasks that have been published
  dispatching,  \* tasks whose handler has yet to record them
  routable,     \* tasks whose envelope the router has yet to read
  ledger,       \* tasks with a record
  answers,      \* how many results were made for a task
  refused       \* tasks whose handler reported a failure to the client

promiseVars == <<issued, dispatching, routable, ledger, answers, refused>>

PromiseInit ==
  /\ issued = {}
  /\ dispatching = {}
  /\ routable = {}
  /\ ledger = {}
  /\ answers = [t \in Tasks |-> 0]
  /\ refused = {}

\* Publish a task; the router may not be listening yet.
Publish(t) ==
  /\ t \notin issued
  /\ issued' = issued \cup {t}
  /\ dispatching' = dispatching \cup {t}
  /\ routable' \in {routable, routable \cup {t}}
  /\ UNCHANGED <<ledger, answers, refused>>

\* The handler records the task it published...
RecordAsIssuer(t) ==
  /\ t \in dispatching
  /\ dispatching' = dispatching \ {t}
  /\ ledger' = ledger \cup {t}
  /\ UNCHANGED <<issued, routable, answers, refused>>

\* ...unless publishing failed half-way: then it reports an error, and the router
\* may have the envelope all the same.
Refuse(t) ==
  /\ t \in dispatching
  /\ dispatching' = dispatching \ {t}
  /\ refused' = refused \cup {t}
  /\ UNCHANGED <<issued, routable, ledger, answers>>

\* The router records a task it finds a recipient for, and drops any other.
RecordAsRouter(t) ==
  /\ t \in routable
  /\ routable' = routable \ {t}
  /\ ledger' \in {ledger, ledger \cup {t}}
  /\ UNCHANGED <<issued, dispatching, answers, refused>>

\* A reply or a timeout.
Resolve(t) ==
  /\ t \in ledger
  /\ ledger' = ledger \ {t}
  /\ answers' = [answers EXCEPT ![t] = @ + 1]
  /\ UNCHANGED <<issued, dispatching, routable, refused>>

PromiseNext ==
  \E t \in Tasks : \/ Publish(t) \/ RecordAsIssuer(t) \/ Refuse(t)
                   \/ RecordAsRouter(t) \/ Resolve(t)

PromiseSpec == PromiseInit /\ [][PromiseNext]_promiseVars

\* The handler and the orchestrator do not stop half-way.
PromiseFairness ==
  \A t \in Tasks :
    /\ WF_promiseVars(RecordAsIssuer(t) \/ Refuse(t))
    /\ WF_promiseVars(Resolve(t))

FairPromiseSpec == PromiseSpec /\ PromiseFairness
=============================================================================
