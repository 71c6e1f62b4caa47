------------------------------ MODULE Continuity ------------------------------
(***************************************************************************)
(* Registry with what Register does for the continuity of an identity      *)
(* (twilight-daemon/src/ipc.rs): it looks for an agent of the same name    *)
(* before it publishes, and afterwards, when the agent found had a model   *)
(* and the new one has another, sends the others an event that says so.    *)
(* The event is a task like any other, which TaskOrchestrator has.         *)
(***************************************************************************)
EXTENDS Registry

CONSTANTS
  Model,   \* Model[s]: the model, with its provider, that s registers with
  NoModel  \* none of the fields was given

ASSUME ContinuityAssumption == Sessions \subseteq DOMAIN Model

VARIABLES
  prior,   \* prior[s]: the identity Register found, or None: a local of the handler
  events,  \* the continuity events on the bus, each a pair of sessions
  warned,  \* the sessions whose event's publish failed, which the daemon logs
  holder   \* history: holder[s] is who alone had the name of s as it registered

continuity == <<prior, events, warned, holder>>
allVars == <<vars, continuity>>

ContinuityInit ==
  /\ Init
  /\ prior = [s \in Sessions |-> None]
  /\ events = {}
  /\ warned = {}
  /\ holder = [s \in Sessions |-> {}]

\* has_model_identity of the one and identity_model_changed between the two.
ModelChanged(t, s) == Model[t] # NoModel /\ Model[t] # Model[s]

Namesakes(s) == {t \in Sessions : Name[t] = Name[s]}

\* There and pinging, and no other entry of the name at its node.
Holder(s) ==
  {t \in Namesakes(s) \cap Pinging :
     /\ Home[t] = Home[s] /\ session[t] = "online"
     /\ \A u \in Namesakes(s) \ {t} : ~Listed(Home[s], u)}

\* The lookup comes before the new identity is published.
LookAndRegister(s) ==
  /\ Register(s)
  /\ LET found == AllIdentities(Home[s]) \cap Namesakes(s) IN
       prior' = [prior EXCEPT ![s] = IF found = {} THEN None ELSE CHOOSE t \in found : TRUE]
  /\ holder' = [holder EXCEPT ![s] = Holder(s)]
  /\ UNCHANGED <<events, warned>>

\* publish_identity_continuity_event. A publish is two puts: when the first fails
\* there is no event, when the second does it is out all the same, and of either
\* failure Register only warns.
Announce(t, s) ==
  IF t # None /\ ModelChanged(t, s)
  THEN \E put, failed \in BOOLEAN :
         /\ put \/ failed
         /\ events' = IF put THEN events \cup {<<t, s>>} ELSE events
         /\ warned' = IF failed THEN warned \cup {s} ELSE warned
  ELSE UNCHANGED <<events, warned>>

\* Variant: the lookup comes after the registry has been updated.
RegisterAndAnnounce_lookLate(s) ==
  /\ FinishRegister(s)
  /\ \E t \in {u \in Namesakes(s) : entry'[Home[s]][u] # None /\ later'[Home[s]][u] = {}} : Announce(t, s)
  /\ UNCHANGED <<prior, holder>>

\* The event is for the identity found before the await.
RegisterAndAnnounce(s) ==
  /\ FinishRegister(s)
  /\ Announce(prior[s], s)
  /\ UNCHANGED <<prior, holder>>

OtherStep ==
  \/ \E s \in Sessions : Ping(s) \/ Leave(s) \/ FinishLeave(s) \/ Abandon(s)
  \/ \E n \in Nodes : NodeStep(n)
  \/ Tick

ContinuityNext ==
  \/ \E s \in Sessions : LookAndRegister(s) \/ RegisterAndAnnounce(s)
  \/ OtherStep /\ UNCHANGED continuity

ContinuitySpec == ContinuityInit /\ [][ContinuityNext]_allVars /\ Fairness

-----------------------------------------------------------------------------

\* An agent that takes the name of one that is there is announced, by the time its
\* register is answered, if its model differs, whatever the other has done
\* meanwhile, unless the publish has failed and the daemon has warned of it; one
\* with the same model is not. Not so an agent that comes back: whether it is
\* noticed hangs on the echo of its own Offline, and once its entry is gone, it
\* is not.
TakeoverIsNoticed ==
  \A s \in Sessions : session[s] \in {"online", "leaving", "left"} =>
    \A t \in holder[s] :
      /\ ModelChanged(t, s) => <<t, s>> \in events \/ s \in warned
      /\ <<t, s>> \in events => ModelChanged(t, s)
=============================================================================
