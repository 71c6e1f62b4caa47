--------------------------- MODULE MembershipProofs ---------------------------
(***************************************************************************)
(* Theorems about Membership, for any members, any kind of observer, any   *)
(* threshold, interval and delay of beats, whatever is lost and however    *)
(* often the observer restarts.                                            *)
(***************************************************************************)
EXTENDS Membership, SequenceTheorems, TLAPS

USE MembershipAssumption

Statuses == {"Online", "Offline"}
Entry == [status : Statuses, age : Nat]

Types ==
  /\ kind \in {"daemon", "console", "list", "run"}
  /\ reads \subseteq Wanted
  /\ entry \in [Members -> Entry \cup {Absent}]
  /\ member \in [Members -> {"new", "up", "gone"}]
  /\ due \subseteq Members
  /\ phase \in [Members -> Nat]
  /\ wire \in [Members -> Seq(Statuses)]
  /\ missed \in [Members -> 0 .. Timeout]

-----------------------------------------------------------------------------
(* Types. *)

LEMMA UpdatePresenceType ==
  ASSUME Types, NEW m \in Members, NEW st \in Statuses, UpdatePresence(m, st)
  PROVE  entry' \in [Members -> Entry \cup {Absent}]
<1>1. [status |-> st, age |-> 0] \in Entry
  BY DEF Entry
<1> QED BY <1>1 DEF UpdatePresence, Types

LEMMA UpdateHeartbeatType ==
  ASSUME Types, NEW m \in Members, UpdateHeartbeat(m)
  PROVE  entry' \in [Members -> Entry \cup {Absent}]
<1>1. CASE Listed(m)
  <2>1. entry[m] \in Entry
    BY <1>1 DEF Listed, Types
  <2>2. [entry[m] EXCEPT !.age = 0] \in Entry
    BY <2>1 DEF Entry
  <2>3. entry' = [entry EXCEPT ![m] = [entry[m] EXCEPT !.age = 0]]
    BY <1>1 DEF UpdateHeartbeat, Types
  <2> QED BY <2>2, <2>3 DEF Types
<1>2. CASE ~Listed(m)
  BY <1>2 DEF UpdateHeartbeat, Types
<1> QED BY <1>1, <1>2

LEMMA PublishType ==
  ASSUME Types, NEW m \in Members, NEW st \in Statuses, Publish(m, st)
  PROVE  wire' \in [Members -> Seq(Statuses)]
<1>1. Append(wire[m], st) \in Seq(Statuses)
  BY AppendProperties DEF Types
<1>2. CASE wire' = [wire EXCEPT ![m] = Append(@, st)]
  BY <1>1, <1>2 DEF Types
<1>3. CASE wire' = wire
  BY <1>3 DEF Types
<1> QED BY <1>2, <1>3 DEF Publish

LEMMA TickType ==
  ASSUME Types, Tick
  PROVE  entry' \in [Members -> Entry \cup {Absent}]
<1> SUFFICES ASSUME NEW m \in Members
             PROVE  (IF Listed(m) /\ entry[m].age <= Timeout
                     THEN [entry[m] EXCEPT !.age = @ + 1] ELSE entry[m]) \in Entry \cup {Absent}
  BY DEF Tick
<1>1. CASE Listed(m)
  <2>1. entry[m] \in Entry
    BY <1>1 DEF Listed, Types
  <2> QED BY <2>1 DEF Entry
<1>2. CASE ~Listed(m)
  BY <1>2 DEF Types
<1> QED BY <1>1, <1>2

LEMMA InitType == MembershipInit => Types
  BY DEF MembershipInit, Types, Wanted

LEMMA StepType == Types /\ [MembershipNext]_membershipVars => Types'
<1> SUFFICES ASSUME Types, [MembershipNext]_membershipVars
             PROVE  Types'
  OBVIOUS
<1>1. ASSUME NEW m \in Members, Announce(m)
      PROVE  Types'
  <2>1. wire' \in [Members -> Seq(Statuses)]
    BY <1>1, PublishType DEF Announce, Statuses
  <2> QED BY <1>1, <2>1 DEF Announce, observer, beats, Types, Wanted
<1>2. ASSUME NEW m \in Members, BeatHeard(m)
      PROVE  Types'
  BY <1>2, UpdateHeartbeatType DEF BeatHeard, observer, beats, Types, Wanted
<1>3. ASSUME NEW m \in Members, BeatLost(m)
      PROVE  Types'
  BY <1>3 DEF BeatLost, observer, beats, Types, Wanted
<1>4. ASSUME NEW m \in Members, End(m)
      PROVE  Types'
  <2>1. wire' \in [Members -> Seq(Statuses)]
    <3>1. CASE Publish(m, "Offline")
      BY <3>1, PublishType DEF Statuses
    <3>2. CASE UNCHANGED wire
      BY <3>2 DEF Types
    <3> QED BY <1>4, <3>1, <3>2 DEF End
  <2> QED BY <1>4, <2>1 DEF End, observer, beats, Types, Wanted
<1>5. ASSUME NEW m \in Members, Receive(m)
      PROVE  Types'
  <2>1. Head(wire[m]) \in Statuses /\ Tail(wire[m]) \in Seq(Statuses)
    BY <1>5, HeadTailProperties DEF Receive, Types
  <2>2. entry' \in [Members -> Entry \cup {Absent}]
    BY <1>5, <2>1, UpdatePresenceType DEF Receive
  <2>3. wire' \in [Members -> Seq(Statuses)] /\ missed' \in [Members -> 0 .. Timeout]
    BY <1>5, <2>1 DEF Receive, Types
  <2> QED BY <1>5, <2>2, <2>3 DEF Receive, observer, beats, Types, Wanted
<1>6. ASSUME NEW m \in Members, Lose(m)
      PROVE  Types'
  <2>1. Tail(wire[m]) \in Seq(Statuses)
    BY <1>6, HeadTailProperties DEF Lose, Types
  <2> QED BY <1>6, <2>1 DEF Lose, observer, beats, Types, Wanted
<1>7. ASSUME NEW m \in Members, Evict(m)
      PROVE  Types'
  BY <1>7 DEF Evict, observer, beats, Types, Wanted
<1>8. ASSUME NEW s \in {"presence", "heartbeat"}, SubscribeTo(s)
      PROVE  Types'
  BY <1>8 DEF SubscribeTo, beats, Types, Wanted
<1>9. CASE Scan
  BY <1>9 DEF Scan, observer, beats, Types, Wanted
<1>10. CASE Restart
  BY <1>10 DEF Restart, beats, Types, Wanted
<1>11. CASE Tick
  <2>1. phase' \in [Members -> Nat]
    BY <1>11 DEF Tick, Later, Types
  <2> QED BY <1>11, <2>1, TickType DEF Tick, observer, Types, Wanted
<1>12. CASE UNCHANGED membershipVars
  BY <1>12 DEF membershipVars, observer, beats, Types, Wanted
<1> QED BY <1>1, <1>2, <1>3, <1>4, <1>5, <1>6, <1>7, <1>8, <1>9, <1>10, <1>11, <1>12
        DEF MembershipNext, MemberStep

-----------------------------------------------------------------------------
(* Lost beats. *)

\* A beat that is due is not later than Delay, and the next falls due after it.
PhaseIsBounded ==
  \A m \in Members :
    /\ phase[m] < Interval
    /\ m \in due => phase[m] <= Delay
    /\ member[m] = "new" => phase[m] = 0 /\ m \notin due

\* The last beat due came at most so many intervals after the entry was renewed as
\* beats have been lost, with this one if it is still awaited.
Awaited(m) == missed[m] + (IF m \in due THEN 1 ELSE 0)
AgeIsMissed ==
  \A m \in Beats : member[m] = "up" /\ Listed(m) =>
    missed[m] = Timeout \/ entry[m].age <= phase[m] + Interval * Awaited(m)

\* Who is new has not been heard of.
NewIsUnknown ==
  \A m \in Members : member[m] = "new" => wire[m] = << >> /\ ~Listed(m)

LEMMA ProductNext ==
  ASSUME NEW i \in Nat, NEW n \in Nat
  PROVE  i * n \in Nat /\ i * (n + 1) = i * n + i
OBVIOUS

LEMMA ProductBound ==
  ASSUME NEW i \in Nat, NEW n \in Nat, i > 0
  PROVE  i * n >= n
OBVIOUS

LEMMA StepPhaseIsBounded ==
  ASSUME Types, PhaseIsBounded, [MembershipNext]_membershipVars
  PROVE  PhaseIsBounded'
<1>1. CASE Tick
  <2> SUFFICES ASSUME NEW m \in Members
               PROVE  /\ phase'[m] < Interval /\ (m \in due' => phase'[m] <= Delay)
                      /\ member'[m] = "new" => phase'[m] = 0 /\ m \notin due'
    BY DEF PhaseIsBounded
  <2>1. /\ phase[m] \in Nat /\ phase[m] < Interval
        /\ phase'[m] = phase[m] \/ phase'[m] = Later(phase[m])
    BY <1>1 DEF Tick, PhaseIsBounded, Types
  <2>2. ASSUME m \in due
        PROVE  phase[m] < Delay /\ phase'[m] <= Delay
    BY <1>1, <2>1, <2>2 DEF Tick, Later
  <2>3. m \in due' \ due => phase'[m] = 0 /\ member[m] = "up"
    BY <1>1 DEF Tick
  <2>4. ASSUME member'[m] = "new"
        PROVE  phase'[m] = 0 /\ m \notin due'
    <3>1. member[m] = "new" /\ phase[m] = 0 /\ m \notin due
      BY <1>1, <2>4 DEF Tick, PhaseIsBounded
    <3> QED BY <1>1, <3>1 DEF Tick
  <2> QED BY <2>1, <2>2, <2>3, <2>4 DEF Later
<1>2. ASSUME NEW m \in Members, Announce(m)
      PROVE  PhaseIsBounded'
  <2>1. phase' = phase /\ due' = due \cup ({m} \cap Beats) /\ phase[m] <= Delay
    BY <1>2 DEF Announce, PhaseIsBounded
  <2>2. member' = [member EXCEPT ![m] = "up"]
    BY <1>2 DEF Announce
  <2> QED BY <2>1, <2>2 DEF PhaseIsBounded, Types
<1>3. ASSUME NEW m \in Members, BeatHeard(m) \/ BeatLost(m) \/ End(m)
      PROVE  PhaseIsBounded'
  BY <1>3 DEF BeatHeard, BeatLost, End, PhaseIsBounded, Types
<1>4. ASSUME NEW m \in Members, Receive(m) \/ Lose(m) \/ Evict(m)
      PROVE  PhaseIsBounded'
  BY <1>4 DEF Receive, Lose, Evict, beats, PhaseIsBounded
<1>5. ASSUME NEW s \in {"presence", "heartbeat"}, SubscribeTo(s)
      PROVE  PhaseIsBounded'
  BY <1>5 DEF SubscribeTo, beats, PhaseIsBounded
<1>6. CASE Scan \/ Restart \/ UNCHANGED membershipVars
  BY <1>6 DEF Scan, Restart, membershipVars, beats, PhaseIsBounded
<1> QED BY <1>1, <1>2, <1>3, <1>4, <1>5, <1>6 DEF MembershipNext, MemberStep

\* What a step does to an entry: it keeps its value, is not older by more than the
\* tick, is renewed, is written, or goes.
Kept(m)    == entry'[m] = entry[m] /\ phase' = phase
Aged(m)    == Tick /\ (IF Listed(m) THEN entry'[m].age <= entry[m].age + 1 ELSE entry'[m] = entry[m])
Renewed(m) == BeatHeard(m) /\ Listed(m) /\ entry'[m] = [entry[m] EXCEPT !.age = 0]
Written(m) == Receive(m) /\ entry'[m] = [status |-> Head(wire[m]), age |-> 0]
Dropped(m) == entry'[m] = Absent

LEMMA EntryStep ==
  ASSUME Types, [MembershipNext]_membershipVars, NEW m \in Members
  PROVE  Kept(m) \/ Aged(m) \/ Renewed(m) \/ Written(m) \/ Dropped(m)
<1>1. ASSUME NEW x \in Members, BeatHeard(x)
      PROVE  Kept(m) \/ Renewed(m)
  BY <1>1 DEF BeatHeard, UpdateHeartbeat, Types, Kept, Renewed
<1>2. ASSUME NEW x \in Members, Receive(x)
      PROVE  Kept(m) \/ Written(m)
  BY <1>2 DEF Receive, UpdatePresence, beats, Types, Kept, Written
<1>3. ASSUME NEW x \in Members, Evict(x)
      PROVE  Kept(m) \/ Dropped(m)
  BY <1>3 DEF Evict, beats, Types, Kept, Dropped
<1>4. CASE Tick
  <2>1. CASE Listed(m)
    <3>1. entry[m] \in Entry
      BY <2>1 DEF Listed, Types
    <3>2. entry'[m] = IF entry[m].age <= Timeout THEN [entry[m] EXCEPT !.age = entry[m].age + 1] ELSE entry[m]
      BY <1>4, <2>1 DEF Tick
    <3> QED BY <1>4, <2>1, <3>1, <3>2 DEF Aged, Entry
  <2>2. CASE ~Listed(m)
    BY <1>4, <2>2 DEF Tick, Aged
  <2> QED BY <2>1, <2>2
<1>5. CASE Restart
  BY <1>5 DEF Restart, Dropped
<1>6. ASSUME NEW x \in Members, Announce(x) \/ BeatLost(x) \/ End(x) \/ Lose(x)
      PROVE  Kept(m)
  BY <1>6 DEF Announce, BeatLost, End, Lose, beats, Kept
<1>7. ASSUME NEW s \in {"presence", "heartbeat"}, SubscribeTo(s)
      PROVE  Kept(m)
  BY <1>7 DEF SubscribeTo, beats, Kept
<1>8. CASE Scan \/ UNCHANGED membershipVars
  BY <1>8 DEF Scan, membershipVars, beats, Kept
<1> QED BY <1>1, <1>2, <1>3, <1>4, <1>5, <1>6, <1>7, <1>8 DEF MembershipNext, MemberStep

\* A member is new, then up, then gone.
LEMMA MemberMoves ==
  ASSUME Types, [MembershipNext]_membershipVars, NEW m \in Members
  PROVE  \/ member'[m] = member[m]
         \/ member[m] = "new" /\ member'[m] = "up" /\ Announce(m)
         \/ member'[m] = "gone" /\ End(m)
  BY DEF MembershipNext, MemberStep, Announce, BeatHeard, BeatLost, End, Receive, Lose, Evict,
         SubscribeTo, Scan, Restart, Tick, observer, membershipVars, Types

\* Nothing is on its way to the observer of a member that publishes nothing.
LEMMA WireStaysEmpty ==
  ASSUME Types, [MembershipNext]_membershipVars, NEW m \in Members,
         wire[m] = << >>, ~Announce(m), ~End(m)
  PROVE  wire'[m] = << >>
<1>1. ASSUME NEW x \in Members, Announce(x) \/ End(x)
      PROVE  wire'[m] = wire[m]
  <2>1. x # m
    BY <1>1
  <2> QED BY <1>1, <2>1 DEF Announce, End, Publish, Types
<1>2. ASSUME NEW x \in Members, Receive(x) \/ Lose(x)
      PROVE  wire'[m] = wire[m]
  <2>1. x # m
    BY <1>2 DEF Receive, Lose
  <2> QED BY <1>2, <2>1 DEF Receive, Lose, Types
<1>3. ASSUME NEW x \in Members, BeatHeard(x) \/ BeatLost(x) \/ Evict(x)
      PROVE  wire'[m] = wire[m]
  BY <1>3 DEF BeatHeard, BeatLost, Evict
<1>4. ASSUME NEW s \in {"presence", "heartbeat"}, SubscribeTo(s)
      PROVE  wire'[m] = wire[m]
  BY <1>4 DEF SubscribeTo
<1>5. CASE Scan \/ Restart \/ Tick \/ UNCHANGED membershipVars
  BY <1>5 DEF Scan, Restart, Tick, membershipVars
<1> QED BY <1>1, <1>2, <1>3, <1>4, <1>5 DEF MembershipNext, MemberStep

LEMMA StepNewIsUnknown ==
  ASSUME Types, NewIsUnknown, [MembershipNext]_membershipVars
  PROVE  NewIsUnknown'
<1> SUFFICES ASSUME NEW m \in Members, member'[m] = "new"
             PROVE  wire'[m] = << >> /\ entry'[m] = Absent
  BY DEF NewIsUnknown, Listed
<1>1. member[m] = "new" /\ ~Announce(m) /\ ~End(m)
  BY MemberMoves DEF Announce, End, Types
<1>2. wire[m] = << >> /\ ~Listed(m)
  BY <1>1 DEF NewIsUnknown
<1>3. ~Receive(m)
  BY <1>2 DEF Receive
<1>4. entry'[m] = Absent
  BY <1>2, <1>3, EntryStep DEF Kept, Aged, Renewed, Written, Dropped, Listed
<1> QED BY <1>1, <1>2, <1>4, WireStaysEmpty

LEMMA MissedStep ==
  ASSUME Types, [MembershipNext]_membershipVars, NEW m \in Members
  PROVE  \/ missed'[m] = missed[m] /\ (m \in due => m \in due' \/ member'[m] = "gone")
         \/ missed'[m] = missed[m] + 1 /\ m \in due /\ m \notin due'
            /\ entry' = entry /\ member' = member /\ phase' = phase
         \/ missed'[m] = Timeout
         \/ missed'[m] = 0 /\ (BeatHeard(m) \/ Receive(m))
<1>1. ASSUME NEW x \in Members, BeatLost(x)
      PROVE  IF x = m THEN missed'[m] = IF missed[m] < Timeout THEN missed[m] + 1 ELSE missed[m]
                      ELSE missed'[m] = missed[m] /\ (m \in due => m \in due')
  BY <1>1 DEF BeatLost, Types
<1>2. ASSUME NEW x \in Members, BeatHeard(x)
      PROVE  IF x = m THEN missed'[m] = 0 ELSE missed'[m] = missed[m] /\ (m \in due => m \in due')
  BY <1>2 DEF BeatHeard, Types
<1>3. ASSUME NEW x \in Members, Receive(x)
      PROVE  IF x = m THEN missed'[m] = 0 ELSE missed'[m] = missed[m] /\ (m \in due => m \in due')
  BY <1>3 DEF Receive, beats, Types
<1>4. ASSUME NEW x \in Members, End(x)
      PROVE  missed'[m] = missed[m] /\ (m \in due => m \in due' \/ member'[m] = "gone")
  BY <1>4 DEF End, Types
<1>5. ASSUME NEW x \in Members, Announce(x) \/ Lose(x) \/ Evict(x)
      PROVE  missed'[m] = missed[m] /\ (m \in due => m \in due')
  BY <1>5 DEF Announce, Lose, Evict, beats
<1>6. ASSUME NEW s \in {"presence", "heartbeat"}, SubscribeTo(s)
      PROVE  missed'[m] = missed[m] /\ (m \in due => m \in due')
  BY <1>6 DEF SubscribeTo, beats
<1>7. ASSUME Scan \/ Restart \/ Tick \/ UNCHANGED membershipVars
      PROVE  missed'[m] = missed[m] /\ (m \in due => m \in due')
  BY <1>7 DEF Scan, Restart, Tick, beats, membershipVars
<1>8. missed[m] \in 0 .. Timeout
  BY DEF Types
<1>9. ASSUME BeatLost(m)
      PROVE  m \in due /\ m \notin due' /\ entry' = entry /\ member' = member /\ phase' = phase
  BY <1>9 DEF BeatLost
<1> QED BY <1>1, <1>2, <1>3, <1>4, <1>5, <1>6, <1>7, <1>8, <1>9 DEF MembershipNext, MemberStep

LEMMA StepAgeIsMissed ==
  ASSUME Types, Types', PhaseIsBounded, NewIsUnknown, AgeIsMissed,
         [MembershipNext]_membershipVars
  PROVE  AgeIsMissed'
<1> SUFFICES ASSUME NEW m \in Beats, member'[m] = "up", entry'[m] # Absent, missed'[m] # Timeout
             PROVE  entry'[m].age <= phase'[m] + Interval * Awaited(m)'
  BY DEF AgeIsMissed, Listed
<1>1. /\ m \in Members /\ entry'[m] \in Entry /\ phase[m] \in Nat /\ phase'[m] \in Nat
      /\ missed[m] \in Nat /\ missed'[m] \in Nat /\ Awaited(m) \in Nat /\ Awaited(m)' \in Nat
  BY DEF Types, Awaited
<1>2. ASSUME entry'[m].age = 0
      PROVE  entry'[m].age <= phase'[m] + Interval * Awaited(m)'
  BY <1>1, <1>2, ProductNext
<1>3. CASE Renewed(m)
  <2>1. entry[m] \in Entry
    BY <1>1, <1>3 DEF Renewed, Listed, Types
  <2> QED BY <1>2, <1>3, <2>1 DEF Renewed, Entry
<1>4. CASE Written(m)
  BY <1>2, <1>4 DEF Written
<1>5. ASSUME Kept(m) \/ Aged(m)
      PROVE  Listed(m) /\ member[m] = "up" /\ entry[m] \in Entry
  <2>1. Listed(m)
    BY <1>5 DEF Kept, Aged, Listed
  <2>2. member[m] # "new"
    BY <1>1, <2>1 DEF NewIsUnknown
  <2> QED BY <1>1, <2>1, <2>2, MemberMoves DEF Types, Listed
<1>6. CASE Aged(m)
  <2>1. missed' = missed /\ (m \in due => m \in due' /\ phase[m] < Delay)
    BY <1>6 DEF Aged, Tick
  <2>2. phase'[m] = Later(phase[m]) /\ (phase'[m] = 0 => m \in due')
    BY <1>1, <1>5, <1>6 DEF Aged, Tick
  <2>3. entry'[m].age <= entry[m].age + 1 /\ entry'[m].age \in Nat /\ entry[m].age \in Nat
    BY <1>1, <1>5, <1>6 DEF Aged, Entry
  <2>4. entry[m].age <= phase[m] + Interval * Awaited(m)
    BY <1>1, <1>5, <1>6, <2>1 DEF AgeIsMissed
  <2>5. CASE phase[m] + 1 = Interval
    <3>1. phase'[m] = 0 /\ m \notin due /\ m \in due'
      BY <1>1, <2>1, <2>2, <2>5 DEF Later
    <3>2. Awaited(m)' = Awaited(m) + 1
      BY <1>1, <2>1, <3>1 DEF Awaited
    <3>3. Interval * Awaited(m)' = Interval * Awaited(m) + Interval /\ Interval * Awaited(m) \in Nat
      BY <1>1, <3>2, ProductNext
    <3> QED BY <1>1, <2>3, <2>4, <2>5, <3>1, <3>3
  <2>6. CASE phase[m] + 1 # Interval
    <3>1. phase'[m] = phase[m] + 1
      BY <2>2, <2>6 DEF Later
    <3>2. m \in due' => m \in due
      BY <1>1, <1>6, <3>1 DEF Aged, Tick
    <3>3. Awaited(m)' = Awaited(m)
      BY <2>1, <3>2 DEF Awaited
    <3>4. Interval * Awaited(m) \in Nat
      BY <1>1, ProductNext
    <3> QED BY <1>1, <2>3, <2>4, <3>1, <3>3, <3>4
  <2> QED BY <2>5, <2>6
<1>7. CASE Kept(m)
  <2>1. entry'[m].age = entry[m].age /\ phase'[m] = phase[m] /\ entry[m].age \in Nat
    BY <1>5, <1>7 DEF Kept, Entry
  <2>2. CASE BeatHeard(m)
    <3>1. entry'[m] = [entry[m] EXCEPT !.age = 0]
      BY <1>1, <1>5, <1>7, <2>2 DEF BeatHeard, UpdateHeartbeat, Types
    <3> QED BY <1>2, <1>5, <1>7, <3>1 DEF Entry
  <2>3. CASE Receive(m)
    <3>1. entry'[m].age = 0
      BY <1>1, <2>3 DEF Receive, UpdatePresence, Types
    <3> QED BY <1>2, <3>1
  <2>4. CASE ~BeatHeard(m) /\ ~Receive(m)
    <3>1. \/ missed'[m] = missed[m] /\ (m \in due => m \in due')
          \/ missed'[m] = missed[m] + 1 /\ m \in due /\ m \notin due'
      BY <1>1, <2>4, MissedStep
    <3>2. missed[m] # Timeout
      BY <1>1, <3>1 DEF Types
    <3>3. entry[m].age <= phase[m] + Interval * Awaited(m)
      BY <1>5, <1>7, <3>2 DEF AgeIsMissed
    <3>4. Awaited(m)' = Awaited(m) \/ Awaited(m)' = Awaited(m) + 1
      BY <1>1, <3>1 DEF Awaited
    <3>5. Interval * Awaited(m)' >= Interval * Awaited(m) /\ Interval * Awaited(m) \in Nat
      BY <1>1, <3>4, ProductNext
    <3>6. Interval * Awaited(m)' \in Nat
      BY <1>1, ProductNext
    <3> QED BY <1>1, <2>1, <3>3, <3>5, <3>6
  <2> QED BY <2>2, <2>3, <2>4
<1>8. ~Dropped(m)
  BY DEF Dropped
<1> QED BY <1>1, <1>3, <1>4, <1>6, <1>7, <1>8, EntryStep

-----------------------------------------------------------------------------
(* The theorem. *)

Inv == Types /\ PhaseIsBounded /\ NewIsUnknown /\ AgeIsMissed

LEMMA InitInv == MembershipInit => Inv
<1>1. MembershipInit => NewIsUnknown /\ AgeIsMissed /\ PhaseIsBounded
  BY DEF MembershipInit, NewIsUnknown, AgeIsMissed, PhaseIsBounded, Listed
<1> QED BY <1>1, InitType DEF Inv

LEMMA Invariance == MembershipSpec => []Inv
<1>1. Inv /\ [MembershipNext]_membershipVars => Inv'
  BY StepType, StepPhaseIsBounded, StepNewIsUnknown, StepAgeIsMissed DEF Inv
<1> QED BY <1>1, InitInv, PTL DEF MembershipSpec

\* However late beats are, up to Delay, and in whatever order presence, beats and the
\* cleanup loop come, a live member is stale only when so many beats in a row are lost
\* that the next may come after the threshold.
THEOREM LostBeatsAreTolerated == MembershipSpec => []ToleratesLostBeats
<1>1. Inv => ToleratesLostBeats
  <2> SUFFICES ASSUME Inv, NEW m \in Beats, member[m] = "up", IsStale(m)
               PROVE  Interval * (missed[m] + 1) + Delay > Timeout
    BY DEF ToleratesLostBeats
  <2>1. m \in Members /\ missed[m] \in Nat /\ phase[m] \in Nat /\ Interval > 0
    BY DEF Inv, Types
  <2>2. entry[m].age \in Nat /\ entry[m].age > Timeout
    BY <2>1 DEF IsStale, Listed, Inv, Types, Entry
  <2>3. /\ Interval * missed[m] \in Nat
        /\ Interval * (missed[m] + 1) = Interval * missed[m] + Interval
    BY <2>1, ProductNext
  <2>4. CASE missed[m] = Timeout
    <3>1. Interval * (missed[m] + 1) >= missed[m] + 1
      BY <2>1, ProductBound
    <3> QED BY <2>1, <2>3, <2>4, <3>1
  <2>5. CASE missed[m] # Timeout
    <3>1. entry[m].age <= phase[m] + Interval * Awaited(m)
      BY <2>5 DEF IsStale, Inv, AgeIsMissed
    <3>2. CASE m \in due
      <4>1. phase[m] <= Delay /\ Awaited(m) = missed[m] + 1
        BY <2>1, <3>2 DEF Inv, PhaseIsBounded, Awaited
      <4> QED BY <2>1, <2>2, <2>3, <3>1, <4>1
    <3>3. CASE m \notin due
      <4>1. phase[m] < Interval /\ Awaited(m) = missed[m]
        BY <2>1, <3>3 DEF Inv, PhaseIsBounded, Awaited
      <4> QED BY <2>1, <2>2, <2>3, <3>1, <4>1
    <3> QED BY <3>2, <3>3
  <2> QED BY <2>4, <2>5
<1> QED BY <1>1, Invariance, PTL
=============================================================================
