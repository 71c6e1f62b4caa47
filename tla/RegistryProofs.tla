---------------------------- MODULE RegistryProofs ----------------------------
(***************************************************************************)
(* Theorems about Registry and Continuity, for any nodes and sessions, any *)
(* staleness threshold and any number of restarts.                         *)
(***************************************************************************)
EXTENDS Continuity, SequenceTheorems, TLAPS

USE RegistryAssumption

Gone == {"leaving", "left", "lost"}

-----------------------------------------------------------------------------
(* Types. *)

LEMMA UpdatePresenceType ==
  ASSUME TypeOK, NEW n \in Nodes, NEW s \in Sessions, NEW st \in Statuses,
         UpdatePresence(n, s, st)
  PROVE  /\ entry' \in [Nodes -> [Sessions -> Entry \cup {None}]]
         /\ later' \in [Nodes -> [Sessions -> SUBSET Sessions]]
<1>1. [status |-> st, age |-> 0] \in Entry
  BY DEF Entry
<1>2. entry' \in [Nodes -> [Sessions -> Entry \cup {None}]]
  BY <1>1 DEF UpdatePresence, TypeOK
<1>3. later' \in [Nodes -> [Sessions -> SUBSET Sessions]]
  BY DEF UpdatePresence, Seen, TypeOK
<1> QED BY <1>2, <1>3

LEMMA UpdateHeartbeatType ==
  ASSUME TypeOK, NEW n \in Nodes, NEW s \in Sessions, UpdateHeartbeat(n, s)
  PROVE  /\ entry' \in [Nodes -> [Sessions -> Entry \cup {None}]]
         /\ later' \in [Nodes -> [Sessions -> SUBSET Sessions]]
<1>1. CASE Listed(n, s)
  <2>1. entry[n][s] \in Entry
    BY <1>1 DEF Listed, TypeOK
  <2>2. [entry[n][s] EXCEPT !.age = 0] \in Entry
    BY <2>1 DEF Entry
  <2>3. /\ entry' = [entry EXCEPT ![n][s] = [entry[n][s] EXCEPT !.age = 0]]
        /\ Seen(n, s)
    BY <1>1 DEF UpdateHeartbeat, TypeOK
  <2>4. entry' \in [Nodes -> [Sessions -> Entry \cup {None}]]
    BY <2>2, <2>3 DEF TypeOK
  <2>5. later' \in [Nodes -> [Sessions -> SUBSET Sessions]]
    BY <2>3 DEF Seen, TypeOK
  <2> QED BY <2>4, <2>5
<1>2. CASE ~Listed(n, s)
  BY <1>2 DEF UpdateHeartbeat, TypeOK
<1> QED BY <1>1, <1>2

LEMMA RemoveAgentType ==
  ASSUME TypeOK, NEW n \in Nodes, NEW s \in Sessions, RemoveAgent(n, s)
  PROVE  /\ entry' \in [Nodes -> [Sessions -> Entry \cup {None}]]
         /\ later' \in [Nodes -> [Sessions -> SUBSET Sessions]]
  BY DEF RemoveAgent, TypeOK

LEMMA PublishType ==
  ASSUME TypeOK, NEW h \in Nodes, NEW s \in Sessions, NEW st \in Statuses, Publish(h, s, st)
  PROVE  wire' \in [Nodes -> [Nodes -> Seq(Presence)]]
<1>1. [who |-> s, status |-> st] \in Presence
  BY DEF Presence
<1>2. ASSUME NEW n \in Nodes
      PROVE  Append(wire[h][n], [who |-> s, status |-> st]) \in Seq(Presence)
  BY <1>1 DEF TypeOK
<1> QED BY <1>2 DEF Publish, TypeOK

LEMMA HeadType ==
  ASSUME TypeOK, NEW h \in Nodes, NEW n \in Nodes, wire[h][n] # << >>
  PROVE  /\ Head(wire[h][n]).who \in Sessions
         /\ Head(wire[h][n]).status \in Statuses
         /\ Tail(wire[h][n]) \in Seq(Presence)
<1>1. wire[h][n] \in Seq(Presence)
  BY DEF TypeOK
<1>2. Head(wire[h][n]) \in Presence /\ Tail(wire[h][n]) \in Seq(Presence)
  BY <1>1, HeadTailProperties
<1> QED BY <1>2 DEF Presence

LEMMA InitType == Init => TypeOK
<1>1. << >> \in Seq(Presence)
  OBVIOUS
<1>2. Init => wire \in [Nodes -> [Nodes -> Seq(Presence)]]
  BY <1>1 DEF Init
<1>3. Init => subscribed \in [Nodes -> BOOLEAN]
  BY Zenon DEF Init
<1>4. {} \in SUBSET Sessions
  OBVIOUS
<1>5. Init => /\ later \in [Nodes -> [Sessions -> SUBSET Sessions]]
              /\ stale \in [Nodes -> SUBSET Sessions]
              /\ toldOffline \in [Nodes -> SUBSET Sessions]
  BY <1>4 DEF Init
<1>6. Init => /\ session \in [Sessions -> Phases]
              /\ entry \in [Nodes -> [Sessions -> Entry \cup {None}]]
              /\ restarts \in 0 .. MaxRestarts
              /\ latest \in [Nodes -> [Names -> Sessions \cup {None}]]
  BY DEF Init, Phases
<1> QED BY <1>2, <1>3, <1>5, <1>6 DEF TypeOK

LEMMA StepType ==
  ASSUME TypeOK, [Next]_vars
  PROVE  TypeOK'
<1>1. ASSUME NEW s \in Sessions, Register(s)
      PROVE  TypeOK'
  <2>1. Home[s] \in Nodes /\ Name[s] \in Names
    OBVIOUS
  <2>2. wire' \in [Nodes -> [Nodes -> Seq(Presence)]]
    BY <1>1, <2>1, PublishType DEF Register, Statuses
  <2>3. session' \in [Sessions -> Phases]
    BY <1>1 DEF Register, Phases, TypeOK
  <2>4. latest' \in [Nodes -> [Names -> Sessions \cup {None}]]
    BY <1>1, <2>1 DEF Register, TypeOK
  <2> QED BY <1>1, <2>2, <2>3, <2>4 DEF Register, TypeOK
<1>2. ASSUME NEW s \in Sessions, FinishRegister(s)
      PROVE  TypeOK'
  <2>1. Home[s] \in Nodes
    OBVIOUS
  <2>2. /\ entry' \in [Nodes -> [Sessions -> Entry \cup {None}]]
        /\ later' \in [Nodes -> [Sessions -> SUBSET Sessions]]
    BY <1>2, <2>1, UpdatePresenceType DEF FinishRegister, Statuses
  <2> QED BY <1>2, <2>2 DEF FinishRegister, Phases, TypeOK
<1>3. ASSUME NEW s \in Sessions, Ping(s)
      PROVE  TypeOK'
  <2>1. Home[s] \in Nodes
    OBVIOUS
  <2>2. /\ entry' \in [Nodes -> [Sessions -> Entry \cup {None}]]
        /\ later' \in [Nodes -> [Sessions -> SUBSET Sessions]]
    BY <1>3, <2>1, UpdateHeartbeatType DEF Ping
  <2> QED BY <1>3, <2>2 DEF Ping, TypeOK
<1>4. ASSUME NEW s \in Sessions, Leave(s)
      PROVE  TypeOK'
  <2>1. Home[s] \in Nodes
    OBVIOUS
  <2>2. wire' \in [Nodes -> [Nodes -> Seq(Presence)]]
    <3>1. CASE Publish(Home[s], s, "Offline")
      BY <2>1, <3>1, PublishType DEF Statuses
    <3>2. CASE UNCHANGED wire
      BY <3>2 DEF TypeOK
    <3> QED BY <1>4, <3>1, <3>2 DEF Leave
  <2> QED BY <1>4, <2>2 DEF Leave, Phases, TypeOK
<1>5. ASSUME NEW s \in Sessions, FinishLeave(s)
      PROVE  TypeOK'
  <2>1. Home[s] \in Nodes
    OBVIOUS
  <2>2. /\ entry' \in [Nodes -> [Sessions -> Entry \cup {None}]]
        /\ later' \in [Nodes -> [Sessions -> SUBSET Sessions]]
    BY <1>5, <2>1, RemoveAgentType DEF FinishLeave
  <2> QED BY <1>5, <2>2 DEF FinishLeave, Phases, TypeOK
<1>6. ASSUME NEW s \in Sessions, Abandon(s)
      PROVE  TypeOK'
  BY <1>6 DEF Abandon, Phases, TypeOK
<1>7. ASSUME NEW n \in Nodes, Subscribe(n)
      PROVE  TypeOK'
  BY <1>7 DEF Subscribe, TypeOK
<1>8. ASSUME NEW h \in Nodes, NEW n \in Nodes, Receive(h, n)
      PROVE  TypeOK'
  <2> DEFINE p == Head(wire[h][n])
  <2>1. p.who \in Sessions /\ p.status \in Statuses /\ Tail(wire[h][n]) \in Seq(Presence)
    BY <1>8, HeadType DEF Receive
  <2>2. /\ entry' \in [Nodes -> [Sessions -> Entry \cup {None}]]
        /\ later' \in [Nodes -> [Sessions -> SUBSET Sessions]]
    BY <1>8, <2>1, UpdatePresenceType DEF Receive
  <2>3. wire' \in [Nodes -> [Nodes -> Seq(Presence)]]
    BY <1>8, <2>1 DEF Receive, TypeOK
  <2>4. toldOffline' \in [Nodes -> SUBSET Sessions]
    BY <1>8, <2>1 DEF Receive, TypeOK
  <2> QED BY <1>8, <2>2, <2>3, <2>4 DEF Receive, TypeOK
<1>9. ASSUME NEW h \in Nodes, NEW n \in Nodes, Lose(h, n)
      PROVE  TypeOK'
  <2>1. Tail(wire[h][n]) \in Seq(Presence)
    BY <1>9, HeadType DEF Lose
  <2> QED BY <1>9, <2>1 DEF Lose, TypeOK
<1>10. ASSUME NEW n \in Nodes, Scan(n)
       PROVE  TypeOK'
  BY <1>10 DEF Scan, TypeOK
<1>11. ASSUME NEW n \in Nodes, NEW s \in Sessions, Evict(n, s)
       PROVE  TypeOK'
  <2>1. /\ entry' \in [Nodes -> [Sessions -> Entry \cup {None}]]
        /\ later' \in [Nodes -> [Sessions -> SUBSET Sessions]]
    BY <1>11, RemoveAgentType DEF Evict
  <2> QED BY <1>11, <2>1 DEF Evict, TypeOK
<1>12. ASSUME NEW n \in Nodes, Restart(n)
       PROVE  TypeOK'
  <2>1. << >> \in Seq(Presence) /\ {} \in SUBSET Sessions
    OBVIOUS
  <2>2. wire' \in [Nodes -> [Nodes -> Seq(Presence)]]
    BY <1>12, <2>1 DEF Restart, TypeOK
  <2>3. /\ session' \in [Sessions -> Phases]
        /\ entry' \in [Nodes -> [Sessions -> Entry \cup {None}]]
        /\ restarts' \in 0 .. MaxRestarts
        /\ latest' \in [Nodes -> [Names -> Sessions \cup {None}]]
    BY <1>12 DEF Restart, Phases, TypeOK
  <2>4. subscribed' \in [Nodes -> BOOLEAN]
    BY <1>12 DEF Restart, TypeOK
  <2>5. /\ later' \in [Nodes -> [Sessions -> SUBSET Sessions]]
        /\ stale' \in [Nodes -> SUBSET Sessions]
        /\ toldOffline' \in [Nodes -> SUBSET Sessions]
    BY <1>12, <2>1 DEF Restart, TypeOK
  <2> QED BY <2>2, <2>3, <2>4, <2>5 DEF TypeOK
<1>13. ASSUME Tick
       PROVE  TypeOK'
  <2>1. ASSUME NEW n \in Nodes, NEW s \in Sessions
        PROVE  (IF Listed(n, s) /\ entry[n][s].age <= Timeout
                THEN [entry[n][s] EXCEPT !.age = @ + 1] ELSE entry[n][s]) \in Entry \cup {None}
    <3>1. CASE Listed(n, s) /\ entry[n][s].age <= Timeout
      <4>1. entry[n][s] \in Entry
        BY <3>1 DEF Listed, TypeOK
      <4>2. entry[n][s].age + 1 \in 0 .. Timeout + 1
        BY <3>1, <4>1 DEF Entry
      <4> QED BY <3>1, <4>1, <4>2 DEF Entry
    <3>2. CASE ~(Listed(n, s) /\ entry[n][s].age <= Timeout)
      BY <3>2 DEF TypeOK
    <3> QED BY <3>1, <3>2
  <2>2. entry' \in [Nodes -> [Sessions -> Entry \cup {None}]]
    BY <1>13, <2>1 DEF Tick
  <2> QED BY <1>13, <2>2 DEF Tick, TypeOK
<1>14. CASE UNCHANGED vars
  BY <1>14 DEF vars, TypeOK
<1> QED
  BY <1>1, <1>2, <1>3, <1>4, <1>5, <1>6, <1>7, <1>8, <1>9, <1>10, <1>11, <1>12, <1>13, <1>14
  DEF Next, SessionStep, NodeStep

\* Every variable of the registries keeps its type.
THEOREM RegistryTyping == Spec => []TypeOK
  BY InitType, StepType, PTL DEF Spec

-----------------------------------------------------------------------------
(* What a step can do to a session, an entry, a wire and a node's knowledge. *)

\* A session moves through its phases in one direction.
LEMMA SessionMoves ==
  ASSUME TypeOK, [Next]_vars, NEW s \in Sessions
  PROVE  /\ session'[s] = "new" => session[s] = "new"
         /\ session[s] \in Gone => session'[s] \in Gone
         /\ session'[s] = "registering" => session[s] = "registering" \/ Register(s)
         /\ session'[s] = "online" =>
              session[s] = "online" \/ (session[s] = "registering" /\ FinishRegister(s))
<1> DEFINE Moves == /\ session'[s] = "new" => session[s] = "new"
                    /\ session[s] \in Gone => session'[s] \in Gone
                    /\ session'[s] = "registering" => session[s] = "registering" \/ Register(s)
                    /\ session'[s] = "online" =>
                         session[s] = "online" \/ (session[s] = "registering" /\ FinishRegister(s))
<1>1. ASSUME NEW r \in Sessions, Register(r) \/ FinishRegister(r)
      PROVE  Moves
  <2>1. CASE Register(r)
    <3>1. session' = [session EXCEPT ![r] = "registering"] /\ session[r] = "new"
      BY <2>1 DEF Register
    <3> QED BY <2>1, <3>1 DEF TypeOK, Gone
  <2>2. CASE FinishRegister(r)
    <3>1. session' = [session EXCEPT ![r] = "online"] /\ session[r] = "registering"
      BY <2>2 DEF FinishRegister
    <3> QED BY <2>2, <3>1 DEF TypeOK, Gone
  <2> QED BY <1>1, <2>1, <2>2
<1>2. ASSUME NEW r \in Sessions, Leave(r) \/ FinishLeave(r) \/ Abandon(r)
      PROVE  Moves
  <2>1. /\ session[r] \in {"online", "leaving"}
        /\ \/ session' = [session EXCEPT ![r] = "leaving"]
           \/ session' = [session EXCEPT ![r] = "left"]
           \/ session' = [session EXCEPT ![r] = "lost"]
    BY <1>2 DEF Leave, FinishLeave, Abandon
  <2> QED BY <2>1 DEF TypeOK, Gone
<1>3. ASSUME NEW n \in Nodes, Restart(n)
      PROVE  Moves
  <2>1. session'[s] \in {session[s], "lost"} /\ (session[s] = "new" => session'[s] = "new")
    BY <1>3 DEF Restart
  <2> QED BY <2>1 DEF Gone
<1>4. CASE UNCHANGED session
  BY <1>4
<1>5. \/ \E r \in Sessions : Register(r) \/ FinishRegister(r)
      \/ \E r \in Sessions : Leave(r) \/ FinishLeave(r) \/ Abandon(r)
      \/ \E n \in Nodes : Restart(n)
      \/ UNCHANGED session
  BY DEF Next, SessionStep, NodeStep, vars, Ping, Subscribe, Receive, Lose, Scan, Evict, Tick
<1> QED BY <1>1, <1>2, <1>3, <1>4, <1>5

\* An entry is made by the handler of its session or by a presence, and goes with
\* the end of the session, an eviction or the daemon.
EntryStays(n, s)   == entry'[n][s] = entry[n][s]
EntryGoes(n, s)    == /\ entry'[n][s] = None
                      /\ s \in stale[n] \/ session[s] = "leaving" \/ Restart(n)
EntryMade(n, s)    == /\ n = Home[s] /\ FinishRegister(s)
                      /\ entry'[n][s] = [status |-> "Online", age |-> 0]
EntryHeard(n, s)   == \E h \in Nodes :
                        /\ Receive(h, n)
                        /\ Head(wire[h][n]).who = s
                        /\ entry'[n][s] = [status |-> Head(wire[h][n]).status, age |-> 0]
EntryAges(n, s)    == /\ Listed(n, s)
                      /\ \/ Ping(s) /\ entry'[n][s] = [entry[n][s] EXCEPT !.age = 0]
                         \/ Tick /\ entry'[n][s] = [entry[n][s] EXCEPT !.age = @ + 1]

LEMMA EntryStep ==
  ASSUME TypeOK, [Next]_vars, NEW n \in Nodes, NEW s \in Sessions
  PROVE  \/ EntryStays(n, s) \/ EntryGoes(n, s) \/ EntryMade(n, s)
         \/ EntryHeard(n, s) \/ EntryAges(n, s)
<1> DEFINE Steps == \/ EntryStays(n, s) \/ EntryGoes(n, s) \/ EntryMade(n, s)
                    \/ EntryHeard(n, s) \/ EntryAges(n, s)
<1>1. ASSUME NEW r \in Sessions, FinishRegister(r)
      PROVE  Steps
  <2>1. entry' = [entry EXCEPT ![Home[r]][r] = [status |-> "Online", age |-> 0]]
    BY <1>1 DEF FinishRegister, UpdatePresence
  <2>2. CASE n = Home[r] /\ s = r
    BY <1>1, <2>1, <2>2 DEF EntryMade, TypeOK
  <2>3. CASE ~(n = Home[r] /\ s = r)
    BY <2>1, <2>3 DEF EntryStays, TypeOK
  <2> QED BY <2>2, <2>3
<1>2. ASSUME NEW r \in Sessions, Ping(r)
      PROVE  Steps
  <2>1. CASE Listed(Home[r], r)
    <3>1. entry' = [entry EXCEPT ![Home[r]][r] = [entry[Home[r]][r] EXCEPT !.age = 0]]
      BY <1>2, <2>1 DEF Ping, UpdateHeartbeat, TypeOK
    <3>2. CASE n = Home[r] /\ s = r
      BY <1>2, <2>1, <3>1, <3>2 DEF EntryAges, TypeOK
    <3>3. CASE ~(n = Home[r] /\ s = r)
      BY <3>1, <3>3 DEF EntryStays, TypeOK
    <3> QED BY <3>2, <3>3
  <2>2. CASE ~Listed(Home[r], r)
    BY <1>2, <2>2 DEF Ping, UpdateHeartbeat, EntryStays
  <2> QED BY <2>1, <2>2
<1>3. ASSUME NEW m \in Nodes, NEW r \in Sessions, RemoveAgent(m, r),
             r \in stale[m] \/ session[r] = "leaving"
      PROVE  Steps
  <2>1. entry' = [entry EXCEPT ![m][r] = None]
    BY <1>3 DEF RemoveAgent
  <2>2. CASE n = m /\ s = r
    BY <1>3, <2>1, <2>2 DEF EntryGoes, TypeOK
  <2>3. CASE ~(n = m /\ s = r)
    BY <2>1, <2>3 DEF EntryStays, TypeOK
  <2> QED BY <2>2, <2>3
<1>4. ASSUME NEW h \in Nodes, NEW m \in Nodes, Receive(h, m)
      PROVE  Steps
  <2> DEFINE p == Head(wire[h][m])
  <2>1. entry' = [entry EXCEPT ![m][p.who] = [status |-> p.status, age |-> 0]]
    BY <1>4 DEF Receive, UpdatePresence
  <2>2. CASE n = m /\ s = p.who
    BY <1>4, <2>1, <2>2 DEF EntryHeard, TypeOK
  <2>3. CASE ~(n = m /\ s = p.who)
    BY <2>1, <2>3 DEF EntryStays, TypeOK
  <2> QED BY <2>2, <2>3
<1>5. ASSUME NEW m \in Nodes, Restart(m)
      PROVE  Steps
  <2>1. entry' = [entry EXCEPT ![m] = [r \in Sessions |-> None]]
    BY <1>5 DEF Restart
  <2>2. CASE n = m
    BY <1>5, <2>1, <2>2 DEF EntryGoes, TypeOK
  <2>3. CASE n # m
    BY <2>1, <2>3 DEF EntryStays, TypeOK
  <2> QED BY <2>2, <2>3
<1>6. CASE Tick
  <2>1. entry'[n][s] = IF Listed(n, s) /\ entry[n][s].age <= Timeout
                       THEN [entry[n][s] EXCEPT !.age = @ + 1] ELSE entry[n][s]
    BY <1>6 DEF Tick
  <2> QED BY <1>6, <2>1 DEF EntryAges, EntryStays
<1>7. CASE UNCHANGED entry
  BY <1>7 DEF EntryStays
<1>8. \/ \E r \in Sessions : FinishRegister(r) \/ Ping(r)
      \/ \E r \in Sessions : RemoveAgent(Home[r], r) /\ session[r] = "leaving"
      \/ \E m \in Nodes, r \in Sessions : RemoveAgent(m, r) /\ r \in stale[m]
      \/ \E h, m \in Nodes : Receive(h, m)
      \/ \E m \in Nodes : Restart(m)
      \/ Tick
      \/ UNCHANGED entry
  BY DEF Next, SessionStep, NodeStep, vars, Register, Leave, FinishLeave, Abandon, Subscribe,
         Lose, Scan, Evict
<1>9. \A r \in Sessions : Home[r] \in Nodes
  OBVIOUS
<1> QED BY <1>1, <1>2, <1>3, <1>4, <1>5, <1>6, <1>7, <1>8, <1>9

\* What a wire can do in a step.
Published(h, n, s, st) == wire'[h][n] = Append(wire[h][n], [who |-> s, status |-> st])

LEMMA PublishStep ==
  ASSUME TypeOK, NEW g \in Nodes, NEW s \in Sessions, NEW st, Publish(g, s, st),
         NEW h \in Nodes, NEW n \in Nodes
  PROVE  wire'[h][n] = wire[h][n] \/ (h = g /\ Published(h, n, s, st))
<1>1. CASE h = g
  <2>1. wire'[h] = [m \in Nodes |-> IF subscribed[m] THEN
                      Append(wire[h][m], [who |-> s, status |-> st]) ELSE wire[h][m]]
    BY <1>1 DEF Publish, TypeOK
  <2> QED BY <1>1, <2>1 DEF Published
<1>2. CASE h # g
  BY <1>2 DEF Publish, TypeOK
<1> QED BY <1>1, <1>2

LEMMA WireStep ==
  ASSUME TypeOK, [Next]_vars, NEW h \in Nodes, NEW n \in Nodes
  PROVE  \/ wire'[h][n] = wire[h][n]
         \/ \E s \in Sessions : Register(s) /\ h = Home[s] /\ Published(h, n, s, "Online")
         \/ \E s \in Sessions : Leave(s) /\ h = Home[s] /\ Published(h, n, s, "Offline")
         \/ wire[h][n] # << >> /\ wire'[h][n] = Tail(wire[h][n])
         \/ wire'[h][n] = << >>
<1>1. ASSUME NEW s \in Sessions, Register(s)
      PROVE  wire'[h][n] = wire[h][n] \/ (h = Home[s] /\ Published(h, n, s, "Online"))
  BY <1>1, PublishStep DEF Register
<1>2. ASSUME NEW s \in Sessions, Leave(s)
      PROVE  wire'[h][n] = wire[h][n] \/ (h = Home[s] /\ Published(h, n, s, "Offline"))
  <2>1. Publish(Home[s], s, "Offline") \/ UNCHANGED wire
    BY <1>2 DEF Leave
  <2> QED BY <2>1, PublishStep
<1>3. ASSUME NEW g \in Nodes, NEW m \in Nodes, Receive(g, m) \/ Lose(g, m)
      PROVE  \/ wire'[h][n] = wire[h][n]
             \/ wire[h][n] # << >> /\ wire'[h][n] = Tail(wire[h][n])
  <2>1. wire[g][m] # << >> /\ wire' = [wire EXCEPT ![g][m] = Tail(@)]
    BY <1>3 DEF Receive, Lose
  <2> QED BY <2>1 DEF TypeOK
<1>4. ASSUME NEW m \in Nodes, Restart(m)
      PROVE  wire'[h][n] \in {wire[h][n], << >>}
  <2>1. wire'[h] = [wire[h] EXCEPT ![m] = << >>]
    BY <1>4 DEF Restart
  <2> QED BY <2>1 DEF TypeOK
<1>5. \/ \E s \in Sessions : Register(s) \/ Leave(s)
      \/ \E g, m \in Nodes : Receive(g, m) \/ Lose(g, m)
      \/ \E m \in Nodes : Restart(m)
      \/ UNCHANGED wire
  BY DEF Next, SessionStep, NodeStep, vars, FinishRegister, Ping, FinishLeave, Abandon,
         Subscribe, Scan, Evict, Tick
<1> QED BY <1>1, <1>2, <1>3, <1>4, <1>5

\* A node learns of an Offline by reading it.
LEMMA ToldStep ==
  ASSUME TypeOK, [Next]_vars, NEW n \in Nodes, NEW s \in Sessions, s \in toldOffline'[n]
  PROVE  \/ s \in toldOffline[n] /\ toldOffline[n] \subseteq toldOffline'[n]
         \/ \E h \in Nodes : /\ Receive(h, n)
                             /\ Head(wire[h][n]) = [who |-> s, status |-> "Offline"]
<1>1. ASSUME NEW h \in Nodes, NEW m \in Nodes, Receive(h, m), s \notin toldOffline[n]
      PROVE  m = n /\ Head(wire[h][m]) = [who |-> s, status |-> "Offline"]
  <2>1. Head(wire[h][m]) \in Presence
    <3>1. wire[h][m] \in Seq(Presence) /\ wire[h][m] # << >>
      BY <1>1 DEF Receive, TypeOK
    <3> QED BY <3>1, HeadTailProperties
  <2>2. /\ Head(wire[h][m]).status = "Offline"
        /\ toldOffline' = [toldOffline EXCEPT ![m] = @ \cup {Head(wire[h][m]).who}]
    BY <1>1 DEF Receive
  <2>3. m = n /\ Head(wire[h][m]).who = s
    BY <1>1, <2>2 DEF TypeOK
  <2> QED BY <2>1, <2>2, <2>3 DEF Presence
<1>2. ASSUME NEW h \in Nodes, NEW m \in Nodes, Receive(h, m)
      PROVE  toldOffline[n] \subseteq toldOffline'[n]
  BY <1>2 DEF Receive, TypeOK
<1>3. ASSUME NEW m \in Nodes, Restart(m)
      PROVE  s \in toldOffline[n] /\ toldOffline[n] \subseteq toldOffline'[n]
  BY <1>3 DEF Restart, TypeOK
<1>4. \/ \E h, m \in Nodes : Receive(h, m)
      \/ \E m \in Nodes : Restart(m)
      \/ UNCHANGED toldOffline
  BY DEF Next, SessionStep, NodeStep, vars, Register, FinishRegister, Ping, Leave, FinishLeave,
         Abandon, Subscribe, Lose, Scan, Evict, Tick
<1> QED BY <1>1, <1>2, <1>3, <1>4

-----------------------------------------------------------------------------
(* The inductive invariant. *)

\* Only what has been registered is published, from its own node, and Offline
\* only at the end of its session.
Proper(p, h, phase) ==
  /\ Home[p.who] = h
  /\ phase[p.who] # "new"
  /\ p.status = "Offline" => phase[p.who] \in Gone

WireKnown ==
  \A h, n \in Nodes : \A i \in 1 .. Len(wire[h][n]) : Proper(wire[h][n][i], h, session)

\* After the Offline of a session comes no Online of it: on the wire...
OfflineLast ==
  \A h, n \in Nodes : \A i, j \in 1 .. Len(wire[h][n]) :
    (i < j /\ wire[h][n][i].who = wire[h][n][j].who /\ wire[h][n][i].status = "Offline")
      => wire[h][n][j].status = "Offline"

\* ...and once the node has read it.
ToldLast ==
  \A h, n \in Nodes : \A i \in 1 .. Len(wire[h][n]) :
    wire[h][n][i].who \in toldOffline[n] => wire[h][n][i].status = "Offline"

ToldGone == \A n \in Nodes : \A s \in toldOffline[n] : session[s] \in Gone

ListedKnown == \A n \in Nodes, s \in Sessions : Listed(n, s) => session[s] # "new"

\* The entry of an agent that pings is not stale, and was not when the cleanup
\* loop collected its list.
PingingFresh ==
  \A s \in Pinging :
    (session[s] \in {"registering", "online"} /\ Listed(Home[s], s))
      => entry[Home[s]][s].age <= Timeout

PingingSpared == \A s \in Pinging : s \in stale[Home[s]] => session[s] \in Gone

Inv ==
  /\ TypeOK
  /\ WireKnown /\ OfflineLast /\ ToldLast /\ ToldGone
  /\ ListedKnown /\ PingingFresh /\ PingingSpared
  /\ PingingStaysListed /\ OfflineIsFinal

LEMMA InitInv == Init => Inv
<1> SUFFICES ASSUME Init
             PROVE  Inv
  OBVIOUS
<1>1. \A h, n \in Nodes : wire[h][n] = << >>
  BY DEF Init
<1>2. WireKnown /\ OfflineLast /\ ToldLast
  BY <1>1 DEF WireKnown, OfflineLast, ToldLast
<1>3. ToldGone /\ OfflineIsFinal
  BY DEF Init, ToldGone, OfflineIsFinal
<1>4. ListedKnown
  BY DEF Init, ListedKnown, Listed
<1>5. PingingFresh /\ PingingSpared /\ PingingStaysListed
  BY DEF Init, PingingFresh, PingingSpared, PingingStaysListed
<1> QED BY <1>2, <1>3, <1>4, <1>5, InitType DEF Inv

\* The messages on a wire after a step: those that were there, in their order,
\* and the one just published, at the end.
WireKept(h, n, k) ==
  \A i \in 1 .. Len(wire'[h][n]) :
    i + k \in 1 .. Len(wire[h][n]) /\ wire'[h][n][i] = wire[h][n][i + k]

WireGrown(h, n, s, st) ==
  /\ (st = "Online" /\ Register(s)) \/ (st = "Offline" /\ Leave(s))
  /\ h = Home[s]
  /\ Len(wire'[h][n]) = Len(wire[h][n]) + 1
  /\ \A i \in 1 .. Len(wire[h][n]) : wire'[h][n][i] = wire[h][n][i]
  /\ wire'[h][n][Len(wire[h][n]) + 1] = [who |-> s, status |-> st]

LEMMA WireShift ==
  ASSUME TypeOK, [Next]_vars, NEW h \in Nodes, NEW n \in Nodes
  PROVE  \/ WireKept(h, n, 0) \/ WireKept(h, n, 1)
         \/ \E s \in Sessions, st \in Statuses : WireGrown(h, n, s, st)
<1> DEFINE q == wire[h][n]
           r == wire'[h][n]
<1>1. q \in Seq(Presence)
  BY DEF TypeOK
<1>2. CASE r = q
  BY <1>1, <1>2 DEF WireKept
<1>3. CASE q # << >> /\ r = Tail(q)
  <2>1. \A i \in 1 .. Len(r) : i + 1 \in 1 .. Len(q) /\ r[i] = q[i + 1]
    BY <1>1, <1>3, HeadTailProperties
  <2> QED BY <2>1 DEF WireKept
<1>4. CASE r = << >>
  BY <1>4 DEF WireKept
<1>5. ASSUME NEW s \in Sessions, NEW st \in Statuses, Published(h, n, s, st)
      PROVE  /\ Len(r) = Len(q) + 1
             /\ \A i \in 1 .. Len(q) : r[i] = q[i]
             /\ r[Len(q) + 1] = [who |-> s, status |-> st]
  <2>1. [who |-> s, status |-> st] \in Presence /\ r = Append(q, [who |-> s, status |-> st])
    BY <1>5 DEF Presence, Published
  <2> QED BY <1>1, <2>1, AppendProperties
<1>6. "Online" \in Statuses /\ "Offline" \in Statuses
  BY DEF Statuses
<1> HIDE DEF q, r
<1>7. \/ r = q \/ (q # << >> /\ r = Tail(q)) \/ r = << >>
      \/ \E s \in Sessions : Register(s) /\ h = Home[s] /\ Published(h, n, s, "Online")
      \/ \E s \in Sessions : Leave(s) /\ h = Home[s] /\ Published(h, n, s, "Offline")
  BY WireStep DEF q, r
<1>8. ASSUME NEW s \in Sessions, Register(s), h = Home[s], Published(h, n, s, "Online")
      PROVE  WireGrown(h, n, s, "Online")
  BY <1>5, <1>6, <1>8 DEF WireGrown, q, r
<1>9. ASSUME NEW s \in Sessions, Leave(s), h = Home[s], Published(h, n, s, "Offline")
      PROVE  WireGrown(h, n, s, "Offline")
  BY <1>5, <1>6, <1>9 DEF WireGrown, q, r
<1> QED BY <1>2, <1>3, <1>4, <1>6, <1>7, <1>8, <1>9

\* A message on a wire was there, or is just published.
MessageStep(h, n, m) ==
  \/ \E j \in 1 .. Len(wire[h][n]) : m = wire[h][n][j]
  \/ \E s \in Sessions :
       /\ h = Home[s]
       /\ \/ Register(s) /\ m = [who |-> s, status |-> "Online"]
          \/ Leave(s) /\ m = [who |-> s, status |-> "Offline"]

LEMMA WireMessage ==
  ASSUME TypeOK, [Next]_vars, NEW h \in Nodes, NEW n \in Nodes, NEW i \in 1 .. Len(wire'[h][n])
  PROVE  MessageStep(h, n, wire'[h][n][i])
<1>1. wire[h][n] \in Seq(Presence)
  BY DEF TypeOK
<1>2. ASSUME NEW k \in {0, 1}, WireKept(h, n, k)
      PROVE  \E j \in 1 .. Len(wire[h][n]) : wire'[h][n][i] = wire[h][n][j]
  BY <1>2 DEF WireKept
<1>3. ASSUME NEW s \in Sessions, NEW st \in Statuses, WireGrown(h, n, s, st)
      PROVE  MessageStep(h, n, wire'[h][n][i])
  <2>1. i \in 1 .. Len(wire[h][n]) \/ i = Len(wire[h][n]) + 1
    BY <1>1, <1>3 DEF WireGrown
  <2> QED BY <1>3, <2>1 DEF WireGrown, MessageStep
<1> QED BY <1>2, <1>3, WireShift DEF MessageStep

LEMMA MessageType ==
  ASSUME TypeOK, NEW h \in Nodes, NEW n \in Nodes, NEW i \in 1 .. Len(wire[h][n])
  PROVE  wire[h][n][i].who \in Sessions /\ wire[h][n][i].status \in Statuses
<1>1. wire[h][n][i] \in Presence
  BY DEF TypeOK
<1> QED BY <1>1 DEF Presence

LEMMA StepWireKnown ==
  ASSUME Inv, [Next]_vars
  PROVE  WireKnown'
<1> SUFFICES ASSUME NEW h \in Nodes, NEW n \in Nodes, NEW i \in 1 .. Len(wire'[h][n])
             PROVE  Proper(wire'[h][n][i], h, session')
  BY DEF WireKnown
<1>1. ASSUME NEW j \in 1 .. Len(wire[h][n]), wire'[h][n][i] = wire[h][n][j]
      PROVE  Proper(wire'[h][n][i], h, session')
  <2>1. wire[h][n][j].who \in Sessions
    BY MessageType DEF Inv
  <2>2. Proper(wire[h][n][j], h, session)
    BY DEF Inv, WireKnown
  <2> QED BY <1>1, <2>1, <2>2, SessionMoves DEF Proper, Inv
<1>2. ASSUME NEW s \in Sessions, Register(s), h = Home[s],
             wire'[h][n][i] = [who |-> s, status |-> "Online"]
      PROVE  Proper(wire'[h][n][i], h, session')
  <2>1. session'[s] = "registering"
    BY <1>2 DEF Register, Inv, TypeOK
  <2> QED BY <1>2, <2>1 DEF Proper
<1>3. ASSUME NEW s \in Sessions, Leave(s), h = Home[s],
             wire'[h][n][i] = [who |-> s, status |-> "Offline"]
      PROVE  Proper(wire'[h][n][i], h, session')
  <2>1. session'[s] = "leaving"
    BY <1>3 DEF Leave, Inv, TypeOK
  <2> QED BY <1>3, <2>1 DEF Proper, Gone
<1>4. TypeOK /\ wire[h][n] \in Seq(Presence)
  BY DEF Inv, TypeOK
<1>5. MessageStep(h, n, wire'[h][n][i])
  BY <1>4, WireMessage
<1> QED BY <1>1, <1>2, <1>3, <1>5 DEF MessageStep

LEMMA StepOfflineLast ==
  ASSUME Inv, [Next]_vars
  PROVE  OfflineLast'
<1> SUFFICES ASSUME NEW h \in Nodes, NEW n \in Nodes,
                    NEW i \in 1 .. Len(wire'[h][n]), NEW j \in 1 .. Len(wire'[h][n]), i < j,
                    wire'[h][n][i].who = wire'[h][n][j].who,
                    wire'[h][n][i].status = "Offline"
             PROVE  wire'[h][n][j].status = "Offline"
  BY DEF OfflineLast
<1>1. TypeOK /\ wire[h][n] \in Seq(Presence)
  BY DEF Inv, TypeOK
<1>2. ASSUME NEW a \in 1 .. Len(wire[h][n]), NEW b \in 1 .. Len(wire[h][n]), a < b,
             wire'[h][n][i] = wire[h][n][a], wire'[h][n][j] = wire[h][n][b]
      PROVE  wire'[h][n][j].status = "Offline"
  BY <1>2 DEF Inv, OfflineLast
<1>3. ASSUME NEW s \in Sessions, Register(s), i \in 1 .. Len(wire[h][n]),
             wire'[h][n][i] = wire[h][n][i],
             wire'[h][n][j] = [who |-> s, status |-> "Online"]
      PROVE  FALSE
  <2>1. session[s] = "new" /\ wire[h][n][i].who = s
    BY <1>3 DEF Register
  <2> QED BY <1>3, <2>1 DEF Inv, WireKnown, Proper
<1>4. ASSUME wire'[h][n][j] = [who |-> wire'[h][n][j].who, status |-> "Offline"]
      PROVE  wire'[h][n][j].status = "Offline"
  BY <1>4
<1>5. ASSUME NEW k \in {0, 1}, WireKept(h, n, k)
      PROVE  wire'[h][n][j].status = "Offline"
  <2>1. /\ i + k \in 1 .. Len(wire[h][n]) /\ wire'[h][n][i] = wire[h][n][i + k]
        /\ j + k \in 1 .. Len(wire[h][n]) /\ wire'[h][n][j] = wire[h][n][j + k]
    BY <1>5 DEF WireKept
  <2>2. i + k < j + k
    OBVIOUS
  <2> QED BY <1>2, <2>1, <2>2
<1>6. ASSUME NEW s \in Sessions, NEW st \in Statuses, WireGrown(h, n, s, st)
      PROVE  wire'[h][n][j].status = "Offline"
  <2>1. Len(wire[h][n]) \in Nat
    BY <1>1
  <2>2. i \in 1 .. Len(wire[h][n])
    BY <1>6, <2>1 DEF WireGrown
  <2>3. CASE j \in 1 .. Len(wire[h][n])
    BY <1>2, <1>6, <2>2, <2>3 DEF WireGrown
  <2>4. CASE j = Len(wire[h][n]) + 1
    BY <1>3, <1>6, <2>2, <2>4 DEF WireGrown
  <2> QED BY <1>6, <2>1, <2>3, <2>4 DEF WireGrown
<1> QED BY <1>1, <1>5, <1>6, WireShift

\* What a node reads when it learns that a session has ended.
LEMMA HeadIsFirst ==
  ASSUME TypeOK, NEW h \in Nodes, NEW n \in Nodes, wire[h][n] # << >>
  PROVE  1 \in 1 .. Len(wire[h][n]) /\ wire[h][n][1] = Head(wire[h][n])
<1>1. wire[h][n] \in Seq(Presence)
  BY DEF TypeOK
<1> QED BY <1>1, HeadTailProperties

LEMMA StepToldGone ==
  ASSUME Inv, [Next]_vars
  PROVE  ToldGone'
<1> SUFFICES ASSUME NEW n \in Nodes, NEW s \in toldOffline'[n]
             PROVE  session'[s] \in Gone
  BY DEF ToldGone
<1>1. s \in Sessions /\ TypeOK
  BY StepType DEF Inv, TypeOK
<1>2. session[s] \in Gone
  <2>1. ASSUME NEW h \in Nodes, Receive(h, n),
               Head(wire[h][n]) = [who |-> s, status |-> "Offline"]
        PROVE  session[s] \in Gone
    <3>1. 1 \in 1 .. Len(wire[h][n]) /\ wire[h][n][1] = Head(wire[h][n])
      BY <1>1, <2>1, HeadIsFirst DEF Receive
    <3>2. Proper(Head(wire[h][n]), h, session)
      BY <3>1 DEF Inv, WireKnown
    <3> QED BY <2>1, <3>2 DEF Proper
  <2> QED BY <1>1, <2>1, ToldStep DEF Inv, ToldGone
<1> QED BY <1>1, <1>2, SessionMoves

LEMMA StepToldLast ==
  ASSUME Inv, [Next]_vars
  PROVE  ToldLast'
<1> SUFFICES ASSUME NEW h \in Nodes, NEW n \in Nodes, NEW i \in 1 .. Len(wire'[h][n]),
                    wire'[h][n][i].who \in toldOffline'[n]
             PROVE  wire'[h][n][i].status = "Offline"
  BY DEF ToldLast
<1> DEFINE s == wire'[h][n][i].who
<1>1. TypeOK /\ s \in Sessions /\ wire[h][n] \in Seq(Presence)
  <2>1. TypeOK /\ TypeOK'
    BY StepType DEF Inv
  <2>2. toldOffline'[n] \subseteq Sessions /\ wire[h][n] \in Seq(Presence)
    BY <2>1 DEF TypeOK
  <2> QED BY <2>1, <2>2
<1>2. CASE s \in toldOffline[n]
  <2>1. ASSUME NEW j \in 1 .. Len(wire[h][n]), wire'[h][n][i] = wire[h][n][j]
        PROVE  wire'[h][n][i].status = "Offline"
    BY <1>2, <2>1 DEF Inv, ToldLast
  <2>2. ASSUME NEW r \in Sessions, Register(r), wire'[h][n][i] = [who |-> r, status |-> "Online"]
        PROVE  FALSE
    BY <1>2, <2>2 DEF Register, Inv, ToldGone, Gone
  <2>3. \/ \E j \in 1 .. Len(wire[h][n]) : wire'[h][n][i] = wire[h][n][j]
        \/ \E r \in Sessions : Register(r) /\ wire'[h][n][i] = [who |-> r, status |-> "Online"]
        \/ wire'[h][n][i].status = "Offline"
    <3>1. ASSUME NEW r \in Sessions, wire'[h][n][i] = [who |-> r, status |-> "Offline"]
          PROVE  wire'[h][n][i].status = "Offline"
      BY <3>1
    <3>2. MessageStep(h, n, wire'[h][n][i])
      BY <1>1, WireMessage
    <3> QED BY <3>1, <3>2 DEF MessageStep
  <2> QED BY <2>1, <2>2, <2>3
<1>3. ASSUME NEW g \in Nodes, Receive(g, n), Head(wire[g][n]) = [who |-> s, status |-> "Offline"]
      PROVE  wire'[h][n][i].status = "Offline"
  <2>1. wire[g][n] # << >> /\ wire' = [wire EXCEPT ![g][n] = Tail(@)]
    BY <1>3 DEF Receive
  <2>2. 1 \in 1 .. Len(wire[g][n]) /\ wire[g][n][1] = [who |-> s, status |-> "Offline"]
    BY <1>1, <1>3, <2>1, HeadIsFirst
  <2>3. Home[s] = g
    <3>1. Proper(wire[g][n][1], g, session)
      BY <1>3, <2>2 DEF Inv, WireKnown
    <3> QED BY <2>2, <3>1 DEF Proper
  <2>4. CASE h = g
    <3>1. wire'[h][n] = Tail(wire[h][n])
      BY <1>1, <2>1, <2>4 DEF TypeOK
    <3>2. i + 1 \in 1 .. Len(wire[h][n]) /\ wire'[h][n][i] = wire[h][n][i + 1]
      <4>1. wire[h][n] # << >>
        BY <2>1, <2>4
      <4>2. \A k \in 1 .. Len(Tail(wire[h][n])) :
              k + 1 \in 1 .. Len(wire[h][n]) /\ Tail(wire[h][n])[k] = wire[h][n][k + 1]
        BY <1>1, <4>1, HeadTailProperties
      <4> QED BY <3>1, <4>2
    <3>3. wire[h][n][1].who = s /\ wire[h][n][1].status = "Offline" /\ 1 < i + 1
      BY <1>1, <2>2, <2>4
    <3>4. 1 \in 1 .. Len(wire[h][n]) /\ wire[h][n][i + 1].who = s
      BY <2>2, <2>4, <3>2
    <3>5. wire[h][n][i + 1].status = "Offline"
      BY <3>2, <3>3, <3>4 DEF Inv, OfflineLast
    <3> QED BY <3>2, <3>5
  <2>5. CASE h # g
    <3>1. wire'[h][n] = wire[h][n]
      BY <1>1, <2>1, <2>5 DEF TypeOK
    <3>2. Home[s] = h
      BY <3>1 DEF Inv, WireKnown, Proper
    <3> QED BY <2>3, <2>5, <3>2
  <2> QED BY <2>4, <2>5
<1> QED BY <1>1, <1>2, <1>3, ToldStep

LEMMA HeardKnown ==
  ASSUME Inv, NEW n \in Nodes, NEW s \in Sessions, EntryHeard(n, s)
  PROVE  /\ session[s] # "new"
         /\ s \in toldOffline[n] => entry'[n][s].status = "Offline"
<1>1. PICK h \in Nodes : /\ Receive(h, n)
                         /\ Head(wire[h][n]).who = s
                         /\ entry'[n][s] = [status |-> Head(wire[h][n]).status, age |-> 0]
  BY DEF EntryHeard
<1>2. 1 \in 1 .. Len(wire[h][n]) /\ wire[h][n][1] = Head(wire[h][n])
  BY <1>1, HeadIsFirst DEF Receive, Inv
<1>3. session[s] # "new"
  BY <1>1, <1>2 DEF Inv, WireKnown, Proper
<1>4. s \in toldOffline[n] => entry'[n][s].status = "Offline"
  BY <1>1, <1>2 DEF Inv, ToldLast
<1> QED BY <1>3, <1>4

LEMMA StepListedKnown ==
  ASSUME Inv, [Next]_vars
  PROVE  ListedKnown'
<1> SUFFICES ASSUME NEW n \in Nodes, NEW s \in Sessions, entry'[n][s] # None
             PROVE  session'[s] # "new"
  BY DEF ListedKnown, Listed
<1>1. TypeOK
  BY DEF Inv
<1>2. ASSUME session[s] # "new"
      PROVE  session'[s] # "new"
  BY <1>1, <1>2, SessionMoves
<1>3. CASE EntryStays(n, s) \/ EntryAges(n, s)
  <2>1. Listed(n, s)
    BY <1>3 DEF EntryStays, EntryAges, Listed
  <2> QED BY <1>2, <2>1 DEF Inv, ListedKnown
<1>4. CASE EntryGoes(n, s)
  BY <1>4 DEF EntryGoes
<1>5. CASE EntryMade(n, s)
  BY <1>2, <1>5 DEF EntryMade, FinishRegister
<1>6. CASE EntryHeard(n, s)
  BY <1>2, <1>6, HeardKnown
<1> QED BY <1>1, <1>3, <1>4, <1>5, <1>6, EntryStep

LEMMA StepOfflineIsFinal ==
  ASSUME Inv, [Next]_vars
  PROVE  OfflineIsFinal'
<1> SUFFICES ASSUME NEW n \in Nodes, NEW s \in toldOffline'[n], entry'[n][s] # None
             PROVE  entry'[n][s].status = "Offline"
  BY DEF OfflineIsFinal, Listed
<1>1. TypeOK /\ s \in Sessions
  <2>1. TypeOK /\ TypeOK'
    BY StepType DEF Inv
  <2> QED BY <2>1 DEF TypeOK
<1>2. CASE s \in toldOffline[n]
  <2>1. Listed(n, s) => entry[n][s].status = "Offline"
    BY <1>2 DEF Inv, OfflineIsFinal
  <2>2. CASE EntryStays(n, s)
    BY <2>1, <2>2 DEF EntryStays, Listed
  <2>3. CASE EntryGoes(n, s)
    BY <2>3 DEF EntryGoes
  <2>4. CASE EntryMade(n, s)
    BY <1>2, <2>4 DEF EntryMade, FinishRegister, Inv, ToldGone, Gone
  <2>5. CASE EntryHeard(n, s)
    BY <1>1, <1>2, <2>5, HeardKnown
  <2>6. CASE EntryAges(n, s)
    <3>1. entry[n][s] \in Entry
      BY <1>1, <2>6 DEF EntryAges, Listed, TypeOK
    <3>2. entry'[n][s].status = entry[n][s].status
      BY <2>6, <3>1 DEF EntryAges, Entry
    <3> QED BY <2>1, <2>6, <3>2 DEF EntryAges
  <2> QED BY <1>1, <2>2, <2>3, <2>4, <2>5, <2>6, EntryStep
<1>3. ASSUME NEW h \in Nodes, Receive(h, n), Head(wire[h][n]) = [who |-> s, status |-> "Offline"]
      PROVE  entry'[n][s].status = "Offline"
  <2>1. Head(wire[h][n]).who = s /\ Head(wire[h][n]).status = "Offline"
    BY <1>3
  <2>2. UpdatePresence(n, Head(wire[h][n]).who, Head(wire[h][n]).status)
    BY <1>3 DEF Receive
  <2>3. UpdatePresence(n, s, "Offline")
    BY <2>1, <2>2
  <2>4. entry' = [entry EXCEPT ![n][s] = [status |-> "Offline", age |-> 0]]
    BY <2>3 DEF UpdatePresence
  <2> QED BY <1>1, <2>4 DEF TypeOK
<1> QED BY <1>1, <1>2, <1>3, ToldStep

LEMMA StepPingingFresh ==
  ASSUME Inv, [Next]_vars
  PROVE  PingingFresh'
<1> SUFFICES ASSUME NEW s \in Pinging, session'[s] \in {"registering", "online"},
                    entry'[Home[s]][s] # None
             PROVE  entry'[Home[s]][s].age <= Timeout
  BY DEF PingingFresh, Listed
<1> DEFINE h == Home[s]
<1>1. TypeOK /\ s \in Sessions /\ h \in Nodes /\ Timeout \in Nat
  BY DEF Inv
<1>2. CASE EntryStays(h, s)
  <2>1. Listed(h, s)
    BY <1>2 DEF EntryStays, Listed
  <2>2. session[s] # "new"
    BY <1>1, <2>1 DEF Inv, ListedKnown
  <2>3. session[s] \in {"registering", "online"}
    BY <1>1, <2>2, SessionMoves DEF Register
  <2> QED BY <1>2, <2>1, <2>3 DEF EntryStays, Inv, PingingFresh
<1>3. CASE EntryGoes(h, s)
  BY <1>3 DEF EntryGoes
<1>4. CASE EntryMade(h, s)
  BY <1>1, <1>4 DEF EntryMade
<1>5. CASE EntryHeard(h, s)
  BY <1>1, <1>5 DEF EntryHeard
<1>6. CASE EntryAges(h, s)
  <2>1. entry[h][s] \in Entry /\ Listed(h, s)
    BY <1>1, <1>6 DEF EntryAges, Listed, TypeOK
  <2>2. ASSUME entry'[h][s] = [entry[h][s] EXCEPT !.age = 0]
        PROVE  entry'[h][s].age <= Timeout
    BY <1>1, <2>1, <2>2 DEF Entry
  <2>3. ASSUME Tick, entry'[h][s] = [entry[h][s] EXCEPT !.age = @ + 1]
        PROVE  entry'[h][s].age <= Timeout
    <3>1. session[s] \in {"registering", "online"} /\ Prompt(s)
      BY <1>1, <2>3 DEF Tick
    <3>2. entry[h][s].age < Timeout
      BY <2>1, <3>1 DEF Prompt
    <3>3. entry'[h][s].age = entry[h][s].age + 1 /\ entry[h][s].age \in Nat
      BY <1>1, <2>1, <2>3 DEF Entry
    <3> QED BY <1>1, <3>2, <3>3
  <2> QED BY <1>6, <2>2, <2>3 DEF EntryAges
<1> QED BY <1>1, <1>2, <1>3, <1>4, <1>5, <1>6, EntryStep

LEMMA StepPingingSpared ==
  ASSUME Inv, [Next]_vars
  PROVE  PingingSpared'
<1> SUFFICES ASSUME NEW s \in Pinging, s \in stale'[Home[s]]
             PROVE  session'[s] \in Gone
  BY DEF PingingSpared
<1> DEFINE h == Home[s]
<1>1. TypeOK /\ s \in Sessions /\ h \in Nodes /\ Timeout \in Nat
  BY DEF Inv
<1>2. session[s] \in Gone
  <2>1. CASE s \in stale[h]
    BY <2>1 DEF Inv, PingingSpared
  <2>2. CASE s \notin stale[h]
    <3>1. ASSUME NEW m \in Nodes, Scan(m)
          PROVE  IsStale(h, s)
      BY <1>1, <2>2, <3>1 DEF Scan, TypeOK
    <3>2. ASSUME NEW m \in Nodes, NEW r \in Sessions, Evict(m, r)
          PROVE  FALSE
      BY <1>1, <2>2, <3>2 DEF Evict, TypeOK
    <3>3. ASSUME NEW m \in Nodes, Restart(m)
          PROVE  FALSE
      BY <1>1, <2>2, <3>3 DEF Restart, TypeOK
    <3>4. \/ \E m \in Nodes : Scan(m)
          \/ \E m \in Nodes, r \in Sessions : Evict(m, r)
          \/ \E m \in Nodes : Restart(m)
          \/ UNCHANGED stale
      BY DEF Next, SessionStep, NodeStep, vars, Register, FinishRegister, Ping, Leave,
             FinishLeave, Abandon, Subscribe, Receive, Lose, Tick
    <3>5. IsStale(h, s)
      BY <2>2, <3>1, <3>2, <3>3, <3>4
    <3>6. Listed(h, s) /\ entry[h][s] \in Entry /\ entry[h][s].age > Timeout
      BY <1>1, <3>5 DEF IsStale, Listed, TypeOK
    <3>7. entry[h][s].age \in Nat
      BY <1>1, <3>6 DEF Entry
    <3>8. session[s] # "new"
      BY <1>1, <3>6 DEF Inv, ListedKnown
    <3>9. session[s] \notin {"registering", "online"}
      BY <1>1, <3>6, <3>7 DEF Inv, PingingFresh
    <3>10. session[s] \in Phases
      BY <1>1 DEF TypeOK
    <3> QED BY <3>8, <3>9, <3>10 DEF Phases, Gone
  <2> QED BY <2>1, <2>2
<1> QED BY <1>1, <1>2, SessionMoves

LEMMA StepPingingStaysListed ==
  ASSUME Inv, [Next]_vars
  PROVE  PingingStaysListed'
<1> SUFFICES ASSUME NEW s \in Pinging, session'[s] = "online"
             PROVE  entry'[Home[s]][s] # None
  BY DEF PingingStaysListed, Listed
<1> DEFINE h == Home[s]
<1>1. TypeOK /\ s \in Sessions /\ h \in Nodes
  BY DEF Inv
<1>2. CASE FinishRegister(s)
  <2>1. entry' = [entry EXCEPT ![h][s] = [status |-> "Online", age |-> 0]]
    BY <1>2 DEF FinishRegister, UpdatePresence
  <2>2. [status |-> "Online", age |-> 0] \in Entry
    BY <1>1 DEF Entry, Statuses
  <2> QED BY <1>1, <2>1, <2>2 DEF TypeOK
<1>3. CASE session[s] = "online"
  <2>1. Listed(h, s)
    BY <1>3 DEF Inv, PingingStaysListed
  <2>2. s \notin stale[h]
    BY <1>3 DEF Inv, PingingSpared, Gone
  <2>3. ~Restart(h)
    BY <1>1, <1>3 DEF Restart
  <2>4. ~EntryGoes(h, s)
    BY <1>3, <2>2, <2>3 DEF EntryGoes
  <2>5. entry'[h][s] \in Entry \cup {None}
    <3>1. TypeOK'
      BY StepType DEF Inv
    <3> QED BY <1>1, <3>1 DEF TypeOK
  <2>6. CASE EntryStays(h, s)
    BY <2>1, <2>6 DEF EntryStays, Listed
  <2>7. CASE EntryMade(h, s) \/ EntryHeard(h, s)
    <3>1. PICK st : entry'[h][s] = [status |-> st, age |-> 0]
      BY <2>7 DEF EntryMade, EntryHeard
    <3>2. ASSUME st \in Statuses
          PROVE  [status |-> st, age |-> 0] \in Entry
      BY <1>1, <3>2 DEF Entry
    <3>3. st \in Statuses
      <4>1. CASE EntryMade(h, s)
        BY <4>1, <3>1 DEF EntryMade, Statuses
      <4>2. CASE EntryHeard(h, s)
        BY <1>1, <4>2, <3>1, HeadType DEF EntryHeard, Receive
      <4> QED BY <2>7, <4>1, <4>2
    <3> QED BY <3>1, <3>2, <3>3
  <2>8. CASE EntryAges(h, s)
    <3>1. entry[h][s] \in Entry
      BY <1>1, <2>1 DEF Listed, TypeOK
    <3>2. [entry[h][s] EXCEPT !.age = 0] \in Entry
      BY <1>1, <3>1 DEF Entry
    <3>3. ASSUME Tick
          PROVE  entry'[h][s] # None
      <4>1. entry[h][s].age < Timeout /\ entry[h][s].age \in Nat
        BY <1>1, <1>3, <2>1, <3>1, <3>3 DEF Tick, Prompt, Entry
      <4>2. entry'[h][s] = [entry[h][s] EXCEPT !.age = @ + 1]
        BY <1>1, <2>1, <3>3, <4>1 DEF Tick
      <4>3. entry'[h][s] \in Entry
        BY <1>1, <3>1, <4>1, <4>2 DEF Entry
      <4> QED BY <4>3
    <3> QED BY <2>8, <3>2, <3>3 DEF EntryAges
  <2> QED BY <1>1, <2>4, <2>6, <2>7, <2>8, EntryStep
<1> QED BY <1>1, <1>2, <1>3, SessionMoves

LEMMA StepInv == Inv /\ [Next]_vars => Inv'
  BY StepType, StepWireKnown, StepOfflineLast, StepToldLast, StepToldGone, StepListedKnown,
     StepPingingFresh, StepPingingSpared, StepPingingStaysListed, StepOfflineIsFinal DEF Inv

LEMMA Invariance == Spec => []Inv
  BY InitInv, StepInv, PTL DEF Spec

-----------------------------------------------------------------------------
(* The theorems. *)

\* An agent whose client pings in time is in its own node's registry for as long
\* as its session lasts, whatever the bus echoes and the cleanup loop removes.
THEOREM PingingAgentsStayListed == Spec => []PingingStaysListed
<1>1. Inv => PingingStaysListed
  BY DEF Inv
<1> QED BY <1>1, Invariance, PTL

\* No node shows a session as Online once it has read its Offline.
THEOREM OfflineIsNeverRevoked == Spec => []OfflineIsFinal
<1>1. Inv => OfflineIsFinal
  BY DEF Inv
<1> QED BY <1>1, Invariance, PTL

-----------------------------------------------------------------------------
(* What Register finds when it looks up a name. *)

\* An entry is hidden only behind another one that is there.
LaterListed ==
  \A n \in Nodes, s \in Sessions : \A t \in later[n][s] : t # s /\ Listed(n, t)

LEMMA SeenLater ==
  ASSUME TypeOK, LaterListed, NEW n \in Nodes, NEW s \in Sessions, Seen(n, s),
         entry'[n][s] # None,
         \A m \in Nodes, t \in Sessions : Listed(m, t) => entry'[m][t] # None
  PROVE  LaterListed'
<1> SUFFICES ASSUME NEW m \in Nodes, NEW r \in Sessions, NEW t \in later'[m][r]
             PROVE  t # r /\ entry'[m][t] # None
  BY DEF LaterListed, Listed
<1>1. later' = [later EXCEPT ![n] = [x \in Sessions |->
                  IF Listed(n, x) /\ x # s THEN later[n][x] \cup {s} ELSE {}]]
  BY DEF Seen, TypeOK
<1>2. later[m][r] \subseteq Sessions
  BY DEF TypeOK
<1>3. CASE m = n
  <2>1. later'[m][r] = IF Listed(n, r) /\ r # s THEN later[n][r] \cup {s} ELSE {}
    BY <1>1, <1>3 DEF TypeOK
  <2> QED BY <1>2, <1>3, <2>1 DEF LaterListed
<1>4. CASE m # n
  <2>1. later'[m][r] = later[m][r]
    BY <1>1, <1>4 DEF TypeOK
  <2> QED BY <1>2, <2>1 DEF LaterListed
<1> QED BY <1>3, <1>4

LEMMA PresenceLater ==
  ASSUME TypeOK, LaterListed, NEW n \in Nodes, NEW s \in Sessions, NEW st \in Statuses,
         UpdatePresence(n, s, st)
  PROVE  LaterListed'
<1>1. [status |-> st, age |-> 0] \in Entry
  BY DEF Entry
<1>2. [status |-> st, age |-> 0] # None
  BY <1>1
<1>3. entry' = [entry EXCEPT ![n][s] = [status |-> st, age |-> 0]] /\ Seen(n, s)
  BY DEF UpdatePresence
<1>4. entry'[n][s] # None
  BY <1>2, <1>3 DEF TypeOK
<1>5. ASSUME NEW m \in Nodes, NEW t \in Sessions, Listed(m, t)
      PROVE  entry'[m][t] # None
  BY <1>2, <1>3, <1>5 DEF Listed, TypeOK
<1> QED BY <1>3, <1>4, <1>5, SeenLater

LEMMA HeartbeatLater ==
  ASSUME TypeOK, LaterListed, NEW n \in Nodes, NEW s \in Sessions, UpdateHeartbeat(n, s)
  PROVE  LaterListed'
<1>1. CASE Listed(n, s)
  <2>1. entry[n][s] \in Entry
    BY <1>1 DEF Listed, TypeOK
  <2>2. [entry[n][s] EXCEPT !.age = 0] \in Entry
    BY <2>1 DEF Entry
  <2>3. [entry[n][s] EXCEPT !.age = 0] # None
    BY <2>2
  <2>4. entry' = [entry EXCEPT ![n][s] = [entry[n][s] EXCEPT !.age = 0]] /\ Seen(n, s)
    BY <1>1 DEF UpdateHeartbeat, TypeOK
  <2>5. entry'[n][s] # None
    BY <2>3, <2>4 DEF TypeOK
  <2>6. ASSUME NEW m \in Nodes, NEW t \in Sessions, Listed(m, t)
        PROVE  entry'[m][t] # None
    BY <2>3, <2>4, <2>6 DEF Listed, TypeOK
  <2> QED BY <2>4, <2>5, <2>6, SeenLater
<1>2. CASE ~Listed(n, s)
  BY <1>2 DEF UpdateHeartbeat, LaterListed, Listed
<1> QED BY <1>1, <1>2

LEMMA RemoveLater ==
  ASSUME TypeOK, LaterListed, NEW n \in Nodes, NEW s \in Sessions, RemoveAgent(n, s)
  PROVE  LaterListed'
<1> SUFFICES ASSUME NEW m \in Nodes, NEW r \in Sessions, NEW t \in later'[m][r]
             PROVE  t # r /\ entry'[m][t] # None
  BY DEF LaterListed, Listed
<1>1. /\ entry' = [entry EXCEPT ![n][s] = None]
      /\ later' = [later EXCEPT ![n] = [x \in Sessions |->
                     IF x = s THEN {} ELSE later[n][x] \ {s}]]
  BY DEF RemoveAgent, TypeOK
<1>2. later[m][r] \subseteq Sessions
  BY DEF TypeOK
<1>3. CASE m = n
  <2>1. later'[m][r] = IF r = s THEN {} ELSE later[n][r] \ {s}
    BY <1>1, <1>3 DEF TypeOK
  <2>2. t \in later[m][r] /\ t # s
    BY <1>3, <2>1
  <2>3. entry'[m][t] = entry[m][t]
    BY <1>1, <1>2, <2>2 DEF TypeOK
  <2> QED BY <2>2, <2>3 DEF LaterListed, Listed
<1>4. CASE m # n
  <2>1. later'[m][r] = later[m][r]
    BY <1>1, <1>4 DEF TypeOK
  <2>2. entry'[m][t] = entry[m][t]
    BY <1>1, <1>4 DEF TypeOK
  <2> QED BY <2>1, <2>2 DEF LaterListed, Listed
<1> QED BY <1>3, <1>4

LEMMA StepLaterListed ==
  ASSUME TypeOK, LaterListed, [Next]_vars
  PROVE  LaterListed'
<1>1. ASSUME NEW s \in Sessions, FinishRegister(s) \/ Ping(s) \/ FinishLeave(s)
      PROVE  LaterListed'
  <2>1. Home[s] \in Nodes /\ "Online" \in Statuses
    BY DEF Statuses
  <2> QED BY <1>1, <2>1, PresenceLater, HeartbeatLater, RemoveLater
          DEF FinishRegister, Ping, FinishLeave
<1>2. ASSUME NEW h \in Nodes, NEW n \in Nodes, Receive(h, n)
      PROVE  LaterListed'
  <2>1. Head(wire[h][n]).who \in Sessions /\ Head(wire[h][n]).status \in Statuses
    BY <1>2, HeadType DEF Receive
  <2> QED BY <1>2, <2>1, PresenceLater DEF Receive
<1>3. ASSUME NEW n \in Nodes, NEW s \in Sessions, Evict(n, s)
      PROVE  LaterListed'
  BY <1>3, RemoveLater DEF Evict
<1>4. ASSUME NEW n \in Nodes, Restart(n)
      PROVE  LaterListed'
  <2>1. /\ entry' = [entry EXCEPT ![n] = [s \in Sessions |-> None]]
        /\ later' = [later EXCEPT ![n] = [s \in Sessions |-> {}]]
    BY <1>4 DEF Restart
  <2> QED BY <2>1 DEF LaterListed, Listed, TypeOK
<1>5. ASSUME Tick
      PROVE  LaterListed'
  <2>1. ASSUME NEW n \in Nodes, NEW s \in Sessions, Listed(n, s)
        PROVE  entry'[n][s] # None
    <3>1. entry[n][s] \in Entry
      BY <2>1 DEF Listed, TypeOK
    <3>2. entry[n][s].age <= Timeout =>
            [entry[n][s] EXCEPT !.age = entry[n][s].age + 1] \in Entry
      BY <3>1 DEF Entry
    <3>3. entry'[n][s] = IF entry[n][s].age <= Timeout
                         THEN [entry[n][s] EXCEPT !.age = entry[n][s].age + 1]
                         ELSE entry[n][s]
      BY <1>5, <2>1 DEF Tick
    <3> QED BY <3>1, <3>2, <3>3
  <2>2. UNCHANGED later /\ \A n \in Nodes, s \in Sessions : later[n][s] \subseteq Sessions
    BY <1>5 DEF Tick, TypeOK
  <2> QED BY <2>1, <2>2 DEF LaterListed, Listed
<1>6. CASE UNCHANGED <<entry, later>>
  BY <1>6 DEF LaterListed, Listed
<1> QED
  BY <1>1, <1>2, <1>3, <1>4, <1>5, <1>6
  DEF Next, SessionStep, NodeStep, vars, Register, Leave, Abandon, Subscribe, Lose, Scan

\* A holder of the name is all that the lookup can find.
LEMMA HolderFound ==
  ASSUME Inv, LaterListed, NEW s \in Sessions, NEW t \in Holder(s)
  PROVE  /\ t \in Sessions
         /\ AllIdentities(Home[s]) \cap Namesakes(s) = {t}
<1> DEFINE h == Home[s]
<1>1. /\ t \in Sessions /\ Name[t] = Name[s] /\ t \in Pinging
      /\ Home[t] = h /\ session[t] = "online"
      /\ \A u \in Sessions : Name[u] = Name[s] /\ u # t => ~Listed(h, u)
  BY DEF Holder, Namesakes
<1>2. Listed(h, t) /\ h \in Nodes
  BY <1>1 DEF Inv, PingingStaysListed
<1>3. ASSUME NEW u \in later[h][t]
      PROVE  Name[u] # Name[t]
  <2>1. u \in Sessions /\ u # t /\ Listed(h, u)
    BY <1>1, <1>2, <1>3 DEF LaterListed, Inv, TypeOK
  <2> QED BY <1>1, <2>1
<1>4. t \in AllIdentities(h)
  BY <1>1, <1>2, <1>3 DEF AllIdentities
<1>5. ASSUME NEW u \in AllIdentities(h) \cap Namesakes(s)
      PROVE  u = t
  BY <1>1, <1>5 DEF AllIdentities, Namesakes
<1> QED BY <1>1, <1>4, <1>5 DEF Namesakes

\* A register that is under way remembers the holder, and has told nobody yet.
HolderIsPrior ==
  \A s \in Sessions : session[s] = "registering" => \A t \in holder[s] : prior[s] = t

ToldWhenRegistered ==
  \A s, t \in Sessions : <<t, s>> \in events => session[s] \notin {"new", "registering"}

ContinuityInv ==
  /\ Inv /\ LaterListed
  /\ prior \in [Sessions -> Sessions \cup {None}]
  /\ holder \in [Sessions -> SUBSET Sessions]
  /\ HolderIsPrior /\ ToldWhenRegistered /\ TakeoverIsNoticed

LEMMA ContinuityIsRegistry == [ContinuityNext]_allVars => [Next]_vars
  BY DEF ContinuityNext, allVars, LookAndRegister, RegisterAndAnnounce, OtherStep, Next,
         SessionStep

LEMMA InitContinuity == ContinuityInit => ContinuityInv
<1> SUFFICES ASSUME ContinuityInit
             PROVE  ContinuityInv
  OBVIOUS
<1>1. Init
  BY DEF ContinuityInit
<1>2. Inv
  BY <1>1, InitInv
<1>3. LaterListed
  BY <1>1 DEF Init, LaterListed
<1>4. {} \in SUBSET Sessions
  OBVIOUS
<1>5. /\ prior \in [Sessions -> Sessions \cup {None}]
      /\ holder \in [Sessions -> SUBSET Sessions]
  BY <1>4 DEF ContinuityInit
<1>6. HolderIsPrior /\ ToldWhenRegistered /\ TakeoverIsNoticed
  <2>1. events = {} /\ \A s \in Sessions : holder[s] = {} /\ session[s] = "new"
    BY <1>1 DEF ContinuityInit, Init
  <2> QED BY <2>1 DEF HolderIsPrior, ToldWhenRegistered, TakeoverIsNoticed
<1> QED BY <1>2, <1>3, <1>5, <1>6 DEF ContinuityInv

\* What the handler finds is what it remembers.
LEMMA LookStep ==
  ASSUME ContinuityInv, NEW s \in Sessions, LookAndRegister(s)
  PROVE  /\ session[s] = "new" /\ session' = [session EXCEPT ![s] = "registering"]
         /\ prior' \in [Sessions -> Sessions \cup {None}]
         /\ holder' \in [Sessions -> SUBSET Sessions]
         /\ \A t \in holder'[s] : prior'[s] = t
         /\ \A r \in Sessions : r # s => holder'[r] = holder[r] /\ prior'[r] = prior[r]
         /\ UNCHANGED <<events, warned>>
<1> DEFINE found == AllIdentities(Home[s]) \cap Namesakes(s)
           p     == IF found = {} THEN None ELSE CHOOSE t \in found : TRUE
<1>1. /\ prior \in [Sessions -> Sessions \cup {None}]
      /\ holder \in [Sessions -> SUBSET Sessions]
      /\ Inv /\ LaterListed
  BY DEF ContinuityInv
<1>2. /\ prior' = [prior EXCEPT ![s] = p]
      /\ holder' = [holder EXCEPT ![s] = Holder(s)]
      /\ UNCHANGED <<events, warned>>
  BY DEF LookAndRegister
<1>3. found \subseteq Sessions /\ Holder(s) \subseteq Sessions
  BY DEF AllIdentities, Holder, Namesakes
<1>4. p \in Sessions \cup {None}
  BY <1>3
<1>5. ASSUME NEW t \in Holder(s)
      PROVE  p = t
  <2>1. found = {t}
    BY <1>1, HolderFound
  <2> QED BY <2>1
<1>6. session[s] = "new" /\ session' = [session EXCEPT ![s] = "registering"]
  BY DEF LookAndRegister, Register
<1> HIDE DEF p
<1> QED BY <1>1, <1>2, <1>3, <1>4, <1>5, <1>6

\* What the handler tells, about the identity it remembers.
LEMMA TellStep ==
  ASSUME ContinuityInv, NEW s \in Sessions, RegisterAndAnnounce(s)
  PROVE  /\ session[s] = "registering" /\ session' = [session EXCEPT ![s] = "online"]
         /\ UNCHANGED <<prior, holder>>
         /\ events \subseteq events' /\ warned \subseteq warned'
         /\ \A t, r \in Sessions : <<t, r>> \in events' =>
              \/ <<t, r>> \in events
              \/ r = s /\ t = prior[s] /\ ModelChanged(t, s)
         /\ \A t \in Sessions : t = prior[s] /\ ModelChanged(t, s) =>
              <<t, s>> \in events' \/ s \in warned'
<1>1. /\ session[s] = "registering" /\ session' = [session EXCEPT ![s] = "online"]
      /\ UNCHANGED <<prior, holder>>
  BY DEF RegisterAndAnnounce, FinishRegister
<1>2. \/ /\ prior[s] # None /\ ModelChanged(prior[s], s)
         /\ events' \in {events, events \cup {<<prior[s], s>>}}
         /\ warned' \in {warned, warned \cup {s}}
         /\ events' = events \cup {<<prior[s], s>>} \/ warned' = warned \cup {s}
      \/ /\ ~(prior[s] # None /\ ModelChanged(prior[s], s))
         /\ events' = events /\ warned' = warned
  BY DEF RegisterAndAnnounce, Announce
<1>3. \A t \in Sessions : t # None
  OBVIOUS
<1> QED BY <1>1, <1>2, <1>3

\* Apart from the two halves of Register a session only moves on to its end.
LEMMA OtherMoves ==
  ASSUME TypeOK, OtherStep \/ UNCHANGED vars, NEW s \in Sessions
  PROVE  /\ session'[s] = "registering" => session[s] = "registering"
         /\ session'[s] \in {"online", "leaving", "left"} =>
              session[s] \in {"online", "leaving", "left"}
         /\ session[s] \notin {"new", "registering"} => session'[s] \notin {"new", "registering"}
<1>1. ASSUME NEW r \in Sessions, Leave(r) \/ FinishLeave(r) \/ Abandon(r)
      PROVE  \/ session'[s] = session[s]
             \/ session[s] \in {"online", "leaving"} /\ session'[s] \in Gone
  <2>1. /\ session[r] \in {"online", "leaving"}
        /\ \/ session' = [session EXCEPT ![r] = "leaving"]
           \/ session' = [session EXCEPT ![r] = "left"]
           \/ session' = [session EXCEPT ![r] = "lost"]
    BY <1>1 DEF Leave, FinishLeave, Abandon
  <2> QED BY <2>1 DEF TypeOK, Gone
<1>2. ASSUME NEW n \in Nodes, Restart(n)
      PROVE  session'[s] \in {session[s], "lost"}
  BY <1>2 DEF Restart
<1>3. \/ \E r \in Sessions : Leave(r) \/ FinishLeave(r) \/ Abandon(r)
      \/ \E n \in Nodes : Restart(n)
      \/ UNCHANGED session
  BY DEF OtherStep, NodeStep, vars, Ping, Subscribe, Receive, Lose, Scan, Evict, Tick
<1>4. \/ session'[s] = session[s]
      \/ session'[s] = "lost"
      \/ session[s] \in {"online", "leaving"} /\ session'[s] \in Gone
  BY <1>1, <1>2, <1>3
<1> QED BY <1>4 DEF Gone

LEMMA StepContinuity == ContinuityInv /\ [ContinuityNext]_allVars => ContinuityInv'
<1> SUFFICES ASSUME ContinuityInv, [ContinuityNext]_allVars
             PROVE  ContinuityInv'
  OBVIOUS
<1> USE DEF ContinuityInv
<1>1. [Next]_vars /\ TypeOK
  BY ContinuityIsRegistry DEF Inv
<1>2. Inv' /\ LaterListed'
  BY <1>1, StepInv, StepLaterListed
<1>3. ASSUME NEW s \in Sessions, LookAndRegister(s)
      PROVE  ContinuityInv'
  <2>1. /\ session[s] = "new" /\ session' = [session EXCEPT ![s] = "registering"]
        /\ prior' \in [Sessions -> Sessions \cup {None}]
        /\ holder' \in [Sessions -> SUBSET Sessions]
        /\ \A t \in holder'[s] : prior'[s] = t
        /\ \A r \in Sessions : r # s => holder'[r] = holder[r] /\ prior'[r] = prior[r]
        /\ UNCHANGED <<events, warned>>
    BY <1>3, LookStep
  <2>2. \A r \in Sessions : session'[r] = IF r = s THEN "registering" ELSE session[r]
    BY <1>1, <2>1 DEF TypeOK
  <2>3. HolderIsPrior'
    BY <2>1, <2>2 DEF HolderIsPrior
  <2>4. ToldWhenRegistered'
    BY <2>1, <2>2 DEF ToldWhenRegistered
  <2>5. TakeoverIsNoticed'
    BY <2>1, <2>2 DEF TakeoverIsNoticed, ModelChanged
  <2> QED BY <1>2, <2>1, <2>3, <2>4, <2>5
<1>4. ASSUME NEW s \in Sessions, RegisterAndAnnounce(s)
      PROVE  ContinuityInv'
  <2>1. /\ session[s] = "registering" /\ session' = [session EXCEPT ![s] = "online"]
        /\ UNCHANGED <<prior, holder>>
        /\ events \subseteq events' /\ warned \subseteq warned'
        /\ \A t, r \in Sessions : <<t, r>> \in events' =>
             \/ <<t, r>> \in events
             \/ r = s /\ t = prior[s] /\ ModelChanged(t, s)
        /\ \A t \in Sessions : t = prior[s] /\ ModelChanged(t, s) =>
             <<t, s>> \in events' \/ s \in warned'
    BY <1>4, TellStep
  <2>2. \A r \in Sessions : session'[r] = IF r = s THEN "online" ELSE session[r]
    BY <1>1, <2>1 DEF TypeOK
  <2>3. HolderIsPrior'
    BY <2>1, <2>2 DEF HolderIsPrior
  <2>4. ToldWhenRegistered'
    BY <2>1, <2>2 DEF ToldWhenRegistered
  <2>5. ASSUME NEW r \in Sessions, session'[r] \in {"online", "leaving", "left"},
               NEW t \in holder'[r]
        PROVE  /\ ModelChanged(t, r) => <<t, r>> \in events' \/ r \in warned'
               /\ <<t, r>> \in events' => ModelChanged(t, r)
    <3>1. t \in Sessions /\ t \in holder[r]
      BY <2>1
    <3>2. CASE r = s
      <4>1. <<t, s>> \notin events
        BY <2>1, <3>1 DEF ToldWhenRegistered
      <4>2. prior[s] = t
        BY <2>1, <3>1, <3>2 DEF HolderIsPrior
      <4> QED BY <2>1, <3>1, <3>2, <4>1, <4>2
    <3>3. CASE r # s
      BY <2>1, <2>2, <2>5, <3>1, <3>3 DEF TakeoverIsNoticed
    <3> QED BY <3>2, <3>3
  <2>6. TakeoverIsNoticed'
    BY <2>5 DEF TakeoverIsNoticed, ModelChanged
  <2> QED BY <1>2, <2>1, <2>3, <2>4, <2>6
<1>5. ASSUME OtherStep \/ UNCHANGED vars, UNCHANGED continuity
      PROVE  ContinuityInv'
  <2>1. UNCHANGED <<prior, events, warned, holder>>
    BY <1>5 DEF continuity
  <2>2. \A s \in Sessions :
          /\ session'[s] = "registering" => session[s] = "registering"
          /\ session'[s] \in {"online", "leaving", "left"} =>
               session[s] \in {"online", "leaving", "left"}
          /\ session[s] \notin {"new", "registering"} => session'[s] \notin {"new", "registering"}
    BY <1>1, <1>5, OtherMoves
  <2>3. HolderIsPrior'
    BY <2>1, <2>2 DEF HolderIsPrior
  <2>4. ToldWhenRegistered'
    BY <2>1, <2>2 DEF ToldWhenRegistered
  <2>5. TakeoverIsNoticed'
    BY <2>1, <2>2 DEF TakeoverIsNoticed, ModelChanged
  <2> QED BY <1>2, <2>1, <2>3, <2>4, <2>5
<1> QED BY <1>3, <1>4, <1>5 DEF ContinuityNext, allVars

\* An agent that registers under the name of one that is there and pings is
\* announced with its register if its model differs, or the daemon has warned that
\* it could not be, and never if the model is the same: what the lookup finds is
\* the holder, and nothing it does afterwards changes what is told.
THEOREM TakeoversAreNoticed == ContinuitySpec => []TakeoverIsNoticed
<1>1. ContinuityInv => TakeoverIsNoticed
  BY DEF ContinuityInv
<1> QED BY <1>1, InitContinuity, StepContinuity, PTL DEF ContinuitySpec

=============================================================================
