------------------------------- MODULE Registry -------------------------------
(***************************************************************************)
(* Who is on the fabric: the registries that the traffic controllers of    *)
(* several nodes keep (crates/twilight-traffic-controller/src/lib.rs), fed *)
(* by the IPC handlers of their own node (ipc.rs) and by the presence that *)
(* every node publishes on the bus and every node, itself included,        *)
(* subscribes to (daemon.rs).                                              *)
(*                                                                         *)
(* A session is one registration: Register makes a fresh uuid each time, so*)
(* an agent that comes back, or registers again, is another session of the *)
(* same name. A session's entry in a registry has a status, which nothing  *)
(* but a presence changes, and the time it was last seen, which a presence *)
(* and a ping renew. Times are kept as an age in ticks and, because the    *)
(* newest entry of a name hides the others, as an order.                   *)
(***************************************************************************)
EXTENDS Naturals, Sequences

CONSTANTS
  Nodes,        \* the daemons of a tenant
  Sessions,     \* the uuids that Register generates
  Names,        \* agent names
  Home,         \* Home[s]: the node whose socket s registered on
  Name,         \* Name[s]: the agent name s registered under
  Pinging,      \* the sessions whose client pings often enough
  Timeout,      \* ticks in the 30 s after which an entry is stale
  MaxRestarts,  \* bound on the number of daemon restarts
  None          \* an absent entry

Statuses == {"Online", "Offline"}
Entry    == [status : Statuses, age : 0 .. Timeout + 1]
Presence == [who : Sessions, status : Statuses]

ASSUME RegistryAssumption ==
  /\ Home \in [Sessions -> Nodes]
  /\ Name \in [Sessions -> Names]
  /\ Pinging \subseteq Sessions
  /\ Timeout \in Nat \ {0}
  /\ MaxRestarts \in Nat
  /\ None \notin Sessions \cup Entry

VARIABLES
  session,     \* session[s]: where the handler of s is
  entry,       \* entry[n][s]: the registry entry of s at node n
  later,       \* later[n][s]: the sessions with an entry at n last seen after s
  subscribed,  \* subscribed[n]: n's presence subscription is declared
  wire,        \* wire[h][n]: presence published at h that n has yet to read
  stale,       \* stale[n]: the cleanup loop's list of entries to remove
  restarts,    \* how many restarts there have been
  toldOffline, \* history: the sessions whose Offline presence n has read
  latest       \* history: the session that last registered a name at a node

vars == <<session, entry, later, subscribed, wire, stale, restarts,
          toldOffline, latest>>

Phases == {"new", "registering", "online", "leaving", "left", "lost"}
Ended  == {"left", "lost"}

TypeOK ==
  /\ session \in [Sessions -> Phases]
  /\ entry \in [Nodes -> [Sessions -> Entry \cup {None}]]
  /\ later \in [Nodes -> [Sessions -> SUBSET Sessions]]
  /\ subscribed \in [Nodes -> BOOLEAN]
  /\ wire \in [Nodes -> [Nodes -> Seq(Presence)]]
  /\ stale \in [Nodes -> SUBSET Sessions]
  /\ restarts \in 0 .. MaxRestarts
  /\ toldOffline \in [Nodes -> SUBSET Sessions]
  /\ latest \in [Nodes -> [Names -> Sessions \cup {None}]]

Init ==
  /\ session = [s \in Sessions |-> "new"]
  /\ entry = [n \in Nodes |-> [s \in Sessions |-> None]]
  /\ later = [n \in Nodes |-> [s \in Sessions |-> {}]]
  /\ subscribed = [n \in Nodes |-> FALSE]
  /\ wire = [h \in Nodes |-> [n \in Nodes |-> << >>]]
  /\ stale = [n \in Nodes |-> {}]
  /\ restarts = 0
  /\ toldOffline = [n \in Nodes |-> {}]
  /\ latest = [n \in Nodes |-> [a \in Names |-> None]]

-----------------------------------------------------------------------------
(* The controller's operations on one registry. *)

Listed(n, s) == entry[n][s] # None

\* s is seen: after every entry there is.
Seen(n, s) ==
  later' = [later EXCEPT ![n] = [t \in Sessions |->
              IF Listed(n, t) /\ t # s THEN @[t] \cup {s} ELSE {}]]

\* update_presence: the entry is replaced, or made, whatever the status says.
UpdatePresence(n, s, st) ==
  /\ entry' = [entry EXCEPT ![n][s] = [status |-> st, age |-> 0]]
  /\ Seen(n, s)

\* Variant: a heartbeat makes the entry it does not find, with no status.
UpdateHeartbeat_inserts(n, s) ==
  /\ entry' = [entry EXCEPT ![n][s] =
       IF Listed(n, s) THEN [@ EXCEPT !.age = 0] ELSE [status |-> "Unspecified", age |-> 0]]
  /\ Seen(n, s)

\* update_heartbeat: only an entry that is there is renewed.
UpdateHeartbeat(n, s) ==
  IF Listed(n, s)
  THEN /\ entry' = [entry EXCEPT ![n][s].age = 0]
       /\ Seen(n, s)
  ELSE UNCHANGED <<entry, later>>

RemoveAgent(n, s) ==
  /\ entry' = [entry EXCEPT ![n][s] = None]
  /\ later' = [later EXCEPT ![n] = [t \in Sessions |->
                 IF t = s THEN {} ELSE @[t] \ {s}]]

\* get_all_identities: of the entries of a name, the one last seen.
AllIdentities(n) ==
  {s \in Sessions : Listed(n, s) /\ \A t \in later[n][s] : Name[t] # Name[s]}

\* publish_presence: to every node that has subscribed, in the order of the puts.
Publish(h, s, st) ==
  wire' = [wire EXCEPT ![h] = [n \in Nodes |->
             IF subscribed[n] THEN Append(@[n], [who |-> s, status |-> st]) ELSE @[n]]]

-----------------------------------------------------------------------------
(* The handlers of one node's sessions. *)

\* The Register arm up to the await of publish_presence. (What it does
\* when the name is taken is in Continuity.)
Register(s) ==
  LET h == Home[s] IN
  /\ session[s] = "new"
  /\ session' = [session EXCEPT ![s] = "registering"]
  /\ Publish(h, s, "Online")
  /\ latest' = [latest EXCEPT ![h][Name[s]] = s]
  /\ UNCHANGED <<entry, later, subscribed, stale, restarts, toldOffline>>

\* Variant: the handler leaves the registry to the echo of its presence.
FinishRegister_echoOnly(s) ==
  /\ session[s] = "registering"
  /\ session' = [session EXCEPT ![s] = "online"]
  /\ UNCHANGED <<entry, later, subscribed, wire, stale, restarts, toldOffline, latest>>

\* Its other half: the handler updates its own node's registry itself.
FinishRegister(s) ==
  /\ session[s] = "registering"
  /\ session' = [session EXCEPT ![s] = "online"]
  /\ UpdatePresence(Home[s], s, "Online")
  /\ UNCHANGED <<subscribed, wire, stale, restarts, toldOffline, latest>>

\* ping: no other node hears of it.
Ping(s) ==
  /\ session[s] = "online"
  /\ UpdateHeartbeat(Home[s], s)
  /\ UNCHANGED <<session, subscribed, wire, stale, restarts, toldOffline, latest>>

\* cleanup at end of file: Offline is published only for an agent still listed.
Leave(s) ==
  /\ session[s] = "online"
  /\ session' = [session EXCEPT ![s] = "leaving"]
  /\ IF Listed(Home[s], s) THEN Publish(Home[s], s, "Offline") ELSE UNCHANGED wire
  /\ UNCHANGED <<entry, later, subscribed, stale, restarts, toldOffline, latest>>

FinishLeave(s) ==
  /\ session[s] = "leaving"
  /\ session' = [session EXCEPT ![s] = "left"]
  /\ RemoveAgent(Home[s], s)
  /\ UNCHANGED <<subscribed, wire, stale, restarts, toldOffline, latest>>

\* No cleanup: the handler returns by the ? of a failed write, or its connection
\* registers again and forgets the uuid.
Abandon(s) ==
  /\ session[s] = "online"
  /\ session' = [session EXCEPT ![s] = "lost"]
  /\ UNCHANGED <<entry, later, subscribed, wire, stale, restarts, toldOffline,
                 latest>>

-----------------------------------------------------------------------------
(* The daemons. *)

\* subscribe_all_presence returns in the task spawned for it.
Subscribe(n) ==
  /\ ~subscribed[n]
  /\ subscribed' = [subscribed EXCEPT ![n] = TRUE]
  /\ UNCHANGED <<session, entry, later, wire, stale, restarts, toldOffline, latest>>

\* Variant: every message is handled by a task of its own, in any order.
Receive_unordered(h, n) ==
  /\ \E i \in 1 .. Len(wire[h][n]) :
       LET p == wire[h][n][i] IN
       /\ UpdatePresence(n, p.who, p.status)
       /\ toldOffline' = IF p.status = "Offline"
                         THEN [toldOffline EXCEPT ![n] = @ \cup {p.who}] ELSE toldOffline
       /\ wire' = [wire EXCEPT ![h][n] = SubSeq(@, 1, i - 1) \o SubSeq(@, i + 1, Len(@))]
  /\ UNCHANGED <<session, subscribed, stale, restarts, latest>>

\* The presence task reads a message, the node's own echo included.
Receive(h, n) ==
  /\ wire[h][n] # << >>
  /\ LET p == Head(wire[h][n]) IN
       /\ UpdatePresence(n, p.who, p.status)
       /\ toldOffline' = IF p.status = "Offline"
                         THEN [toldOffline EXCEPT ![n] = @ \cup {p.who}] ELSE toldOffline
  /\ wire' = [wire EXCEPT ![h][n] = Tail(@)]
  /\ UNCHANGED <<session, subscribed, stale, restarts, latest>>

\* The network between two nodes drops a message.
Lose(h, n) ==
  /\ h # n
  /\ wire[h][n] # << >>
  /\ wire' = [wire EXCEPT ![h][n] = Tail(@)]
  /\ UNCHANGED <<session, entry, later, subscribed, stale, restarts, toldOffline,
                 latest>>

\* Variant: stale from the threshold on.
IsStale_early(n, s) == Listed(n, s) /\ entry[n][s].age >= Timeout

\* Variant: an agent known to be offline is not looked at.
IsStale_onlineOnly(n, s) ==
  Listed(n, s) /\ entry[n][s].age > Timeout /\ entry[n][s].status = "Online"

IsStale(n, s) == Listed(n, s) /\ entry[n][s].age > Timeout

\* cleanup_stale_agents collects the stale entries first...
Scan(n) ==
  /\ stale[n] = {}
  /\ \E s \in Sessions : IsStale(n, s)
  /\ stale' = [stale EXCEPT ![n] = {s \in Sessions : IsStale(n, s)}]
  /\ UNCHANGED <<session, entry, later, subscribed, wire, restarts, toldOffline,
                 latest>>

\* ...and then removes them, one by one, without another look at last_seen.
Evict(n, s) ==
  /\ s \in stale[n]
  /\ stale' = [stale EXCEPT ![n] = @ \ {s}]
  /\ RemoveAgent(n, s)
  /\ UNCHANGED <<session, subscribed, wire, restarts, toldOffline, latest>>

\* A daemon restarts: its registry, its handlers and what it had yet to read are
\* gone; what it has published is under way.
Restart(n) ==
  /\ restarts < MaxRestarts
  /\ restarts' = restarts + 1
  /\ session' = [s \in Sessions |->
       IF Home[s] = n /\ session[s] \in {"registering", "online", "leaving"}
       THEN "lost" ELSE session[s]]
  /\ entry' = [entry EXCEPT ![n] = [s \in Sessions |-> None]]
  /\ later' = [later EXCEPT ![n] = [s \in Sessions |-> {}]]
  /\ subscribed' = [subscribed EXCEPT ![n] = FALSE]
  /\ wire' = [h \in Nodes |-> [wire[h] EXCEPT ![n] = << >>]]
  /\ stale' = [stale EXCEPT ![n] = {}]
  /\ toldOffline' = [toldOffline EXCEPT ![n] = {}]
  /\ latest' = [latest EXCEPT ![n] = [a \in Names |-> None]]

\* A client that pings does so before its entry can go stale, and a handler does
\* not wait that long for the bus to take a presence.
Prompt(s) ==
  (s \in Pinging /\ session[s] \in {"registering", "online"} /\ Listed(Home[s], s))
     => entry[Home[s]][s].age < Timeout

Tick ==
  /\ \A s \in Sessions : Prompt(s)
  /\ entry' = [n \in Nodes |-> [s \in Sessions |->
       IF Listed(n, s) /\ entry[n][s].age <= Timeout
       THEN [entry[n][s] EXCEPT !.age = @ + 1] ELSE entry[n][s]]]
  /\ UNCHANGED <<session, later, subscribed, wire, stale, restarts, toldOffline,
                 latest>>

-----------------------------------------------------------------------------

SessionStep(s) ==
  \/ Register(s) \/ FinishRegister(s) \/ Ping(s)
  \/ Leave(s) \/ FinishLeave(s) \/ Abandon(s)

NodeStep(n) ==
  \/ Subscribe(n)
  \/ \E h \in Nodes : Receive(h, n) \/ Lose(h, n)
  \/ Scan(n)
  \/ \E s \in Sessions : Evict(n, s)
  \/ Restart(n)

Next ==
  \/ \E s \in Sessions : SessionStep(s)
  \/ \E n \in Nodes : NodeStep(n)
  \/ Tick

\* The daemon's tasks run, time passes, and the clients that ping keep pinging.
Fairness ==
  /\ \A h, n \in Nodes : WF_vars(Receive(h, n))
  /\ \A n \in Nodes : WF_vars(Scan(n))
  /\ \A n \in Nodes, s \in Sessions : WF_vars(Evict(n, s))
  /\ \A s \in Pinging : WF_vars(Ping(s))
  /\ \A s \in Sessions : WF_vars(FinishRegister(s)) /\ WF_vars(FinishLeave(s))
  /\ WF_vars(Tick)

Spec == Init /\ [][Next]_vars
FairSpec == Spec /\ Fairness

-----------------------------------------------------------------------------
(* Safety. *)

\* An agent that pings is in its own node's registry from the answer to its
\* register to the end of its session, as long as its pings come in time (Tick
\* waits for them): no echo of its own presence takes it out, and no cleanup of
\* another entry, or of an earlier life of the node, that overlaps with it.
PingingStaysListed ==
  \A s \in Pinging : session[s] = "online" => Listed(Home[s], s)

\* A node that has read the Offline presence of a session never shows it Online
\* again, whatever presence of it was under way or lost.
OfflineIsFinal ==
  \A n \in Nodes : \A s \in toldOffline[n] :
    Listed(n, s) => entry[n][s].status = "Offline"

\* lib.rs says of get_all_identities: "Prevents stale Zenoh-replayed presence
\* entries from shadowing live agents." The session that registered a name last
\* is not hidden, while it is there, behind one that has left.
LiveNotShadowed ==
  \A s, t \in Sessions : LET h == Home[s] IN
    (latest[h][Name[s]] = s /\ session[s] = "online" /\ Listed(h, s)
       /\ session[t] = "left" /\ Name[t] = Name[s])
    => t \notin AllIdentities(h)

-----------------------------------------------------------------------------
(* Liveness. *)

\* A session that has ended disappears from every registry, whichever way it
\* ended and whatever presence of it was still under way, and stays away.
GhostsFade ==
  \A s \in Sessions :
    session[s] \in Ended ~> [](\A n \in Nodes : ~Listed(n, s))

\* A pinging agent that is the only one to have its name is, from some point on,
\* what its node shows under that name.
OnlyHolder(s) ==
  /\ session[s] = "online"
  /\ \A t \in Sessions \ {s} : Name[t] = Name[s] => session[t] \in Ended \cup {"new"}

LiveAgentWinsItsName ==
  \A s \in Pinging : <>[]OnlyHolder(s) => <>[](s \in AllIdentities(Home[s]))
=============================================================================
