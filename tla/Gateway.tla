-------------------------------- MODULE Gateway --------------------------------
(***************************************************************************)
(* The HTTP gateway (crates/twilight-mcp-server/src/main.rs): requests name *)
(* an agent; the first one of an agent connects a client to the daemon and *)
(* the gateway keeps it. The daemon may restart below, and then its former *)
(* clients are dead (lib.rs). Names that DaemonClient also has are prefixed *)
(* here, so that ClientProofs can extend both.                             *)
(***************************************************************************)
EXTENDS Naturals, FiniteSets

CONSTANTS
  Requests,     \* HTTP requests
  Agents,       \* agent names
  Agent,        \* Agent[r]: the name in the path of r
  MaxRestarts,  \* bound on the daemon's restarts
  NoOne

ASSUME GatewayAssumption ==
  /\ Agent \in [Requests -> Agents]
  /\ MaxRestarts \in Nat
  /\ NoOne \notin Requests \cup (0 .. MaxRestarts)

Lives == 0 .. MaxRestarts   \* the daemon's lives

VARIABLES
  request,     \* request[r]: new, locking, connecting, calling, or how it ended: Over
  conn,        \* conn[r]: the life of the daemon that r has connected to
  lock,        \* who has the write lock on the map
  routers,     \* routers[a]: the life of the daemon that a's client knows
  life,        \* the daemon's present life
  up,          \* it runs
  registered   \* the clients registered so far and not dropped, by agent, life and request

Over == {"served", "unavailable", "failed", "dropped"}

gatewayVars == <<request, conn, lock, routers, life, up, registered>>

GatewayInit ==
  /\ request = [r \in Requests |-> "new"]
  /\ conn = [r \in Requests |-> NoOne]
  /\ lock = NoOne
  /\ routers = [a \in Agents |-> NoOne]
  /\ life = 0
  /\ up = TRUE
  /\ registered = {}

-----------------------------------------------------------------------------

Arrive(r) ==
  /\ request[r] = "new"
  /\ request' = [request EXCEPT ![r] = "locking"]
  /\ UNCHANGED <<conn, lock, routers, life, up, registered>>

\* The write lock is taken and the agent has a router: the lock is let go.
Found(r) ==
  /\ request[r] = "locking" /\ lock = NoOne
  /\ routers[Agent[r]] # NoOne
  /\ request' = [request EXCEPT ![r] = "calling"]
  /\ conn' = [conn EXCEPT ![r] = routers[Agent[r]]]
  /\ UNCHANGED <<lock, routers, life, up, registered>>

\* It has none: the lock is held while DaemonClient::connect runs.
Missing(r) ==
  /\ request[r] = "locking" /\ lock = NoOne
  /\ routers[Agent[r]] = NoOne
  /\ request' = [request EXCEPT ![r] = "connecting"]
  /\ lock' = r
  /\ UNCHANGED <<conn, routers, life, up, registered>>

\* The daemon answers the register: another agent of that name is there.
Registered(r) ==
  /\ request[r] = "connecting" /\ conn[r] = NoOne
  /\ up
  /\ conn' = [conn EXCEPT ![r] = life]
  /\ registered' = registered \cup {<<Agent[r], life, r>>}
  /\ UNCHANGED <<request, lock, routers, life, up>>

\* subscribe_tasks is acknowledged as well: the client goes into the map.
ClientConnected(r) ==
  /\ request[r] = "connecting" /\ conn[r] = life
  /\ up
  /\ routers' = [routers EXCEPT ![Agent[r]] = life]
  /\ request' = [request EXCEPT ![r] = "calling"]
  /\ lock' = NoOne
  /\ UNCHANGED <<conn, life, up, registered>>

\* Variant: the failure returns with the lock still held.
ConnectFails_keepsLock(r) ==
  /\ request[r] = "connecting"
  /\ ~up \/ conn[r] \in Lives \ {life}
  /\ request' = [request EXCEPT ![r] = "unavailable"]
  /\ UNCHANGED <<conn, lock, routers, life, up, registered>>

\* No daemon, or it goes before both answers are there: 503.
ConnectFails(r) ==
  /\ request[r] = "connecting"
  /\ ~up \/ conn[r] \in Lives \ {life}
  /\ request' = [request EXCEPT ![r] = "unavailable"]
  /\ conn' = [conn EXCEPT ![r] = NoOne]
  /\ lock' = NoOne
  /\ UNCHANGED <<routers, life, up, registered>>

\* Variant: a task of its own connects, which goes on when the request is gone.
HangUp_detached(r) ==
  /\ request[r] \in {"locking", "connecting", "calling"}
  /\ request' = [request EXCEPT ![r] = "dropped"]
  /\ lock' = IF lock = r THEN NoOne ELSE lock
  /\ UNCHANGED <<conn, routers, life, up, registered>>

\* The HTTP client hangs up, and the handler is dropped at the await it is at: with
\* it the lock and a client that has not got into the map yet.
HangUp(r) ==
  /\ request[r] \in {"locking", "connecting", "calling"}
  /\ request' = [request EXCEPT ![r] = "dropped"]
  /\ lock' = IF lock = r THEN NoOne ELSE lock
  /\ registered' = IF request[r] = "connecting"
                   THEN {c \in registered : c[3] # r} ELSE registered
  /\ UNCHANGED <<conn, routers, life, up>>

\* The tool call of the request, on the client it has found or made.
Serve(r) ==
  /\ request[r] = "calling"
  /\ request' = [request EXCEPT ![r] = IF up /\ conn[r] = life THEN "served" ELSE "failed"]
  /\ UNCHANGED <<conn, lock, routers, life, up, registered>>

-----------------------------------------------------------------------------

Stop ==
  /\ up
  /\ up' = FALSE
  /\ UNCHANGED <<request, conn, lock, routers, life, registered>>

Start ==
  /\ ~up
  /\ life < MaxRestarts
  /\ up' = TRUE
  /\ life' = life + 1
  /\ UNCHANGED <<request, conn, lock, routers, registered>>

RequestStep(r) ==
  \/ Arrive(r) \/ Found(r) \/ Missing(r) \/ Registered(r) \/ ClientConnected(r)
  \/ ConnectFails(r) \/ Serve(r) \/ HangUp(r)

GatewayNext == (\E r \in Requests : RequestStep(r)) \/ Stop \/ Start

\* The gateway runs, its lock is fair, and a daemon that runs answers.
GatewayFairness ==
  \A r \in Requests :
    /\ SF_gatewayVars(Found(r) \/ Missing(r))
    /\ WF_gatewayVars(Registered(r) \/ ClientConnected(r) \/ ConnectFails(r))
    /\ WF_gatewayVars(Serve(r))

GatewaySpec == GatewayInit /\ [][GatewayNext]_gatewayVars
GatewayFairSpec == GatewaySpec /\ GatewayFairness

-----------------------------------------------------------------------------

\* However many requests of an agent come at once, and hang up halfway, the gateway
\* keeps one client of it with each life of the daemon.
OneClientPerAgent ==
  \A a \in Agents, l \in Lives :
    Cardinality({r \in Requests : <<a, l, r>> \in registered}) <= 1

\* Every request gets a response unless it hangs up, though all of them wait for
\* the one lock and who holds it may hang up, or the daemon go away meanwhile.
EveryRequestAnswered ==
  \A r \in Requests :
    request[r] = "locking" ~> request[r] \in Over
=============================================================================
