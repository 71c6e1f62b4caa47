------------------------------ MODULE Membership ------------------------------
(***************************************************************************)
(* What a process knows of the agents of other processes: from a presence, *)
(* which each publishes once, and from the heartbeats of those that have a *)
(* heartbeat loop. (Of its own clients a daemon knows from their socket:   *)
(* that is Registry.)                                                      *)
(*                                                                         *)
(* There is one observer, since none has to do with another. A daemon and  *)
(* the console subscribe to the presence and the heartbeats of all nodes,  *)
(* `list` to the presence and `run` to the heartbeats of its own           *)
(* (twilight-daemon/src/daemon.rs, twilight-console/src-tauri/src/lib.rs,  *)
(* twilight-cli/src/main.rs). Daemons and `run` have a cleanup loop.       *)
(*                                                                         *)
(* A tick is any unit of time that divides those below, and what happens   *)
(* between two ticks happens at one instant, in any order. A beat that is  *)
(* due is read or lost up to Delay ticks later: publishing it, its way and *)
(* the turn of the task that reads it take time. Two subscriptions are two *)
(* tasks: nothing orders a presence and a heartbeat of one member.         *)
(***************************************************************************)
EXTENDS Naturals, Sequences

CONSTANTS
  Members,     \* the uuids that are announced
  Beats,       \* those with a heartbeat loop: daemons, `run`, scenario agents
  OwnNode,     \* those on the observer's own node
  Interval,    \* ticks in the 10 s between two beats
  Timeout,     \* ticks in the 30 s after which an entry is stale
  Delay,       \* bound on the ticks between a beat being due and being read
  MaxReturns,  \* bound on the number of restarts of the observer
  Absent       \* an absent entry

ASSUME MembershipAssumption ==
  /\ Beats \subseteq Members /\ OwnNode \subseteq Members
  /\ Interval \in Nat /\ Timeout \in Nat /\ Delay \in Nat /\ Delay < Interval
  /\ MaxReturns \in Nat

VARIABLES
  kind,     \* the observer: "daemon", "console", "list" or "run"
  reads,    \* its subscriptions so far: "presence", "heartbeat"
  entry,    \* entry[m]: its registry, a status and an age in ticks, or Absent
  stale,    \* the cleanup loop's list of entries to remove
  restarts, \* how often it has restarted
  member,   \* member[m]: new, up or gone
  due,      \* members with a beat that has been due and is neither read nor lost
  phase,    \* phase[m]: ticks since the last beat of m was due
  wire,     \* wire[m]: presence of m that the observer has yet to read
  missed,   \* history: beats of m since the last one read, up to Timeout
  met       \* history: members whose presence it has read as Online since it started

observer == <<kind, reads, restarts>>
beats    == <<due, phase>>
membershipVars == <<observer, entry, stale, member, beats, wire, missed, met>>

MembershipInit ==
  /\ kind \in {"daemon", "console", "list", "run"}
  /\ reads = {}
  /\ entry = [m \in Members |-> Absent]
  /\ stale = {}
  /\ restarts = 0
  /\ member = [m \in Members |-> "new"]
  /\ due = {}
  /\ phase = [m \in Members |-> 0]
  /\ wire = [m \in Members |-> << >>]
  /\ missed = [m \in Members |-> 0]
  /\ met = {}

-----------------------------------------------------------------------------
(* The observer's registry.                                                 *)

Listed(m) == entry[m] # Absent

\* update_presence: the entry is replaced, or made, whatever the status says.
UpdatePresence(m, st) == entry' = [entry EXCEPT ![m] = [status |-> st, age |-> 0]]

\* Variant: the entry is looked up, and nothing is written.
UpdateHeartbeat_forgets(m) == UNCHANGED entry

\* update_heartbeat: only an entry that is there is renewed.
UpdateHeartbeat(m) ==
  entry' = IF Listed(m) THEN [entry EXCEPT ![m].age = 0] ELSE entry

\* Variant: only what has a heartbeat can miss it.
IsStale_beatingOnly(m) == m \in Beats /\ Listed(m) /\ entry[m].age > Timeout

IsStale(m) == Listed(m) /\ entry[m].age > Timeout

-----------------------------------------------------------------------------
(* Its subscriptions.                                                       *)

Wanted ==
  CASE kind \in {"daemon", "console"} -> {"presence", "heartbeat"}
    [] kind = "list" -> {"presence"}
    [] kind = "run" -> {"heartbeat"}

\* The keys it subscribes to are those of all nodes or of its own.
Covers(m) == kind \in {"daemon", "console"} \/ m \in OwnNode

SubscribeTo(s) ==
  /\ s \in Wanted \ reads
  /\ reads' = reads \cup {s}
  /\ UNCHANGED <<kind, restarts, entry, stale, member, beats, wire, missed, met>>

\* A presence is published: to the observer, if it is subscribed. Nobody repeats it.
Publish(m, st) ==
  wire' = IF "presence" \in reads /\ Covers(m) THEN [wire EXCEPT ![m] = Append(@, st)] ELSE wire

Receive(m) ==
  /\ wire[m] # << >>
  /\ UpdatePresence(m, Head(wire[m]))
  /\ wire' = [wire EXCEPT ![m] = Tail(@)]
  /\ missed' = [missed EXCEPT ![m] = 0]
  /\ met' = IF Head(wire[m]) = "Online" THEN met \cup {m} ELSE met
  /\ UNCHANGED <<observer, stale, member, beats>>

Lose(m) ==
  /\ wire[m] # << >>
  /\ wire' = [wire EXCEPT ![m] = Tail(@)]
  /\ UNCHANGED <<observer, entry, stale, member, beats, missed, met>>

-----------------------------------------------------------------------------
(* The members.                                                             *)

\* Presence is published once, before the first beat.
Announce(m) ==
  /\ member[m] = "new"
  /\ member' = [member EXCEPT ![m] = "up"]
  /\ due' = due \cup ({m} \cap Beats)
  /\ Publish(m, "Online")
  /\ UNCHANGED <<observer, entry, stale, phase, missed, met>>

\* The heartbeat loop: a beat that the observer reads, if it subscribes to it...
BeatHeard(m) ==
  /\ m \in due /\ "heartbeat" \in reads /\ Covers(m)
  /\ due' = due \ {m}
  /\ UpdateHeartbeat(m)
  /\ missed' = [missed EXCEPT ![m] = 0]
  /\ UNCHANGED <<observer, stale, member, phase, wire, met>>

\* ...or a beat that fails, is lost, or is not for it.
BeatLost(m) ==
  /\ m \in due
  /\ due' = due \ {m}
  /\ missed' = [missed EXCEPT ![m] = IF @ < Timeout THEN @ + 1 ELSE @]
  /\ UNCHANGED <<observer, entry, stale, member, phase, wire, met>>

\* A process with a heartbeat loop ends without a word, a last beat still under way
\* or not; of a client of another daemon, that daemon publishes Offline if it still
\* lists it.
End(m) ==
  /\ member[m] = "up"
  /\ member' = [member EXCEPT ![m] = "gone"]
  /\ due' \in {due, due \ {m}}
  /\ UNCHANGED wire \/ (m \notin Beats /\ Publish(m, "Offline"))
  /\ UNCHANGED <<observer, entry, stale, phase, missed, met>>

-----------------------------------------------------------------------------
(* Time and cleanup.                                                        *)

Cleans == kind \in {"daemon", "run"}

Scan ==
  /\ Cleans /\ stale = {}
  /\ \E m \in Members : IsStale(m)
  /\ stale' = {m \in Members : IsStale(m)}
  /\ UNCHANGED <<observer, entry, member, beats, wire, missed, met>>

Evict(m) ==
  /\ m \in stale
  /\ stale' = stale \ {m}
  /\ entry' = [entry EXCEPT ![m] = Absent]
  /\ UNCHANGED <<observer, member, beats, wire, missed, met>>

\* The observer starts again, with nothing.
Restart ==
  /\ restarts < MaxReturns
  /\ restarts' = restarts + 1
  /\ reads' = {}
  /\ entry' = [m \in Members |-> Absent]
  /\ stale' = {}
  /\ wire' = [m \in Members |-> << >>]
  /\ met' = {}
  /\ UNCHANGED <<kind, member, beats, missed>>

Later(p) == IF p + 1 = Interval THEN 0 ELSE p + 1

\* Time goes on unless a beat is as late as it can be. Every Interval the next falls due.
Tick ==
  /\ \A m \in due : phase[m] < Delay
  /\ phase' = [m \in Members |->
       IF m \in due \/ (m \in Beats /\ member[m] = "up") THEN Later(phase[m]) ELSE phase[m]]
  /\ due' = due \cup {m \in Beats : member[m] = "up" /\ phase'[m] = 0}
  /\ entry' = [m \in Members |->
       IF Listed(m) /\ entry[m].age <= Timeout THEN [entry[m] EXCEPT !.age = @ + 1] ELSE entry[m]]
  /\ UNCHANGED <<observer, stale, member, wire, missed, met>>

-----------------------------------------------------------------------------

MemberStep(m) ==
  \/ Announce(m) \/ BeatHeard(m) \/ BeatLost(m) \/ End(m)
  \/ Receive(m) \/ Lose(m) \/ Evict(m)

MembershipNext ==
  \/ \E m \in Members : MemberStep(m)
  \/ \E s \in {"presence", "heartbeat"} : SubscribeTo(s)
  \/ Scan \/ Restart \/ Tick

\* Beats are sent, heard or not, what has arrived is read, cleanup runs.
MembershipFairness ==
  /\ \A m \in Members :
       /\ WF_membershipVars(BeatHeard(m) \/ BeatLost(m))
       /\ WF_membershipVars(Receive(m)) /\ WF_membershipVars(Evict(m))
  /\ WF_membershipVars(Scan) /\ WF_membershipVars(Tick)

MembershipSpec == MembershipInit /\ [][MembershipNext]_membershipVars /\ MembershipFairness

-----------------------------------------------------------------------------

\* A live member that beats is stale only if so many beats in a row have been lost
\* that the next, as late as it may be, comes after the threshold: with one every
\* ten seconds, thirty for the threshold and beats that are the least bit late, two.
\* No fewer do, in whatever order its presence, its beats and the cleanup come.
ToleratesLostBeats ==
  \A m \in Beats :
    member[m] = "up" /\ IsStale(m) => Interval * (missed[m] + 1) + Delay > Timeout

\* A member that has ended, with a word or without, is gone for good in the end
\* where there is a cleanup loop, however late its presence and last beat are read.
GoneMembersFade ==
  \A m \in Members : member[m] = "gone" /\ Cleans ~> []~Listed(m)

\* ROADMAP.md: "Wildcard subscriptions [...] so the daemon and console see ALL agents
\* across all nodes." An agent that is up, whose presence has been read and of whose
\* beats, if it has any, none has been lost since is listed.
SeesAllAgents ==
  kind \in {"daemon", "console"} =>
    \A m \in met : member[m] = "up" /\ missed[m] = 0 => Listed(m)
=============================================================================
