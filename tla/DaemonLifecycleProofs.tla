------------------------- MODULE DaemonLifecycleProofs -------------------------
(***************************************************************************)
(* Proofs about DaemonLifecycle, for any number of processes and of stop   *)
(* commands: what a daemon leaves behind when it goes, and that one which  *)
(* meets no other is found.                                                *)
(***************************************************************************)
EXTENDS DaemonLifecycle, TLAPS

Processes == Running \cup {"none", "gone"}
Listeners == {"none", "spawned", "unlinked", "bound", "failed"}
Tunnels   == {"none", "spawned", "up", "dead"}
Stages    == {"new", "read", "sent", "done"}

TypeOK ==
  /\ proc \in [Daemons -> Processes]
  /\ listener \in [Daemons -> Listeners]
  /\ tunnel \in [Daemons -> Tunnels]
  /\ pidFile \in Daemons \cup {None}
  /\ command \in [Commands -> Stages]
  /\ aim \in [Commands -> Daemons \cup {None}]
  /\ \A c \in Commands : Busy(c) => aim[c] \in Daemons

-----------------------------------------------------------------------------
(* Types.                                                                    *)

LEMMA InitTypes == Init => TypeOK
BY LifecycleAssumption DEF Init, TypeOK, Processes, Listeners, Tunnels, Stages, Running, Busy

LEMMA StartTypes ==
  ASSUME TypeOK, NEW d \in Daemons, StartStep(d)
  PROVE  TypeOK'
<1>1. CASE Spawn(d)
  BY <1>1 DEF TypeOK, Spawn, Busy, Processes, Running, Starting, Tunnels
<1>2. CASE PortReady(d)
  BY <1>2 DEF TypeOK, PortReady, Busy, Processes, Running, Starting
<1>3. CASE PortTimeout(d) \/ FailStart(d)
  BY <1>3 DEF TypeOK, PortTimeout, FailStart, GiveUp, KillTunnel, Busy, Processes, Tunnels
<1>4. CASE OpenBus(d)
  BY <1>4 DEF TypeOK, OpenBus, Busy, Processes, Running, Starting, Listeners
<1>5. CASE WritePid(d) \/ HandleSignals(d)
  BY <1>5 DEF TypeOK, WritePid, HandleSignals, Busy, Processes, Running, Starting
<1> QED
  BY <1>1, <1>2, <1>3, <1>4, <1>5 DEF StartStep

LEMMA EndTypes ==
  ASSUME TypeOK, NEW d \in Daemons, EndStep(d)
  PROVE  TypeOK'
<1>1. CASE Interrupt(d) \/ Crash(d)
  BY <1>1 DEF TypeOK, Interrupt, Crash, Sigterm, Die, Busy, Processes, Running
<1>2. CASE StopTunnel(d)
  BY <1>2 DEF TypeOK, StopTunnel, KillTunnel, Busy, Processes, Running, Tunnels
<1>3. CASE RemovePid(d) \/ Exit(d)
  BY <1>3 DEF TypeOK, RemovePid, Exit, Busy, Processes, Running
<1> QED
  BY <1>1, <1>2, <1>3 DEF EndStep

LEMMA TaskTypes ==
  ASSUME TypeOK, NEW d \in Daemons, Unlink(d) \/ Bind(d) \/ TunnelBinds(d)
  PROVE  TypeOK'
BY DEF TypeOK, Unlink, Bind, TunnelBinds, Busy, Listeners, Tunnels

LEMMA CommandTypes ==
  ASSUME TypeOK, NEW c \in Commands, CommandStep(c)
  PROVE  TypeOK'
<1>1. CASE StopRead(c)
  BY <1>1 DEF TypeOK, StopRead, Busy, Stages
<1>2. CASE StopKill(c)
  <2>1. aim[c] \in Daemons
    BY <1>2 DEF TypeOK, StopKill, Busy
  <2>2. proc' \in [Daemons -> Processes]
    BY <1>2, <2>1 DEF TypeOK, StopKill, Sigterm, Die, Processes, Running
  <2> QED
    BY <1>2, <2>2 DEF TypeOK, StopKill, Busy, Stages
<1>3. CASE StopRemove(c)
  BY <1>3 DEF TypeOK, StopRemove, Busy, Stages
<1> QED
  BY <1>1, <1>2, <1>3 DEF CommandStep

LEMMA NextTypes == TypeOK /\ [Next]_vars => TypeOK'
<1> SUFFICES ASSUME TypeOK, [Next]_vars PROVE TypeOK'
  OBVIOUS
<1>1. CASE UNCHANGED vars
  BY <1>1 DEF vars, TypeOK, Busy
<1> QED
  BY <1>1, StartTypes, EndTypes, TaskTypes, CommandTypes DEF Next, DaemonStep

-----------------------------------------------------------------------------
(* Where a process may go, and how it ends.                                  *)

\* Where the main task of a daemon may go from where it is.
Onward(from, to) ==
  \/ to = from
  \/ from = "none" /\ to \in {"tunnel", "opening"}
  \/ from = "tunnel" /\ to = "opening"
  \/ from = "opening" /\ to = "announcing"
  \/ from = "announcing" /\ to = "ready"
  \/ from = "ready" /\ to = "serving"
  \/ from = "serving" /\ to = "stopping"
  \/ from = "stopping" /\ to = "cleaning"
  \/ from = "cleaning" /\ to = "exiting"
  \/ from \in Running /\ to = "gone"

LEMMA ProcStep ==
  ASSUME TypeOK, [Next]_vars, NEW d \in Daemons
  PROVE  Onward(proc[d], proc'[d])
<1>1. CASE UNCHANGED vars
  BY <1>1 DEF vars, Onward
<1>2. ASSUME NEW e \in Daemons, StartStep(e)
      PROVE  Onward(proc[d], proc'[d])
  <2>1. CASE Spawn(e) \/ PortReady(e) \/ PortTimeout(e)
    BY <1>2, <2>1 DEF TypeOK, Spawn, PortReady, PortTimeout, GiveUp, Onward, Running, Starting
  <2>2. CASE OpenBus(e) \/ FailStart(e) \/ WritePid(e) \/ HandleSignals(e)
    BY <1>2, <2>2 DEF TypeOK, OpenBus, FailStart, GiveUp, WritePid, HandleSignals, Onward,
                      Running, Starting
  <2> QED
    BY <1>2, <2>1, <2>2 DEF StartStep
<1>3. ASSUME NEW e \in Daemons, EndStep(e)
      PROVE  Onward(proc[d], proc'[d])
  <2>1. CASE Interrupt(e) \/ Crash(e)
    BY <1>3, <2>1 DEF TypeOK, Interrupt, Crash, Sigterm, Die, Alive, Onward, Running, Starting
  <2>2. CASE StopTunnel(e) \/ RemovePid(e) \/ Exit(e)
    BY <1>3, <2>2 DEF TypeOK, StopTunnel, RemovePid, Exit, Onward, Running, Starting
  <2> QED
    BY <1>3, <2>1, <2>2 DEF EndStep
<1>4. ASSUME NEW e \in Daemons, Unlink(e) \/ Bind(e) \/ TunnelBinds(e)
      PROVE  Onward(proc[d], proc'[d])
  BY <1>4 DEF Unlink, Bind, TunnelBinds, Onward
<1>5. ASSUME NEW c \in Commands, CommandStep(c)
      PROVE  Onward(proc[d], proc'[d])
  <2>1. CASE StopKill(c)
    BY <2>1 DEF TypeOK, StopKill, Sigterm, Die, Onward, Running, Starting
  <2>2. CASE StopRead(c) \/ StopRemove(c)
    BY <2>2 DEF StopRead, StopRemove, Onward
  <2> QED
    BY <1>5, <2>1, <2>2 DEF CommandStep
<1> QED
  BY <1>1, <1>2, <1>3, <1>4, <1>5 DEF Next, DaemonStep

\* Who is killed: one that was alive, which is gone now.
LEMMA KilledStep ==
  ASSUME TypeOK, [Next]_vars, NEW d \in Daemons
  PROVE  /\ d \in killed => d \in killed'
         /\ d \in killed' => d \in killed \/ proc'[d] = "gone"
<1>1. CASE UNCHANGED vars
  BY <1>1 DEF vars
<1>2. ASSUME NEW e \in Daemons, StartStep(e)
      PROVE  killed' = killed
  BY <1>2 DEF StartStep, Spawn, PortReady, PortTimeout, OpenBus, FailStart, GiveUp, WritePid,
              HandleSignals
<1>3. ASSUME NEW e \in Daemons, EndStep(e)
      PROVE  /\ d \in killed => d \in killed'
             /\ d \in killed' => d \in killed \/ proc'[d] = "gone"
  BY <1>3 DEF TypeOK, EndStep, Interrupt, Crash, Sigterm, Die, StopTunnel, RemovePid, Exit
<1>4. ASSUME NEW e \in Daemons, Unlink(e) \/ Bind(e) \/ TunnelBinds(e)
      PROVE  killed' = killed
  BY <1>4 DEF Unlink, Bind, TunnelBinds
<1>5. ASSUME NEW c \in Commands, CommandStep(c)
      PROVE  /\ d \in killed => d \in killed'
             /\ d \in killed' => d \in killed \/ proc'[d] = "gone"
  BY <1>5 DEF TypeOK, CommandStep, StopRead, StopKill, StopRemove, Sigterm, Die
<1> QED
  BY <1>1, <1>2, <1>3, <1>4, <1>5 DEF Next, DaemonStep

Live == {"spawned", "up"}

\* How a daemon goes: killed, or by a failed start that ends its tunnel, or by the
\* shutdown, which ends the tunnel first and then removes the PID file.
LEMMA GoingStep ==
  ASSUME TypeOK, [Next]_vars, NEW d \in Daemons
  PROVE  /\ proc'[d] = "gone" => \/ proc[d] \in {"gone", "exiting"}
                                 \/ d \in killed'
                                 \/ /\ proc[d] \in {"tunnel", "opening", "announcing"}
                                    /\ tunnel'[d] \notin Live
         /\ proc'[d] = "cleaning" => proc[d] = "cleaning" \/ tunnel'[d] \notin Live
         /\ proc'[d] = "exiting" => proc[d] = "exiting" \/ pidFile' = None
<1>1. CASE UNCHANGED vars
  BY <1>1 DEF vars
<1>2. ASSUME NEW e \in Daemons, StartStep(e)
      PROVE  /\ proc'[d] = "gone" =>
                  \/ proc[d] = "gone"
                  \/ /\ proc[d] \in {"tunnel", "opening", "announcing"}
                     /\ tunnel'[d] \notin Live
             /\ proc'[d] \in {"cleaning", "exiting"} => proc'[d] = proc[d]
  <2>1. CASE PortTimeout(e) \/ FailStart(e)
    BY <1>2, <2>1 DEF TypeOK, PortTimeout, FailStart, GiveUp, KillTunnel, Live, Tunnels
  <2>2. CASE Spawn(e) \/ PortReady(e) \/ OpenBus(e)
    BY <1>2, <2>2 DEF TypeOK, Spawn, PortReady, OpenBus
  <2>3. CASE WritePid(e) \/ HandleSignals(e)
    BY <1>2, <2>3 DEF TypeOK, WritePid, HandleSignals
  <2> QED
    BY <1>2, <2>1, <2>2, <2>3 DEF StartStep
<1>3. ASSUME NEW e \in Daemons, EndStep(e)
      PROVE  /\ proc'[d] = "gone" => proc[d] \in {"gone", "exiting"} \/ d \in killed'
             /\ proc'[d] = "cleaning" => proc[d] = "cleaning" \/ tunnel'[d] \notin Live
             /\ proc'[d] = "exiting" => proc[d] = "exiting" \/ pidFile' = None
  <2>1. CASE Interrupt(e) \/ Crash(e)
    BY <1>3, <2>1 DEF TypeOK, Interrupt, Crash, Sigterm, Die, Alive
  <2>2. CASE StopTunnel(e)
    BY <1>3, <2>2 DEF TypeOK, StopTunnel, KillTunnel, Live, Tunnels
  <2>3. CASE RemovePid(e) \/ Exit(e)
    BY <1>3, <2>3 DEF TypeOK, RemovePid, Exit
  <2> QED
    BY <1>3, <2>1, <2>2, <2>3 DEF EndStep
<1>4. ASSUME NEW e \in Daemons, Unlink(e) \/ Bind(e) \/ TunnelBinds(e)
      PROVE  proc'[d] = proc[d]
  BY <1>4 DEF Unlink, Bind, TunnelBinds
<1>5. ASSUME NEW c \in Commands, CommandStep(c)
      PROVE  /\ proc'[d] = "gone" => proc[d] = "gone" \/ d \in killed'
             /\ proc'[d] \in {"cleaning", "exiting"} => proc'[d] = proc[d]
  BY <1>5 DEF TypeOK, CommandStep, StopRead, StopKill, StopRemove, Sigterm, Die
<1> QED
  BY <1>1, <1>2, <1>3, <1>4, <1>5 DEF Next, DaemonStep

\* A tunnel is there only since the daemon was spawned.
LEMMA TunnelStep ==
  ASSUME TypeOK, [Next]_vars, NEW d \in Daemons, tunnel'[d] \in Live
  PROVE  tunnel[d] \in Live \/ proc'[d] = "tunnel"
<1>1. CASE UNCHANGED vars
  BY <1>1 DEF vars
<1>2. ASSUME NEW e \in Daemons, StartStep(e)
      PROVE  tunnel[d] \in Live \/ proc'[d] = "tunnel"
  BY <1>2 DEF TypeOK, StartStep, Spawn, PortReady, PortTimeout, OpenBus, FailStart, GiveUp,
              KillTunnel, WritePid, HandleSignals, Live
<1>3. ASSUME NEW e \in Daemons, EndStep(e)
      PROVE  tunnel[d] \in Live
  BY <1>3 DEF TypeOK, EndStep, Interrupt, Crash, StopTunnel, KillTunnel, RemovePid, Exit, Live
<1>4. ASSUME NEW e \in Daemons, Unlink(e) \/ Bind(e) \/ TunnelBinds(e)
      PROVE  tunnel[d] \in Live
  BY <1>4 DEF TypeOK, Unlink, Bind, TunnelBinds, Live
<1>5. ASSUME NEW c \in Commands, CommandStep(c)
      PROVE  tunnel[d] \in Live
  BY <1>5 DEF CommandStep, StopRead, StopKill, StopRemove, Live
<1> QED
  BY <1>1, <1>2, <1>3, <1>4, <1>5 DEF Next, DaemonStep

\* Who writes the PID file, and who removes or replaces what is in it.
LEMMA PidFileStep ==
  ASSUME TypeOK, [Next]_vars, NEW d \in Daemons
  PROVE  /\ pidFile' = d => pidFile = d \/ proc'[d] = "ready"
         /\ proc'[d] = "ready" => proc[d] = "ready" \/ pidFile' = d
         /\ pidFile = d => \/ pidFile' = d
                           \/ \E e \in Daemons : proc[e] \in {"announcing", "cleaning"}
                           \/ \E c \in Commands : command[c] = "sent"
<1>1. CASE UNCHANGED vars
  BY <1>1 DEF vars
<1>2. ASSUME NEW e \in Daemons, StartStep(e)
      PROVE  /\ pidFile' = d => pidFile = d \/ proc'[d] = "ready"
             /\ proc'[d] = "ready" => proc[d] = "ready" \/ pidFile' = d
             /\ pidFile = d => pidFile' = d \/ proc[e] = "announcing"
  <2>1. CASE WritePid(e)
    BY <1>2, <2>1, LifecycleAssumption DEF TypeOK, WritePid
  <2>2. CASE Spawn(e) \/ PortReady(e) \/ PortTimeout(e)
    BY <1>2, <2>2 DEF TypeOK, Spawn, PortReady, PortTimeout, GiveUp
  <2>3. CASE OpenBus(e) \/ FailStart(e) \/ HandleSignals(e)
    BY <1>2, <2>3 DEF TypeOK, OpenBus, FailStart, GiveUp, HandleSignals
  <2> QED
    BY <1>2, <2>1, <2>2, <2>3 DEF StartStep
<1>3. ASSUME NEW e \in Daemons, EndStep(e)
      PROVE  /\ pidFile' = d => pidFile = d
             /\ proc'[d] = "ready" => proc[d] = "ready"
             /\ pidFile = d => pidFile' = d \/ proc[e] = "cleaning"
  BY <1>3, LifecycleAssumption DEF TypeOK, EndStep, Interrupt, Crash, Sigterm, Die, StopTunnel,
              RemovePid, Exit
<1>4. ASSUME NEW e \in Daemons, Unlink(e) \/ Bind(e) \/ TunnelBinds(e)
      PROVE  pidFile' = pidFile /\ proc' = proc
  BY <1>4 DEF Unlink, Bind, TunnelBinds
<1>5. ASSUME NEW c \in Commands, CommandStep(c)
      PROVE  /\ pidFile' = d => pidFile = d
             /\ proc'[d] = "ready" => proc[d] = "ready"
             /\ pidFile = d => pidFile' = d \/ command[c] = "sent"
  BY <1>5, LifecycleAssumption DEF TypeOK, CommandStep, StopRead, StopKill, StopRemove, Sigterm, Die
<1> QED
  BY <1>1, <1>2, <1>3, <1>4, <1>5 DEF Next, DaemonStep

-----------------------------------------------------------------------------
(* What a daemon leaves behind.                                              *)

\* The PID file names a process that has come as far as to write it and has not
\* removed it yet, or one that was killed; the tunnel is that of a process that has
\* not stopped it yet, or of one that was killed.
LeftByKilled ==
  \A d \in Daemons :
    /\ d \in killed => proc[d] = "gone"
    /\ pidFile = d => proc[d] \in {"ready", "serving", "stopping", "cleaning"} \/ d \in killed
    /\ tunnel[d] \in Live => proc[d] \in Starting \cup {"serving", "stopping"} \/ d \in killed

LEMMA LeftByKilledStep ==
  ASSUME TypeOK, LeftByKilled, [Next]_vars
  PROVE  LeftByKilled'
<1> SUFFICES ASSUME NEW d \in Daemons
             PROVE  /\ d \in killed' => proc'[d] = "gone"
                    /\ pidFile' = d =>
                         proc'[d] \in {"ready", "serving", "stopping", "cleaning"} \/ d \in killed'
                    /\ tunnel'[d] \in Live =>
                         proc'[d] \in Starting \cup {"serving", "stopping"} \/ d \in killed'
  BY DEF LeftByKilled
<1>1. Onward(proc[d], proc'[d])
  BY ProcStep
<1>2. d \in killed' => proc'[d] = "gone"
  BY <1>1, KilledStep DEF LeftByKilled, Onward, Running, Starting
<1>3. ASSUME pidFile' = d
      PROVE  proc'[d] \in {"ready", "serving", "stopping", "cleaning"} \/ d \in killed'
  <2>1. pidFile' # None
    BY <1>3, LifecycleAssumption
  <2>2. CASE proc'[d] = "ready"
    BY <2>2
  <2>3. CASE pidFile = d
    BY <2>1, <2>3, <1>1, GoingStep, KilledStep DEF LeftByKilled, Onward, Running, Starting
  <2> QED
    BY <1>3, <2>2, <2>3, PidFileStep
<1>4. ASSUME tunnel'[d] \in Live
      PROVE  proc'[d] \in Starting \cup {"serving", "stopping"} \/ d \in killed'
  <2>1. CASE proc'[d] = "tunnel"
    BY <2>1 DEF Starting
  <2>2. CASE tunnel[d] \in Live
    BY <1>4, <2>2, <1>1, GoingStep, KilledStep DEF LeftByKilled, Onward, Running, Starting
  <2> QED
    BY <1>4, <2>1, <2>2, TunnelStep
<1> QED
  BY <1>2, <1>3, <1>4

-----------------------------------------------------------------------------
(* Stop commands.                                                            *)

\* A command aims at a process that has run, and once it has sent its signal that
\* process has heard it or is gone.
AimIsTrue ==
  \A c \in Commands, d \in Daemons :
    aim[c] = d =>
      /\ Busy(c) => proc[d] # "none"
      /\ command[c] = "sent" => proc[d] \notin Starting \cup {"none", "serving"}

\* Whence a command that is busy has its aim.
LEMMA CommandMoves ==
  ASSUME TypeOK, [Next]_vars, NEW c \in Commands, Busy(c)'
  PROVE  \/ Busy(c) /\ aim'[c] = aim[c] /\ command'[c] = command[c]
         \/ /\ aim'[c] = pidFile /\ pidFile \in Daemons
            /\ command'[c] = "read"
            /\ proc' = proc /\ met' = met \cup Others(pidFile)
         \/ /\ Busy(c) /\ aim'[c] = aim[c] /\ aim[c] \in Daemons
            /\ proc'[aim[c]] \notin Starting \cup {"serving"}
<1>1. CASE UNCHANGED vars
  BY <1>1 DEF vars, Busy
<1>2. ASSUME NEW d \in Daemons, DaemonStep(d)
      PROVE  command' = command /\ aim' = aim
  <2>1. CASE StartStep(d)
    BY <2>1 DEF StartStep, Spawn, PortReady, PortTimeout, OpenBus, FailStart, GiveUp, WritePid,
                HandleSignals
  <2>2. CASE EndStep(d)
    BY <2>2 DEF EndStep, Interrupt, Crash, StopTunnel, RemovePid, Exit
  <2>3. CASE Unlink(d) \/ Bind(d) \/ TunnelBinds(d)
    BY <2>3 DEF Unlink, Bind, TunnelBinds
  <2> QED
    BY <1>2, <2>1, <2>2, <2>3 DEF DaemonStep
<1>3. ASSUME NEW b \in Commands, StopRead(b), b = c
      PROVE  /\ aim'[c] = pidFile /\ pidFile \in Daemons
             /\ command'[c] = "read"
             /\ proc' = proc /\ met' = met \cup Others(pidFile)
  BY <1>3 DEF TypeOK, StopRead, Busy
<1>4. ASSUME NEW b \in Commands, StopKill(b), b = c
      PROVE  /\ Busy(c) /\ aim'[c] = aim[c] /\ aim[c] \in Daemons
             /\ proc'[aim[c]] \notin Starting \cup {"serving"}
  BY <1>4 DEF TypeOK, StopKill, Busy, Sigterm, Die, Starting
<1>5. ASSUME NEW b \in Commands, CommandStep(b), b # c
      PROVE  Busy(c) /\ aim'[c] = aim[c] /\ command'[c] = command[c]
  BY <1>5 DEF TypeOK, CommandStep, StopRead, StopKill, StopRemove, Busy
<1>6. ASSUME NEW b \in Commands, StopRemove(b), b = c
      PROVE  FALSE
  BY <1>6 DEF TypeOK, StopRemove, Busy
<1> QED
  BY <1>1, <1>2, <1>3, <1>4, <1>5, <1>6 DEF Next, CommandStep, Busy

LEMMA AimIsTrueStep ==
  ASSUME TypeOK, LeftByKilled, AimIsTrue, [Next]_vars
  PROVE  AimIsTrue'
<1> SUFFICES ASSUME NEW c \in Commands, NEW d \in Daemons, aim'[c] = d, Busy(c)'
             PROVE  /\ proc'[d] # "none"
                    /\ command'[c] = "sent" => proc'[d] \notin Starting \cup {"none", "serving"}
  BY DEF AimIsTrue, Busy
<1>1. Onward(proc[d], proc'[d])
  BY ProcStep
<1>2. CASE Busy(c) /\ aim'[c] = aim[c] /\ command'[c] = command[c]
  BY <1>1, <1>2 DEF AimIsTrue, Onward, Starting, Running
<1>3. CASE aim'[c] = pidFile /\ command'[c] = "read" /\ proc' = proc
  BY <1>3 DEF LeftByKilled
<1>4. CASE /\ Busy(c) /\ aim'[c] = aim[c]
           /\ proc'[aim[c]] \notin Starting \cup {"serving"}
  BY <1>1, <1>4 DEF AimIsTrue, Onward, Starting, Running
<1> QED
  BY <1>2, <1>3, <1>4, CommandMoves

-----------------------------------------------------------------------------
(* A daemon that has met no other.                                           *)

\* It is the one process there is and the one any command aims at; it has its PID
\* in the file once it is ready, and its socket wherever its listener has got to.
Alone(d) ==
  /\ Others(d) = {}
  /\ \A c \in Commands : Busy(c) => aim[c] = d
  /\ proc[d] \in {"ready", "serving"} => pidFile = d
  /\ listener[d] # "failed"
  /\ listener[d] = "unlinked" => sockFile = None
  /\ listener[d] = "bound" => sockFile = d

UnmetIsAlone ==
  /\ \A d \in Daemons : proc[d] = "none" => listener[d] = "none"
  /\ \A d \in Daemons \ met : Alive(d) => Alone(d)

LEMMA SpawnMeets ==
  ASSUME TypeOK, [Next]_vars, NEW d \in Daemons, proc[d] = "none", proc'[d] # "none"
  PROVE  /\ listener' = listener
         /\ \/ Others(d) \cup {d} \subseteq met'
            \/ Others(d) = {} /\ (\A c \in Commands : ~Busy(c)) /\ command' = command
         /\ \A e \in Daemons \ {d} : proc'[e] = proc[e]
<1>1. ~UNCHANGED vars
  BY DEF vars
<1>2. ASSUME NEW e \in Daemons, StartStep(e)
      PROVE  Spawn(d)
  BY <1>2 DEF TypeOK, StartStep, Spawn, PortReady, PortTimeout, OpenBus, FailStart, GiveUp,
              WritePid, HandleSignals
<1>3. ASSUME NEW e \in Daemons, EndStep(e)
      PROVE  FALSE
  BY <1>3 DEF TypeOK, EndStep, Interrupt, Crash, Sigterm, Die, Alive, StopTunnel, RemovePid, Exit,
              Starting, Running
<1>4. ASSUME NEW e \in Daemons, Unlink(e) \/ Bind(e) \/ TunnelBinds(e)
      PROVE  FALSE
  BY <1>4 DEF Unlink, Bind, TunnelBinds
<1>5. ASSUME NEW c \in Commands, CommandStep(c)
      PROVE  proc' = proc \/ \E e \in Daemons : proc[e] # "none" /\ proc' = [proc EXCEPT ![e] = proc'[e]]
  BY <1>5 DEF TypeOK, CommandStep, StopRead, StopKill, StopRemove, Sigterm, Die, Starting, Busy
<1> QED
  BY <1>1, <1>2, <1>3, <1>4, <1>5 DEF Next, DaemonStep, Spawn, TypeOK

LEMMA MetStep ==
  ASSUME TypeOK, [Next]_vars
  PROVE  met \subseteq met'
<1>1. CASE UNCHANGED vars
  BY <1>1 DEF vars
<1>2. ASSUME NEW d \in Daemons, DaemonStep(d)
      PROVE  met \subseteq met'
  BY <1>2 DEF DaemonStep, StartStep, Spawn, PortReady, PortTimeout, OpenBus, FailStart, GiveUp,
              WritePid, HandleSignals, EndStep, Interrupt, Crash, StopTunnel, RemovePid, Exit,
              Unlink, Bind, TunnelBinds
<1>3. ASSUME NEW c \in Commands, CommandStep(c)
      PROVE  met \subseteq met'
  BY <1>3 DEF CommandStep, StopRead, StopKill, StopRemove
<1> QED
  BY <1>1, <1>2, <1>3 DEF Next

\* The listener of a daemon and the socket file, which only a process that is alive
\* touches.
LEMMA ListenerStep ==
  ASSUME TypeOK, [Next]_vars, NEW d \in Daemons
  PROVE  \/ /\ listener'[d] = listener[d]
            /\ sockFile' = sockFile \/ Others(d) # {}
         \/ Alive(d) /\ listener'[d] = "spawned"
         \/ Alive(d) /\ listener'[d] = "unlinked" /\ sockFile' = None
         \/ /\ Alive(d) /\ listener[d] = "unlinked"
            /\ \/ sockFile # None
               \/ listener'[d] = "bound" /\ sockFile' = d
<1>1. CASE UNCHANGED vars
  BY <1>1 DEF vars
<1>2. ASSUME NEW e \in Daemons, StartStep(e)
      PROVE  /\ listener'[d] = listener[d] \/ (Alive(d) /\ listener'[d] = "spawned")
             /\ sockFile' = sockFile
  BY <1>2 DEF TypeOK, StartStep, Spawn, PortReady, PortTimeout, OpenBus, FailStart, GiveUp,
              WritePid, HandleSignals, Alive, Starting, Running
<1>3. ASSUME NEW e \in Daemons, EndStep(e) \/ TunnelBinds(e)
      PROVE  listener' = listener /\ sockFile' = sockFile
  BY <1>3 DEF EndStep, Interrupt, Crash, StopTunnel, RemovePid, Exit, TunnelBinds
<1>4. ASSUME NEW e \in Daemons \ {d}, Unlink(e) \/ Bind(e)
      PROVE  listener'[d] = listener[d] /\ Others(d) # {}
  <2>1. e \in Others(d)
    BY <1>4 DEF Unlink, Bind, Others
  <2> QED
    BY <1>4, <2>1 DEF TypeOK, Unlink, Bind
<1>5. CASE Unlink(d)
  BY <1>5 DEF TypeOK, Unlink
<1>6. CASE Bind(d)
  BY <1>6 DEF TypeOK, Bind
<1>7. ASSUME NEW c \in Commands, CommandStep(c)
      PROVE  listener' = listener /\ sockFile' = sockFile
  BY <1>7 DEF CommandStep, StopRead, StopKill, StopRemove
<1> QED
  BY <1>1, <1>2, <1>3, <1>4, <1>5, <1>6, <1>7 DEF Next, DaemonStep

LEMMA UnmetIsAloneStep ==
  ASSUME TypeOK, LeftByKilled, AimIsTrue, UnmetIsAlone, [Next]_vars
  PROVE  UnmetIsAlone'
<1> USE DEF UnmetIsAlone
<1>1. ASSUME NEW d \in Daemons, proc'[d] = "none"
      PROVE  listener'[d] = "none"
  <2>1. proc[d] = "none"
    BY <1>1, ProcStep DEF Onward, Running, Starting
  <2> QED
    BY <2>1, ListenerStep DEF Alive, Running, Starting
<1>2. ASSUME NEW d \in Daemons, d \notin met', Alive(d)'
      PROVE  Alone(d)'
  <2>1. d \notin met
    BY <1>2, MetStep
  <2>2. proc'[d] \in Running
    BY <1>2 DEF Alive
  <2>3. CASE proc[d] = "none"
    <3>1. /\ Others(d) = {} /\ (\A c \in Commands : ~Busy(c)) /\ command' = command
          /\ \A e \in Daemons \ {d} : proc'[e] = proc[e]
          /\ listener'[d] = "none"
      BY <1>2, <2>2, <2>3, SpawnMeets DEF Running, Starting
    <3>2. proc'[d] \notin {"ready", "serving"}
      BY <2>3, ProcStep DEF Onward, Running, Starting
    <3>3. Others(d)' = {}
      BY <3>1 DEF Others, Alive
    <3>4. \A c \in Commands : ~Busy(c)'
      BY <3>1 DEF Busy
    <3> QED
      BY <3>1, <3>2, <3>3, <3>4 DEF Alone
  <2>4. CASE proc[d] # "none"
    <3>1. Alive(d)
      BY <2>2, <2>4, ProcStep DEF Onward, Alive, Running, Starting
    <3>2. Alone(d)
      BY <2>1, <3>1
    <3>3. Others(d)' = {}
      <4>1. SUFFICES ASSUME NEW e \in Daemons \ {d}, Alive(e)'
                     PROVE  FALSE
        BY DEF Others
      <4>2. ~Alive(e)
        BY <3>2 DEF Alone, Others
      <4>3. proc[e] = "none" /\ proc'[e] # "none"
        BY <4>1, <4>2, ProcStep DEF Onward, Alive, Running, Starting
      <4>4. d \in Others(e)
        BY <3>1 DEF Others
      <4> QED
        BY <1>2, <4>3, <4>4, SpawnMeets
    <3>4. ASSUME NEW c \in Commands, Busy(c)'
          PROVE  aim'[c] = d
      <4>1. CASE Busy(c) /\ aim'[c] = aim[c]
        BY <3>2, <4>1 DEF Alone
      <4>2. CASE aim'[c] = pidFile /\ pidFile \in Daemons /\ met' = met \cup Others(pidFile)
        BY <1>2, <3>1, <4>2 DEF Others
      <4> QED
        BY <3>4, <4>1, <4>2, CommandMoves
    <3>5. ASSUME proc'[d] \in {"ready", "serving"}
          PROVE  pidFile' = d
      <4>1. CASE proc[d] \notin {"ready", "serving"}
        BY <3>5, <4>1, ProcStep, PidFileStep DEF Onward, Running, Starting
      <4>2. CASE proc[d] \in {"ready", "serving"}
        <5>1. pidFile = d
          BY <3>2, <4>2 DEF Alone
        <5>2. ASSUME NEW e \in Daemons, proc[e] \in {"announcing", "cleaning"}
              PROVE  FALSE
          BY <3>2, <4>2, <5>2 DEF Alone, Others, Alive, Running, Starting
        <5>3. ASSUME NEW c \in Commands, command[c] = "sent"
              PROVE  FALSE
          BY <3>2, <4>2, <5>3 DEF Alone, Busy, AimIsTrue, Starting
        <5> QED
          BY <5>1, <5>2, <5>3, PidFileStep
      <4> QED
        BY <4>1, <4>2
    <3>6. /\ listener'[d] # "failed"
          /\ listener'[d] = "unlinked" => sockFile' = None
          /\ listener'[d] = "bound" => sockFile' = d
      BY <3>2, ListenerStep DEF Alone
    <3> QED
      BY <3>3, <3>4, <3>5, <3>6 DEF Alone
  <2> QED
    BY <2>3, <2>4
<1> QED
  BY <1>1, <1>2

-----------------------------------------------------------------------------
(* The theorems.                                                             *)

\* The inductive invariant: the types, what only a kill leaves behind, what a stop
\* command knows, and the daemon on its own.
IInv == TypeOK /\ LeftByKilled /\ AimIsTrue /\ UnmetIsAlone

LEMMA InitIInv == Init => IInv
<1> SUFFICES ASSUME Init PROVE IInv
  OBVIOUS
<1>1. TypeOK
  BY InitTypes
<1>2. LeftByKilled
  BY LifecycleAssumption DEF Init, LeftByKilled, Live
<1>3. AimIsTrue
  BY LifecycleAssumption DEF Init, AimIsTrue
<1>4. UnmetIsAlone
  BY DEF Init, UnmetIsAlone, Alive, Running, Starting
<1> QED
  BY <1>1, <1>2, <1>3, <1>4 DEF IInv

LEMMA NextIInv == IInv /\ [Next]_vars => IInv'
BY NextTypes, LeftByKilledStep, AimIsTrueStep, UnmetIsAloneStep DEF IInv

\* However daemons and stop commands overlap, a PID file that names a process that
\* is gone was left by one that was killed: a failed start writes none, a shutdown
\* removes its own.
THEOREM StalePidsAreOfTheKilled == Spec => []StalePidMeansKilled
<1>1. IInv => StalePidMeansKilled
  BY DEF IInv, LeftByKilled, StalePidMeansKilled
<1> QED
  BY <1>1, InitIInv, NextIInv, PTL DEF Spec

\* A daemon that is not killed takes its tunnel with it, at whatever point of its
\* start or shutdown it ends.
THEOREM TunnelsGoWithTheirDaemons == Spec => []TunnelGoesWithDaemon
<1>1. IInv => TunnelGoesWithDaemon
  BY DEF IInv, LeftByKilled, TunnelGoesWithDaemon, Live, Starting
<1> QED
  BY <1>1, InitIInv, NextIInv, PTL DEF Spec

\* A daemon that has met no other process and no command meant for another is found
\* by its PID file, and its socket is its own, whatever files were there before.
THEOREM LoneDaemonsAreFound == Spec => []AloneIsFound
<1>1. IInv => AloneIsFound
  BY DEF IInv, UnmetIsAlone, Alone, AloneIsFound, Alive, Running
<1> QED
  BY <1>1, InitIInv, NextIInv, PTL DEF Spec

=============================================================================
