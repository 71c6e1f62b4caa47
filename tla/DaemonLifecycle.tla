---------------------------- MODULE DaemonLifecycle ----------------------------
(***************************************************************************)
(* The life of daemon processes that share one socket path: start          *)
(* (crates/twilight-daemon/src/daemon.rs, with the tunnel of process.rs    *)
(* and the listener of ipc.rs), shutdown, and the stop commands of the CLI *)
(* and the console, which find a daemon by its PID file.                   *)
(*                                                                         *)
(* A daemon here is one process: started at most once, its pid is itself.  *)
(* Nothing stops two of them from overlapping: a restart overlaps whenever *)
(* the old process takes time to stop its tunnel.                          *)
(***************************************************************************)
EXTENDS Naturals

CONSTANTS
  Daemons,     \* daemon processes, which are their pids
  Commands,    \* runs of `daemon stop`, of the CLI or the console
  UsesTunnel,  \* ziti.enabled on a client node
  None         \* no file, nobody

ASSUME LifecycleAssumption ==
  /\ UsesTunnel \in BOOLEAN
  /\ None \notin Daemons

VARIABLES
  proc,      \* proc[d]: where the main task of d is
  listener,  \* listener[d]: its IPC server task: none, spawned, unlinked, bound, failed
  tunnel,    \* tunnel[d]: its ziti child process: none, spawned, up, dead
  port,      \* whose tunnel listens on the local port
  pidFile,   \* the pid in the PID file
  sockFile,  \* the process that bound the socket file there is
  command,   \* command[c]: where a stop command is: new, read, sent, done
  aim,       \* aim[c]: the pid it has read
  killed,    \* history: processes that ended without their shutdown code
  met        \* history: processes that overlapped with another one, or with a
             \* stop command meant for another one

vars == <<proc, listener, tunnel, port, pidFile, sockFile, command, aim, killed, met>>

Starting == {"tunnel", "opening", "announcing", "ready"}
Running  == Starting \cup {"serving", "stopping", "cleaning", "exiting"}

Init ==
  /\ proc = [d \in Daemons |-> "none"]
  /\ listener = [d \in Daemons |-> "none"]
  /\ tunnel = [d \in Daemons |-> "none"]
  /\ port = None
  /\ pidFile = None
  /\ sockFile = None
  /\ command = [c \in Commands |-> "new"]
  /\ aim = [c \in Commands |-> None]
  /\ killed = {}
  /\ met = {}

Alive(d) == proc[d] \in Running
Busy(c)  == command[c] \in {"read", "sent"}

Others(d) == {e \in Daemons \ {d} : Alive(e)}

-----------------------------------------------------------------------------
(* The tunnel: a child of the daemon that wants the local port.             *)

\* kill: the child is gone, and the port if it was its own.
KillTunnel(d) ==
  /\ tunnel' = [tunnel EXCEPT ![d] = IF @ \in {"spawned", "up"} THEN "dead" ELSE @]
  /\ port' = IF port = d THEN None ELSE port

\* The child binds the port, or ends because another process has it.
TunnelBinds(d) ==
  /\ tunnel[d] = "spawned"
  /\ IF port = None
     THEN tunnel' = [tunnel EXCEPT ![d] = "up"] /\ port' = d
     ELSE tunnel' = [tunnel EXCEPT ![d] = "dead"] /\ port' = port
  /\ UNCHANGED <<proc, listener, pidFile, sockFile, command, aim, killed, met>>

-----------------------------------------------------------------------------
(* start, step by step.                                                     *)

\* `daemon start`, the console or systemd spawns the process; a client node
\* spawns its tunnel first.
Spawn(d) ==
  /\ proc[d] = "none"
  /\ IF UsesTunnel
     THEN /\ proc' = [proc EXCEPT ![d] = "tunnel"]
          /\ tunnel' = [tunnel EXCEPT ![d] = "spawned"]
     ELSE proc' = [proc EXCEPT ![d] = "opening"] /\ UNCHANGED tunnel
  /\ met' = IF Others(d) # {} \/ (\E c \in Commands : Busy(c))
            THEN met \cup {d} \cup Others(d) ELSE met
  /\ UNCHANGED <<listener, port, pidFile, sockFile, command, aim, killed>>

\* wait_port_ready: any process that accepts on the port will do.
PortReady(d) ==
  /\ proc[d] = "tunnel"
  /\ port # None
  /\ proc' = [proc EXCEPT ![d] = "opening"]
  /\ UNCHANGED <<listener, tunnel, port, pidFile, sockFile, command, aim, killed, met>>

\* Variant: the child outlives the daemon that gives up (no kill_on_drop).
GiveUp_keepsTunnel(d) ==
  /\ proc' = [proc EXCEPT ![d] = "gone"]
  /\ UNCHANGED <<listener, tunnel, port, pidFile, sockFile, command, aim, killed, met>>

\* start returns by a ?, main with it, and the child is killed on drop.
GiveUp(d) ==
  /\ proc' = [proc EXCEPT ![d] = "gone"]
  /\ KillTunnel(d)
  /\ UNCHANGED <<listener, pidFile, sockFile, command, aim, killed, met>>

PortTimeout(d) ==
  proc[d] = "tunnel" /\ port = None /\ GiveUp(d)

\* Variant: the PID file is written before the steps that can fail.
OpenBus_writesPid(d) ==
  /\ proc[d] = "opening"
  /\ proc' = [proc EXCEPT ![d] = "announcing"]
  /\ listener' = [listener EXCEPT ![d] = "spawned"]
  /\ pidFile' = d
  /\ UNCHANGED <<tunnel, port, sockFile, command, aim, killed, met>>

\* The bus is open and the tasks are spawned, the IPC server's among them.
OpenBus(d) ==
  /\ proc[d] = "opening"
  /\ proc' = [proc EXCEPT ![d] = "announcing"]
  /\ listener' = [listener EXCEPT ![d] = "spawned"]
  /\ UNCHANGED <<tunnel, port, pidFile, sockFile, command, aim, killed, met>>

\* The bus does not open, the own presence is not published, or the PID file
\* cannot be written.
FailStart(d) ==
  proc[d] \in {"opening", "announcing"} /\ GiveUp(d)

WritePid(d) ==
  /\ proc[d] = "announcing"
  /\ proc' = [proc EXCEPT ![d] = "ready"]
  /\ pidFile' = d
  /\ UNCHANGED <<listener, tunnel, port, sockFile, command, aim, killed, met>>

\* run_until_signal installs the handler only now.
HandleSignals(d) ==
  /\ proc[d] = "ready"
  /\ proc' = [proc EXCEPT ![d] = "serving"]
  /\ UNCHANGED <<listener, tunnel, port, pidFile, sockFile, command, aim, killed, met>>

-----------------------------------------------------------------------------
(* The IPC server task: it removes whatever file there is, then binds. An    *)
(* error of bind ends the task and nobody looks.                            *)

\* Variant: run leaves the file of a former process in place.
Unlink_keeps(d) ==
  /\ Alive(d) /\ listener[d] = "spawned"
  /\ listener' = [listener EXCEPT ![d] = "unlinked"]
  /\ UNCHANGED <<proc, tunnel, port, pidFile, sockFile, command, aim, killed, met>>

Unlink(d) ==
  /\ Alive(d) /\ listener[d] = "spawned"
  /\ listener' = [listener EXCEPT ![d] = "unlinked"]
  /\ sockFile' = None
  /\ UNCHANGED <<proc, tunnel, port, pidFile, command, aim, killed, met>>

Bind(d) ==
  /\ Alive(d) /\ listener[d] = "unlinked"
  /\ IF sockFile = None
     THEN listener' = [listener EXCEPT ![d] = "bound"] /\ sockFile' = d
     ELSE listener' = [listener EXCEPT ![d] = "failed"] /\ UNCHANGED sockFile
  /\ UNCHANGED <<proc, tunnel, port, pidFile, command, aim, killed, met>>

-----------------------------------------------------------------------------
(* The end of a process.                                                    *)

\* Without a handler for the signal, or by SIGKILL: no code of it runs, and its
\* child stays.
Die(d) ==
  /\ proc' = [proc EXCEPT ![d] = "gone"]
  /\ killed' = killed \cup {d}

\* What SIGTERM does depends on how far the process is.
Sigterm(d) ==
  \/ /\ proc[d] \in Starting
     /\ Die(d)
  \/ /\ proc[d] = "serving"
     /\ proc' = [proc EXCEPT ![d] = "stopping"]
     /\ UNCHANGED killed
  \/ /\ proc[d] \notin Starting \cup {"serving"}
     /\ UNCHANGED <<proc, killed>>

\* ctrl-C, or the service manager.
Interrupt(d) ==
  /\ proc[d] \in Starting \cup {"serving"}
  /\ Sigterm(d)
  /\ UNCHANGED <<listener, tunnel, port, pidFile, sockFile, command, aim, met>>

Crash(d) ==
  /\ Alive(d)
  /\ Die(d)
  /\ UNCHANGED <<listener, tunnel, port, pidFile, sockFile, command, aim, met>>

\* The tunnel is stopped, which takes until the child is gone...
StopTunnel(d) ==
  /\ proc[d] = "stopping"
  /\ proc' = [proc EXCEPT ![d] = "cleaning"]
  /\ KillTunnel(d)
  /\ UNCHANGED <<listener, pidFile, sockFile, command, aim, killed, met>>

\* Variant: the shutdown leaves the PID file to the stop command.
RemovePid_never(d) ==
  /\ proc[d] = "cleaning"
  /\ proc' = [proc EXCEPT ![d] = "exiting"]
  /\ UNCHANGED <<listener, tunnel, port, pidFile, sockFile, command, aim, killed, met>>

\* ...and then the PID file is removed, whoever's pid it holds by then.
RemovePid(d) ==
  /\ proc[d] = "cleaning"
  /\ proc' = [proc EXCEPT ![d] = "exiting"]
  /\ pidFile' = None
  /\ UNCHANGED <<listener, tunnel, port, sockFile, command, aim, killed, met>>

\* The socket file stays.
Exit(d) ==
  /\ proc[d] = "exiting"
  /\ proc' = [proc EXCEPT ![d] = "gone"]
  /\ UNCHANGED <<listener, tunnel, port, pidFile, sockFile, command, aim, killed, met>>

-----------------------------------------------------------------------------
(* daemon stop.                                                             *)

\* No PID file ends it.
StopRead(c) ==
  /\ command[c] = "new"
  /\ IF pidFile = None
     THEN command' = [command EXCEPT ![c] = "done"] /\ UNCHANGED <<aim, met>>
     ELSE /\ command' = [command EXCEPT ![c] = "read"]
          /\ aim' = [aim EXCEPT ![c] = pidFile]
          /\ met' = met \cup Others(pidFile)
  /\ UNCHANGED <<proc, listener, tunnel, port, pidFile, sockFile, killed>>

\* kill -TERM; that it fails is not looked at.
StopKill(c) ==
  /\ command[c] = "read"
  /\ command' = [command EXCEPT ![c] = "sent"]
  /\ Sigterm(aim[c])
  /\ UNCHANGED <<listener, tunnel, port, pidFile, sockFile, aim, met>>

StopRemove(c) ==
  /\ command[c] = "sent"
  /\ command' = [command EXCEPT ![c] = "done"]
  /\ pidFile' = None
  /\ UNCHANGED <<proc, listener, tunnel, port, sockFile, aim, killed, met>>

-----------------------------------------------------------------------------

StartStep(d) ==
  \/ Spawn(d) \/ PortReady(d) \/ PortTimeout(d) \/ OpenBus(d) \/ FailStart(d)
  \/ WritePid(d) \/ HandleSignals(d)

EndStep(d) ==
  \/ Interrupt(d) \/ Crash(d) \/ StopTunnel(d) \/ RemovePid(d) \/ Exit(d)

DaemonStep(d) ==
  \/ StartStep(d) \/ EndStep(d) \/ Unlink(d) \/ Bind(d) \/ TunnelBinds(d)

CommandStep(c) == StopRead(c) \/ StopKill(c) \/ StopRemove(c)

Next ==
  \/ \E d \in Daemons : DaemonStep(d)
  \/ \E c \in Commands : CommandStep(c)

\* A process that runs goes on. Nobody has to start, stop or crash one, and the
\* tunnel, which is not ours, may never bind.
Fairness ==
  \A d \in Daemons :
    /\ WF_vars(PortReady(d) \/ PortTimeout(d))
    /\ WF_vars(OpenBus(d)) /\ WF_vars(WritePid(d))
    /\ WF_vars(HandleSignals(d))
    /\ WF_vars(Unlink(d)) /\ WF_vars(Bind(d))
    /\ WF_vars(StopTunnel(d)) /\ WF_vars(RemovePid(d))
    /\ WF_vars(Exit(d))

Spec == Init /\ [][Next]_vars
FairSpec == Spec /\ Fairness

-----------------------------------------------------------------------------
(* Safety.                                                                  *)

\* A PID file that names a process that is gone was left by one that was killed:
\* no failed start and no shutdown leaves its own behind (daemon.rs, where the
\* PID file is written last of all and removed at the end).
StalePidMeansKilled ==
  \A d \in Daemons : pidFile = d /\ proc[d] = "gone" => d \in killed

\* A tunnel outlives its daemon only if that was killed: on the way up it is
\* killed on drop, on the way down it is stopped before the daemon goes.
TunnelGoesWithDaemon ==
  \A d \in Daemons : proc[d] = "gone" /\ tunnel[d] \in {"spawned", "up"} => d \in killed

\* Whatever files former processes left, a daemon that has met no other process
\* is found by its PID file and has the socket.
AloneIsFound ==
  \A d \in Daemons \ met :
    proc[d] = "serving" =>
      /\ pidFile = d
      /\ listener[d] # "failed"
      /\ listener[d] = "bound" => sockFile = d

-----------------------------------------------------------------------------
(* Liveness.                                                                *)

\* A start ends, with a daemon that serves or with none, whatever becomes of the
\* tunnel; and a daemon that has noticed its signal is gone in the end, its PID file
\* too unless it is killed on the way.
StartAndStopEnd ==
  \A d \in Daemons :
    /\ proc[d] \in Starting ~> proc[d] \notin Starting
    /\ proc[d] = "stopping" ~> proc[d] = "gone" /\ (pidFile # d \/ d \in killed)
=============================================================================
