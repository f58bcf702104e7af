------------------------------- MODULE Tunnel -------------------------------
(***************************************************************************)
(* Service supervision: spawn_service, stop_pidfile and is_running of       *)
(* src/supervisor.rs, the tunnel starts of src/cloudflared.rs and           *)
(* src/ngrok.rs built on them, and the simpler services of src/services/.   *)
(* Operators are processes that start or stop the tunnel (or service); all  *)
(* they share is a pid file, an append-only log and the file                *)
(* public_base_url.txt.  Tunnels are child processes that print             *)
(* their URL to the log, may ignore SIGTERM, may die at any time, and stay  *)
(* as zombies, which count as running, while the operator that started them *)
(* lives.  A free pid may be taken by a process that is no tunnel.          *)
(* Reading the pid file and looking up the pid it names are one step.       *)
(***************************************************************************)
EXTENDS Integers, Sequences, FiniteSets

CONSTANTS Operators,   \* the operators, numbers: each runs one command, in this order
          Casts,       \* who may be asked what of which service: [service, commands, limit],
                       \* where limit bounds how many commands run at the same time
          MaxPid,      \* bound: pids in use at the same time
          MaxTunnels   \* bound: tunnels started

ASSUME TunnelAssumption ==
    /\ Operators \subseteq Nat \ {0}
    /\ MaxPid \in Nat \ {0} /\ MaxTunnels \in Nat
    /\ \A c \in Casts :
         /\ c.service \in {"cloudflared", "ngrok", "process"}
         /\ c.commands \in [Operators -> SUBSET {"start", "restart", "stop"}] /\ c.limit \in Nat \ {0}
         /\ c.service = "process" => \A o \in Operators : "restart" \notin c.commands[o]

Pids == 1..MaxPid
Absent == 0       \* no pid file, or no URL file
Empty == -1       \* fs::write has truncated the file and not yet written it

(* What a pid stands for; a tunnel is identified by the URL it was given.   *)
Tunnels == 1..MaxTunnels
Process == [kind : {"free", "foreign"}, url : {0}, parent : {0}]
           \cup [kind : {"tunnel", "zombie"}, url : Tunnels, parent : Operators]
Free == [kind |-> "free", url |-> 0, parent |-> 0]

VARIABLES cast,      \* the commands of this behaviour
          proc,      \* the process table
          killed,    \* pids that were sent SIGKILL, or the signal of src/services/
          pidfile, log, urlfile,
          started,   \* tunnels started so far
          place, cmd,   \* each operator: where it is, what it was asked
          pid,       \* the pid it read or spawned
          url        \* the URL it found

tunnelVars == <<cast, proc, killed, pidfile, log, urlfile, started, place, cmd, pid, url>>
processes == <<proc, killed, started, log>>

PCs == {"idle", "stop_read", "stop_term", "stop_wait", "stop_remove", "look", "reuse", "spawn_check",
        "spawn", "pid_truncate", "pid_write", "discover", "url_write", "ok", "err", "exited", "crashed",
        "svc_start", "svc_stop", "svc_remove"}
Idle == {"idle", "ok", "err", "exited", "crashed"}

TunnelInit ==
    /\ cast \in Casts
    /\ proc = [p \in Pids |-> Free]
    /\ killed = {}
    /\ pidfile = Absent /\ log = <<>> /\ urlfile = Absent
    /\ started = 0
    /\ place = [o \in Operators |-> "idle"]
    /\ cmd = [o \in Operators |-> "none"]
    /\ pid = [o \in Operators |-> 0]
    /\ url = [o \in Operators |-> 0]

Running == {o \in Operators : place[o] \notin Idle}
Goto(o, l) == place' = [place EXCEPT ![o] = l]

IsRunning(p) == p \in Pids /\ proc[p].kind # "free"

-----------------------------------------------------------------------------
(* A command begins: the restart of a tunnel first stops what the pid file  *)
(* names; the services are started and stopped by code of their own.        *)
TunnelStep(c) == IF c = "start" THEN "look" ELSE "stop_read"

ServiceStep(c) == IF c = "stop" THEN "svc_stop" ELSE "svc_start"

Begin(o) ==
    /\ place[o] = "idle" /\ Cardinality(Running) < cast.limit
    /\ \A q \in Operators : q < o => place[q] # "idle"
    /\ \E c \in cast.commands[o] :
         /\ cmd' = [cmd EXCEPT ![o] = c]
         /\ Goto(o, IF cast.service = "process" THEN ServiceStep(c) ELSE TunnelStep(c))
    /\ UNCHANGED <<processes, pidfile, urlfile, pid, url>>

AfterStop(o) == IF cmd[o] = "stop" THEN "ok" ELSE "look"

(* stop_pidfile: a pid file that is missing or empty names nothing.         *)
StopRead(o) ==
    /\ place[o] = "stop_read"
    /\ pid' = [pid EXCEPT ![o] = pidfile]
    /\ Goto(o, IF pidfile \in {Absent, Empty} THEN AfterStop(o)
               ELSE IF IsRunning(pidfile) THEN "stop_term" ELSE "stop_remove")
    /\ UNCHANGED <<processes, pidfile, urlfile, cmd, url>>

(* terminate_process: SIGTERM (the process may now Die, as it may anyway),  *)
(* poll until the deadline, SIGKILL.                                        *)
StopTerm(o) ==
    /\ place[o] = "stop_term"
    /\ Goto(o, "stop_wait")
    /\ UNCHANGED <<processes, pidfile, urlfile, cmd, pid, url>>

StopGone(o) ==
    /\ place[o] = "stop_wait" /\ ~IsRunning(pid[o])
    /\ Goto(o, "stop_remove")
    /\ UNCHANGED <<processes, pidfile, urlfile, cmd, pid, url>>

(* Mutant: the deadline ends the wait, but the process is left alone. *)
Bug_StopDeadline(o) ==
    /\ place[o] = "stop_wait"
    /\ Goto(o, "stop_remove")
    /\ UNCHANGED <<processes, pidfile, urlfile, cmd, pid, url>>

(* Mutant: without a deadline, only a process that is gone ends the wait. *)
Bug_NoDeadline(o) == StopGone(o)

StopDeadline(o) ==
    /\ place[o] = "stop_wait"
    /\ killed' = killed \cup {pid[o]}
    /\ Goto(o, "stop_remove")
    /\ UNCHANGED <<proc, started, log, pidfile, urlfile, cmd, pid, url>>

(* Mutant: the pid file is left in place. *)
Bug_StopRemove(o) ==
    /\ place[o] = "stop_remove"
    /\ Goto(o, AfterStop(o))
    /\ UNCHANGED <<processes, pidfile, urlfile, cmd, pid, url>>

StopRemove(o) ==
    /\ place[o] = "stop_remove"
    /\ pidfile' = Absent
    /\ Goto(o, AfterStop(o))
    /\ UNCHANGED <<processes, urlfile, cmd, pid, url>>

-----------------------------------------------------------------------------
(* start_quick_tunnel: use a running tunnel, or spawn one. *)
Look(o) ==
    /\ place[o] = "look"
    /\ pid' = [pid EXCEPT ![o] = pidfile]
    /\ Goto(o, IF IsRunning(pidfile) THEN "reuse" ELSE "spawn_check")
    /\ UNCHANGED <<processes, pidfile, urlfile, cmd, url>>

Reuse(o) ==
    /\ place[o] = "reuse"
    /\ url' = [url EXCEPT ![o] = urlfile]
    /\ Goto(o, IF urlfile # Absent THEN "ok" ELSE "discover")
    /\ UNCHANGED <<processes, pidfile, urlfile, cmd, pid>>

(* spawn_service looks again, and refuses if the service is running. *)
SpawnCheck(o) ==
    /\ place[o] = "spawn_check"
    /\ Goto(o, IF IsRunning(pidfile) THEN "err" ELSE "spawn")
    /\ UNCHANGED <<processes, pidfile, urlfile, cmd, pid, url>>

Spawn(o) ==
    /\ place[o] = "spawn"
    /\ \/ /\ started < MaxTunnels
          /\ \E p \in Pids :
               /\ proc[p].kind = "free"
               /\ proc' = [proc EXCEPT ![p] = [kind |-> "tunnel", url |-> started + 1, parent |-> o]]
               /\ pid' = [pid EXCEPT ![o] = p]
          /\ started' = started + 1
          /\ Goto(o, "pid_truncate")
       \/ Goto(o, "err") /\ UNCHANGED <<proc, pid, started>>
    /\ UNCHANGED <<killed, log, pidfile, urlfile, cmd, url>>

PidTruncate(o) ==
    /\ place[o] = "pid_truncate"
    /\ pidfile' = Empty
    /\ Goto(o, "pid_write")
    /\ UNCHANGED <<processes, urlfile, cmd, pid, url>>

(* The pid, and then the resolved service, which nothing here reads. *)
PidWrite(o) ==
    /\ place[o] = "pid_write"
    /\ pidfile' = pid[o]
    /\ Goto(o, IF cast.service = "process" THEN "ok" ELSE "discover")
    /\ UNCHANGED <<processes, urlfile, cmd, pid, url>>

(* The first URL of the log, the oldest one there. *)
find_url_in_text == IF log = <<>> THEN 0 ELSE Head(log)

(* discover_public_url: looks until a deadline. *)
Discover(o) ==
    /\ place[o] = "discover"
    /\ \/ find_url_in_text # 0 /\ url' = [url EXCEPT ![o] = find_url_in_text] /\ Goto(o, "url_write")
       \/ find_url_in_text = 0 /\ Goto(o, "err") /\ UNCHANGED url
    /\ UNCHANGED <<processes, pidfile, urlfile, cmd, pid>>

(* At the deadline the agent of ngrok is asked, which knows the tunnels that run. *)
try_ngrok_api(o) ==
    /\ place[o] = "discover" /\ cast.service = "ngrok" /\ find_url_in_text = 0
    /\ \E p \in Pids : proc[p].kind = "tunnel" /\ url' = [url EXCEPT ![o] = proc[p].url]
    /\ Goto(o, "url_write")
    /\ UNCHANGED <<processes, pidfile, urlfile, cmd, pid>>

UrlWrite(o) ==
    /\ place[o] = "url_write"
    /\ urlfile' = url[o]
    /\ Goto(o, "ok")
    /\ UNCHANGED <<processes, pidfile, cmd, pid, url>>

-----------------------------------------------------------------------------
(* src/services/: what runs is left alone, or replaced if it is another     *)
(* program; the signal is sent once and nobody waits.                       *)
NamesPid == pidfile \in Pids

(* A process of another user cannot be asked: an error.  What a zombie runs *)
(* is not known; another program has another binary, or one that was moved. *)
CannotTell == NamesPid /\ proc[pidfile].kind = "foreign"

should_restart_for_command == IF proc[pidfile].kind = "zombie" THEN {FALSE} ELSE BOOLEAN

Signal(o) == killed' = killed \cup {pidfile} /\ Goto(o, "svc_remove")

(* Nothing to signal: the command goes on, with the name of a dead process removed. *)
NotRunning(o, next) ==
    /\ ~IsRunning(pidfile)
    /\ Goto(o, IF NamesPid THEN "svc_remove" ELSE next)
    /\ UNCHANGED killed

CannotGoOn(o) == CannotTell /\ Goto(o, "err") /\ UNCHANGED killed

start_process(o) ==
    /\ place[o] = "svc_start"
    /\ \/ NotRunning(o, "spawn")
       \/ CannotGoOn(o)
       \/ /\ IsRunning(pidfile)
          /\ \E other \in should_restart_for_command :
               IF other THEN Signal(o) ELSE Goto(o, "ok") /\ UNCHANGED killed
    /\ pid' = [pid EXCEPT ![o] = pidfile]
    /\ UNCHANGED <<proc, started, log, pidfile, urlfile, cmd, url>>

stop_process(o) ==
    /\ place[o] = "svc_stop"
    /\ \/ NotRunning(o, "ok")
       \/ CannotGoOn(o)
       \/ IsRunning(pidfile) /\ Signal(o)
    /\ pid' = [pid EXCEPT ![o] = pidfile]
    /\ UNCHANGED <<proc, started, log, pidfile, urlfile, cmd, url>>

RemovePidFile(o) ==
    /\ place[o] = "svc_remove"
    /\ pidfile' = Absent
    /\ Goto(o, IF cmd[o] = "stop" THEN "ok" ELSE "spawn")
    /\ UNCHANGED <<processes, urlfile, cmd, pid, url>>

-----------------------------------------------------------------------------
(* Zombies are reaped when the operator that started them goes; what it     *)
(* knew goes with it.                                                       *)
Reaped(o) == [p \in Pids |-> IF proc[p].kind = "zombie" /\ proc[p].parent = o THEN Free ELSE proc[p]]

Leave(o) ==
    /\ proc' = Reaped(o)
    /\ killed' = {p \in killed : proc'[p] # Free}
    /\ pid' = [pid EXCEPT ![o] = 0] /\ url' = [url EXCEPT ![o] = 0]
    /\ UNCHANGED <<pidfile, log, urlfile, started, cmd>>

Exit(o) == place[o] \in {"ok", "err"} /\ Goto(o, "exited") /\ Leave(o)

Crash(o) == o \in Running /\ Goto(o, "crashed") /\ Leave(o)

(* A tunnel prints its URL once. *)
PrintUrl(p) ==
    /\ proc[p].kind = "tunnel" /\ \A n \in DOMAIN log : log[n] # proc[p].url
    /\ log' = Append(log, proc[p].url)
    /\ UNCHANGED <<proc, killed, pidfile, urlfile, started, place, cmd, pid, url>>

(* A process ends, by itself or by a signal. *)
Die(p) ==
    /\ proc[p].kind \in {"tunnel", "foreign"}
    /\ proc' = [proc EXCEPT ![p] =
                  IF @.kind = "tunnel" /\ place[@.parent] \notin {"exited", "crashed"}
                  THEN [@ EXCEPT !.kind = "zombie"] ELSE Free]
    /\ killed' = killed \ {p}
    /\ UNCHANGED <<pidfile, log, urlfile, started, place, cmd, pid, url>>

(* Another program gets the pid. *)
TakePid(p) ==
    /\ proc[p] = Free
    /\ proc' = [proc EXCEPT ![p] = [kind |-> "foreign", url |-> 0, parent |-> 0]]
    /\ UNCHANGED <<killed, pidfile, log, urlfile, started, place, cmd, pid, url>>

Work(o) ==
    \/ StopRead(o) \/ StopTerm(o) \/ StopGone(o) \/ StopDeadline(o) \/ StopRemove(o)
    \/ Look(o) \/ Reuse(o) \/ SpawnCheck(o) \/ Spawn(o) \/ PidTruncate(o) \/ PidWrite(o)
    \/ Discover(o) \/ try_ngrok_api(o) \/ UrlWrite(o)
    \/ start_process(o) \/ stop_process(o) \/ RemovePidFile(o)

TunnelNext ==
    /\ \/ \E o \in Operators : Begin(o) \/ Work(o) \/ Exit(o) \/ Crash(o)
       \/ \E p \in Pids : PrintUrl(p) \/ Die(p) \/ TakePid(p)
    /\ UNCHANGED cast

(* An operator that runs goes on, and its deadlines pass. *)
TunnelSpec == TunnelInit /\ [][TunnelNext]_tunnelVars /\ \A o \in Operators : WF_tunnelVars(Work(o) /\ UNCHANGED cast)

-----------------------------------------------------------------------------
(* Every variable has its type. *)
TunnelTypeOK ==
    /\ cast \in Casts
    /\ \A p \in Pids : proc[p] \in Process
    /\ killed \subseteq Pids
    /\ pidfile \in Pids \cup {Absent, Empty}
    /\ urlfile \in Tunnels \cup {Absent}
    /\ started \in 0..MaxTunnels
    /\ \A n \in DOMAIN log : log[n] \in 1..started
    /\ place \in [Operators -> PCs]
    /\ \A o \in Operators : pid[o] \in Pids \cup {Absent, Empty} /\ url[o] \in Tunnels \cup {0}

(***************************************************************************)
(* With one command at a time, a live tunnel that nobody killed is the one  *)
(* the pid file names, unless the operator that started it is about to      *)
(* write the file or died before it could: stop, restart and dying tunnels  *)
(* lose none, however often pids are reused.  A service that ignores the    *)
(* one signal it gets counts as killed here.                                *)
(***************************************************************************)
Writing(o, p) == place[o] \in {"pid_truncate", "pid_write"} /\ pid[o] = p

TunnelsAreTracked ==
    cast.limit = 1 =>
      \A p \in Pids : proc[p].kind = "tunnel" /\ p \notin killed =>
        pidfile = p \/ Writing(proc[p].parent, p) \/ place[proc[p].parent] = "crashed"

(***************************************************************************)
(* With one command at a time, a restart that succeeds hands out a tunnel   *)
(* this command started, never the one it was to replace, even if that one  *)
(* lingers as a zombie or its pid was reused.                               *)
(***************************************************************************)
RestartReplaces ==
    cast.limit = 1 =>
      \A o \in Operators : cmd[o] = "restart" /\ place[o] = "ok" =>
        proc[pid[o]].parent = o

(* Every command that is not killed returns, also when the tunnel ignores   *)
(* SIGTERM or never prints a URL.                                           *)
CommandsReturn == \A o \in Operators : (o \in Running) ~> (o \notin Running)
=============================================================================
