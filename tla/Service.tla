------------------------------ MODULE Service ------------------------------
(***************************************************************************)
(* The servers of a machine and their manager: muxplex serve and the guard *)
(* of its port (cli.py), the service commands (service.py), and the        *)
(* agent's installation, which reinstalls muxplex itself (cli.py).         *)
(*                                                                         *)
(* systemd, launchd, lsof and the installer are modelled from how they are *)
(* used: systemd's stop waits for the process, launchd's bootout does not; *)
(* systemd restarts what failed, launchd whatever ended.  lsof lists who   *)
(* has a socket of the port, its clients too: a server of another port, or *)
(* a start that asks.  One command runs at a time.                         *)
(***************************************************************************)
EXTENDS Naturals, FiniteSets

CONSTANTS Managers,   \* the service managers to consider
          MaxPids,    \* bound: servers at a time
          MaxRelease, \* bound: releases of muxplex
          MaxFaults,  \* bound: crashes and hangs
          MaxUses     \* bound: commands and servers started by hand

ASSUME ServiceAssumption ==
  /\ Managers \subseteq {"systemd", "launchd"}
  /\ {MaxPids, MaxRelease, MaxFaults, MaxUses} \subseteq Nat
  /\ MaxUses < MaxPids   \* the manager finds a process to start

VARIABLES released, \* the newest release
          disk,     \* the installed muxplex: its version, its source and tmux-kit's
          svc,      \* the manager's job: its file, its state, its main process
          server,   \* the servers, by process
          cmd,      \* the command that runs, or the last one
          used      \* what is left of the bounds

Nobody == 0
Pids   == 1 .. MaxPids
Dead   == [at |-> "none", ver |-> 0, force |-> FALSE,
           found |-> {},     \* what lsof listed to this start
           doubted |-> {}]   \* history: listed as clients, or asked and silent
NoCommand ==
  [kind |-> "none", at |-> "done", was |-> [ver |-> 0, mux |-> "pypi", kit |-> "pypi"],
   newer |-> FALSE, failed |-> FALSE, told |-> "nothing", stopped |-> FALSE, code |-> 0]

Holders == {p \in Pids : server[p].at \in {"serving", "hung", "draining"}}
Serving == {p \in Pids : server[p].at = "serving"}

\* They may have a connection to the port.
Clients == {p \in Pids : server[p].at \in {"probing", "elsewhere"}}

\* _fetch_local_instance_info has an answer; a server that drains may still give one.
MayAnswer == {p \in Holders : server[p].at # "hung"}

-----------------------------------------------------------------------------
(* The manager *)

\* A server starts, from what is installed, in the first free process.
Started(p, at, force) ==
  /\ server[p].at = "none" /\ \A q \in 1 .. p - 1 : server[q].at # "none"
  /\ server' = [server EXCEPT ![p] = [Dead EXCEPT !.at = at, !.ver = disk.ver, !.force = force]]

Launch == \E p \in Pids : Started(p, "starting", FALSE) /\ svc' = [svc EXCEPT !.job = "on", !.main = p]

\* The job when processes have ended.  A stop that was waiting is complete;
\* systemd takes a clean end for the service's own, and launchd keeps it alive.
JobWithout(ended, clean) ==
  IF svc.main \notin ended THEN svc
  ELSE [svc EXCEPT !.main = Nobody,
                   !.job = IF @ = "leaving" \/ (clean /\ svc.manager = "systemd")
                           THEN "off" ELSE @]

Ends(p, clean) ==
  /\ server' = [q \in Pids |-> IF q = p THEN Dead ELSE [server[q] EXCEPT !.found = @ \ {p}]]
  /\ svc' = JobWithout({p}, clean)

\* SIGTERM: a server that holds the port shuts down; another process ends at
\* once, and cleanly in systemd's eyes.
Termed(q, victims) ==
  IF q \in victims \ Holders THEN Dead
  ELSE [server[q] EXCEPT !.at = IF q \in victims THEN "draining" ELSE @,
                         !.found = @ \ (victims \ Holders)]

\* systemctl stop, launchctl bootout: the job is leaving until its process ended.
Stop ==
  IF svc.job # "on" THEN UNCHANGED <<svc, server>>
  ELSE /\ server' = [q \in Pids |-> Termed(q, {svc.main})]
       /\ svc' = IF svc.main \in Holders THEN [svc EXCEPT !.job = "leaving"]
                 ELSE [svc EXCEPT !.job = "off", !.main = Nobody]

\* Restart=on-failure after RestartSec, KeepAlive.
ManagerRestarts ==
  /\ svc.job = "on" /\ svc.main = Nobody
  /\ Launch
  /\ UNCHANGED <<released, disk, cmd, used>>

-----------------------------------------------------------------------------
(* muxplex serve: _kill_stale_port_holder, then uvicorn *)

ServerOnly == UNCHANGED <<released, disk, cmd, used>>

\* The guard of the port is done.
Binding(s) == [s EXCEPT !.at = "binding", !.force = FALSE, !.found = {}, !.doubted = {}]

\* lsof lists who holds the port and who is connected to it; it may be missing
\* or time out, and the start goes on.
List(p, works) ==
  /\ server[p].at = "starting"
  /\ \E clients \in SUBSET (Clients \ {p}) :
       server' = [server EXCEPT ![p] =
         IF works /\ Holders \cup clients # {}
         THEN [@ EXCEPT !.at = "probing", !.found = Holders \cup clients, !.doubted = clients]
         ELSE Binding(@)]
  /\ UNCHANGED svc /\ ServerOnly

\* A muxplex that answers on 127.0.0.1 within the time limit, maybe one that
\* drains: the start is refused.  A healthy one may be too slow, or listen on
\* another address only.
Probe(p) ==
  /\ server[p].at = "probing"
  /\ \/ ~server[p].force /\ MayAnswer # {} /\ Ends(p, FALSE)
     \/ /\ server' = [server EXCEPT ![p].at = "killing", ![p].doubted = @ \cup Serving]
        /\ UNCHANGED svc
  /\ ServerOnly

\* SIGTERM to the processes that were listed.
WhoeverHolds(p) == Holders   \* mutant: the port's holders of this moment
Nothing(p) == {}             \* mutant: the holder is left alone
Victims(p) == server[p].found
Kill(p) ==
  /\ server[p].at = "killing"
  /\ server' = [q \in Pids |-> IF q = p THEN Binding(server[p]) ELSE Termed(q, Victims(p))]
  /\ svc' = JobWithout(Victims(p) \ Holders, TRUE)
  /\ ServerOnly

\* uvicorn binds the port, or the process exits 1.
TakePort(p) ==
  /\ server[p].at = "binding"
  /\ IF Holders = {}
     THEN server' = [server EXCEPT ![p].at = "serving"] /\ UNCHANGED svc
     ELSE Ends(p, FALSE)
  /\ ServerOnly

\* A shutdown ends, if it does: it waits for open connections, and the port
\* guard sends no second signal.
Drain(p) == server[p].at = "draining" /\ Ends(p, TRUE) /\ ServerOnly

Fault ==
  /\ used.faults < MaxFaults /\ used' = [used EXCEPT !.faults = @ + 1]
  /\ UNCHANGED <<released, disk, cmd>>

Crash(p) == server[p].at \in {"serving", "hung"} /\ Ends(p, FALSE) /\ Fault
Hang(p) ==
  /\ server[p].at = "serving" /\ Fault
  /\ server' = [server EXCEPT ![p].at = "hung"] /\ UNCHANGED svc

\* Somebody uses muxplex.
Used == used.uses < MaxUses /\ used' = [used EXCEPT !.uses = @ + 1]

\* muxplex serve [--force-take-port], by hand, or with --port for another port;
\* and its Ctrl-C.
ByHand(at, force) ==
  /\ \E p \in Pids : Started(p, at, force)
  /\ Used
  /\ UNCHANGED <<released, disk, cmd, svc>>
HandStops(p) ==
  /\ p # svc.main /\ server[p].at \in {"serving", "elsewhere"}
  /\ server' = [q \in Pids |-> Termed(q, {p})]
  /\ UNCHANGED svc /\ ServerOnly

-----------------------------------------------------------------------------
(* What the installer does *)

\* muxplex is from PyPI, or from git at a tag, or at a branch (one that was
\* named or the default one).
FromGit(mux) == mux \in {"tag", "branch"}

\* _install_cmd_preserves_kit_override, as the command is built: a git tmux-kit
\* is pinned by --with, unless muxplex's own git source pins it.
Override(mux, kit) == kit = "git" /\ ~FromGit(mux)

\* A tag gives way to the newest tag.  A branch's head may be of any version; a
\* bare name may be answered from a stale index.
Provided(d) == IF d.mux = "tag" THEN {released} ELSE {d.ver, released}

\* _upgrade_target: strictly the source that was recorded.
Target(d) == d.mux

\* A git muxplex gets the tmux-kit that its own pyproject.toml names.
Installed(d) ==
  [ver   : Provided(d),
   mux   : {Target(d)},
   kit   : IF Override(d.mux, d.kit) THEN {"git"}
           ELSE IF FromGit(d.mux) THEN {"git", "pypi"} ELSE {"pypi"}]

\* _verify_install_shape_preserved: both recorded sources are what they were.
OnlyMuxplex(before, after) == before.mux = after.mux   \* mutant: tmux-kit is not checked
ShapeKept(before, after) == before.mux = after.mux /\ before.kit = after.kit

\* ensure_agent: the pinned SDK imports, or it cannot be had, or muxplex is
\* installed again, at the newest release, with the SDK.  What went wrong is
\* printed, and the caller goes on.
EnsureAgent(next) ==
  \/ /\ UNCHANGED disk
     /\ cmd' = [cmd EXCEPT !.at = next]
  \/ /\ disk' \in Installed(disk)
     /\ cmd' = [cmd EXCEPT !.at = next, !.told = IF ShapeKept(disk, disk') THEN @ ELSE "source"]

-----------------------------------------------------------------------------
(* muxplex service start, stop, restart, uninstall, install *)

Finished(failed) ==
  cmd' = [cmd EXCEPT !.at = "done", !.failed = failed, !.code = IF failed THEN 1 ELSE 0]

\* Where a command goes on after a step that raises: upgrade's finally.
Raised == IF cmd.kind = "upgrade" THEN cmd' = [cmd EXCEPT !.at = "restart", !.failed = TRUE]
          ELSE Finished(TRUE)

Command(kind, at) ==
  /\ cmd.at = "done" /\ Used
  /\ cmd' = [NoCommand EXCEPT !.kind = kind, !.at = at, !.was = disk]

ServiceCommand ==
  /\ \E kind \in {"start", "stop", "restart", "uninstall", "install"} :
       Command(kind, IF kind = "install" THEN "again" ELSE IF kind = "start" THEN "start" ELSE "stop")
  /\ UNCHANGED <<released, disk, svc, server>>

\* service_install: first the agent.
AgentAgain ==
  /\ cmd.at = "again" /\ EnsureAgent("unit")
  /\ UNCHANGED <<released, svc, server, used>>

\* The file is written; systemctl's daemon-reload or enable may fail.
Unit ==
  /\ cmd.at = "unit"
  /\ \E enabled \in {svc.enabled, TRUE} :
       /\ svc' = [svc EXCEPT !.file = TRUE, !.enabled = enabled]
       /\ \/ enabled /\ cmd' = [cmd EXCEPT !.at = "stop"]
          \/ svc.manager = "systemd" /\ Raised
  /\ UNCHANGED <<released, disk, server, used>>

CommandStops ==
  /\ cmd.at = "stop" /\ Stop
  /\ cmd' = [cmd EXCEPT !.at = "wait"]
  /\ UNCHANGED <<released, disk, used>>

\* systemctl waits for the process.  _launchd_bootout_and_wait asks until the
\* job is gone, or gives up: restart raises then, install goes on.
Forgotten == svc' = [svc EXCEPT !.file = FALSE, !.enabled = FALSE]
CommandWaits ==
  /\ cmd.at = "wait"
  /\ svc.job = "leaving" => svc.manager = "launchd"
  /\ CASE cmd.kind = "uninstall" -> Finished(FALSE) /\ Forgotten
       [] cmd.kind = "stop" -> Finished(FALSE) /\ UNCHANGED svc
       [] cmd.kind = "restart" /\ svc.job = "leaving" -> Finished(TRUE) /\ UNCHANGED svc
       [] OTHER -> cmd' = [cmd EXCEPT !.at = "start"] /\ UNCHANGED svc
  /\ UNCHANGED <<released, disk, server, used>>

\* systemctl start; _launchd_bootstrap, which tries again while the job is
\* leaving, and takes a job that is loaded for success only in a start.
Lenient(kind) == TRUE   \* mutant: whatever is loaded will do
Accepts(kind) == kind = "start"
CommandStarts ==
  /\ cmd.at = "start"
  /\ LET then == IF cmd.kind = "upgrade" THEN cmd' = [cmd EXCEPT !.at = "restart"] ELSE Finished(FALSE)
     IN  \/ svc.job = "off" /\ svc.file /\ Launch /\ then
         \/ svc.job = "on" /\ svc.manager = "systemd" /\ UNCHANGED <<svc, server>> /\ then
         \/ /\ svc.manager = "launchd" /\ svc.job # "off" /\ UNCHANGED <<svc, server>>
            /\ IF Accepts(cmd.kind) THEN then ELSE Raised
         \/ ~svc.file /\ svc.job = "off" /\ UNCHANGED <<svc, server>> /\ Raised
  /\ UNCHANGED <<released, disk, used>>
=============================================================================
