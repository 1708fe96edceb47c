------------------------------ MODULE Upgrade ------------------------------
(***************************************************************************)
(* muxplex upgrade (cli.py): it stops the service, installs the newest     *)
(* release from the source that was recorded, and hands what is left to a  *)
(* process of the new release; the service is started again whatever       *)
(* happened.  Composed with the servers and the manager of Service.        *)
(***************************************************************************)
EXTENDS Service

upgradeVars == <<released, disk, svc, server, cmd, used>>

Release ==
  /\ released < MaxRelease
  /\ released' = released + 1
  /\ UNCHANGED <<disk, svc, server, cmd, used>>

\* _check_for_update: by version or tag; a branch is compared by its commit, and
\* may have a new one whatever the version.
UpdateAvailable == disk.mux = "branch" \/ disk.ver # released

\* An update is there, or --force skips the question.
StartUpgrade(force) ==
  /\ force \/ UpdateAvailable
  /\ cmd.at = "done" /\ Used
  /\ cmd' = [NoCommand EXCEPT !.kind = "upgrade", !.at = "halt", !.was = disk, !.newer = ~force]
  /\ UNCHANGED <<released, disk, svc, server>>

\* systemd: what is active is stopped.  launchd: the job is booted out.
Halt ==
  LET active == IF svc.manager = "systemd" THEN svc.main # Nobody ELSE svc.file
  IN  /\ cmd.at = "halt"
      /\ IF active THEN Stop ELSE UNCHANGED <<svc, server>>
      /\ cmd' = [cmd EXCEPT !.at = "halting", !.stopped = active /\ svc.job = "on"]
      /\ UNCHANGED <<released, disk, used>>
Halted ==
  /\ cmd.at = "halting"
  /\ svc.job = "leaving" => svc.manager = "launchd"
  /\ cmd' = [cmd EXCEPT !.at = "install"]
  /\ UNCHANGED <<released, disk, svc, server, used>>

Fails(told) == cmd' = [cmd EXCEPT !.at = "restart", !.failed = TRUE, !.told = told]

\* There is no uv and no pip, pip cannot pin a git tmux-kit, or the command that
\* was built is refused.
Refused == Fails("nothing") /\ UNCHANGED disk

\* _verify_version_moved: what was known to be newer has arrived, by the version
\* in the file system; the running process has imported the one before.
OnDisk == disk'.ver
Moved == cmd.newer => OnDisk # cmd.was.ver

\* The command is refused, the installer fails or runs.  A success must have
\* moved the version, which may be unreadable, and kept the sources; that is not
\* looked at when the version has not moved.
Install ==
  /\ cmd.at = "install"
  /\ \/ Refused
     \/ /\ disk' \in Installed(disk)
        /\ \/ Fails("version")
           \/ Moved /\ ~ShapeKept(cmd.was, disk') /\ Fails("source")
           \/ Moved /\ ShapeKept(cmd.was, disk') /\ cmd' = [cmd EXCEPT !.at = "handoff"]
  /\ UNCHANGED <<released, svc, server, used>>

\* _finish-upgrade in a new process; it cannot be launched; or it dies before
\* its own try, and the parent takes that for done.
HandOff ==
  /\ cmd.at = "handoff"
  /\ \/ cmd' = [cmd EXCEPT !.at = "agent"]
     \/ Fails(cmd.told)
     \/ Finished(TRUE)
  /\ UNCHANGED <<released, disk, svc, server, used>>

\* The child: the agent, and service_install, which is a command of Service.
Agent ==
  /\ cmd.at = "agent" /\ EnsureAgent("again")
  /\ UNCHANGED <<released, svc, server, used>>

\* The finally of the child, or of the parent when there was no child: a service
\* that is enabled, a launchd job that has its file.
Wanted == IF svc.manager = "systemd" THEN svc.enabled ELSE svc.file
RestartService ==
  /\ cmd.at = "restart"
  /\ IF ~Wanted THEN Finished(cmd.failed) /\ UNCHANGED <<svc, server>>
     ELSE /\ cmd' = [cmd EXCEPT !.at = "verify"]
          /\ IF svc.job = "off" THEN Launch ELSE UNCHANGED <<svc, server>>
  /\ UNCHANGED <<released, disk, used>>

\* _verify_service_started: systemd says at once whether it is active, and
\* starts it a second time; launchd's port is asked until something answers or
\* the time is over.
Verify ==
  /\ cmd.at \in {"verify", "verify again"}
  /\ IF svc.manager = "launchd"
     THEN /\ \/ MayAnswer # {} /\ Finished(cmd.failed)
             \/ Finished(TRUE)
          /\ UNCHANGED <<svc, server>>
     ELSE IF svc.main # Nobody THEN Finished(cmd.failed) /\ UNCHANGED <<svc, server>>
     ELSE IF cmd.at = "verify again" THEN Finished(TRUE) /\ UNCHANGED <<svc, server>>
     ELSE Launch /\ cmd' = [cmd EXCEPT !.at = "verify again"]
  /\ UNCHANGED <<released, disk, used>>

-----------------------------------------------------------------------------
\* An installed service that runs, is stopped, or was never made; a systemd
\* service may run without being enabled.
UpgradeInit ==
  /\ released = 1
  /\ disk \in [ver : {1}, mux : {"pypi", "tag", "branch"}, kit : {"pypi", "git"}]
  /\ \E m \in Managers, file, enabled, running \in BOOLEAN :
       /\ (enabled \/ running) => file
       /\ (m = "launchd" /\ file) => enabled
       /\ svc = [manager |-> m, file |-> file, enabled |-> enabled,
                 job |-> IF running THEN "on" ELSE "off", main |-> IF running THEN 1 ELSE Nobody]
       /\ server = [p \in Pids |-> IF running /\ p = 1 THEN [Dead EXCEPT !.at = "serving", !.ver = 1] ELSE Dead]
  /\ cmd = [NoCommand EXCEPT !.was = disk]
  /\ used = [faults |-> 0, uses |-> 0]

Steps(p) == (\E works \in BOOLEAN : List(p, works)) \/ Probe(p) \/ Kill(p) \/ TakePort(p)
Commands ==
  \/ ServiceCommand \/ AgentAgain \/ Unit
  \/ CommandStops \/ CommandWaits \/ CommandStarts
UpgradeNext ==
  \/ Release \/ ManagerRestarts
  \/ \E p \in Pids : Steps(p) \/ Drain(p) \/ Crash(p) \/ Hang(p) \/ HandStops(p)
  \/ ByHand("elsewhere", FALSE)
  \/ \E force \in BOOLEAN : ByHand("starting", force) \/ StartUpgrade(force)
  \/ Commands
  \/ Halt \/ Halted \/ Install \/ HandOff \/ Agent \/ RestartService \/ Verify

\* The manager starts what it owes, processes run, and lsof works again and
\* again.  Nothing makes a shutdown end.
UpgradeFairness ==
  /\ WF_upgradeVars(ManagerRestarts \/ \E p \in Pids : Steps(p))
  /\ SF_upgradeVars(\E p \in Pids : List(p, TRUE))

UpgradeSpec == UpgradeInit /\ [][UpgradeNext]_upgradeVars /\ UpgradeFairness

-----------------------------------------------------------------------------
(* Properties *)

\* When a command has changed where muxplex or tmux-kit is installed from, it
\* has said so, whatever the installer, an index and the agent's own installation
\* did on the way; or it is an upgrade that failed because of the version, for
\* then it has not looked at the sources (a branch whose version stays).
SourcesNeverSilent ==
  cmd.at = "done" /\ <<disk.mux, disk.kit>> # <<cmd.was.mux, cmd.was.kit>> =>
    cmd.told = "source" \/ (cmd.told = "version" /\ cmd.failed)

\* A command that replaced or restarted the service and reports success has
\* left no process of the service that runs anything but what is installed; and
\* an upgrade that knew of a release does not stay on the one it found.
SuccessIsServed ==
  cmd.at = "done" /\ cmd.kind \in {"upgrade", "install", "restart"} /\ cmd.code = 0 =>
    /\ svc.main # Nobody => server[svc.main].ver = disk.ver
    /\ cmd.newer => disk.ver # cmd.was.ver

\* A start without --force-take-port ends no server that serves, on this port or
\* on another, but one that lsof listed as a client of the port, and one that was
\* asked and did not answer; never one that took the port in the meantime.
Healthy(q) == server[q].at \in {"serving", "elsewhere"}
HealthyIsLeft ==
  [][\A p, q \in Pids :
       server[p].at = "killing" /\ server'[p].at = "binding" /\ ~server[p].force
       /\ Healthy(q) /\ server'[q].at # server[q].at => q \in server[p].doubted]_upgradeVars

\* A service that is wanted comes to serve, or finds a muxplex that serves, or
\* one that was told to end and has not: a stale holder of the port does not
\* keep it away without having been told.
ServiceComesUp ==
  []<>(svc.job = "on" => \/ svc.main \in Holders
                         \/ \E p \in Pids : server[p].at \in {"serving", "draining"})

\* muxplex upgrade: the restart ALWAYS runs, on success or failure.
StoppedIsStarted ==
  cmd.at = "done" /\ cmd.kind = "upgrade" /\ cmd.stopped /\ used.faults = 0 => svc.job = "on"
=============================================================================
