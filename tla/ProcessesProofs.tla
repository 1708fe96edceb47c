-------------------------- MODULE ProcessesProofs ---------------------------
(***************************************************************************)
(* Proofs about Upgrade, the server as a process of its machine, and Ttyd, *)
(* the ttyd processes it starts.                                           *)
(***************************************************************************)
EXTENDS Upgrade, Ttyd, FiniteSetTheorems, TLAPS

-----------------------------------------------------------------------------
(* Whatever the bounds and the managers: no command of muxplex changes where
   it is installed from in silence, none that reports success has left the
   service on something else than what is installed, and no start that is not
   forced ends a server that serves. *)

Kinds    == {"none", "start", "stop", "restart", "uninstall", "install", "upgrade"}
Points   == {"done", "again", "unit", "stop", "wait", "start", "halt", "halting", "install",
             "handoff", "agent", "restart", "verify", "verify again"}
Places   == {"none", "starting", "probing", "killing", "binding", "serving", "hung", "draining",
             "elsewhere"}
Packages == [ver : Nat, mux : {"pypi", "tag", "branch"}, kit : {"pypi", "git"}]

Servers == [at : Places, ver : Nat, force : BOOLEAN, found : SUBSET Pids, doubted : SUBSET Pids]
Jobs    == [manager : Managers, file : BOOLEAN, enabled : BOOLEAN,
            job : {"on", "off", "leaving"}, main : Pids \cup {Nobody}]
Orders  == [kind : Kinds, at : Points, was : Packages, newer : BOOLEAN, failed : BOOLEAN,
            told : {"nothing", "version", "source"}, stopped : BOOLEAN, code : {0, 1}]

Types ==
  /\ released \in Nat
  /\ disk \in Packages
  /\ svc \in Jobs
  /\ server \in [Pids -> Servers]
  /\ cmd \in Orders

\* The manager's main process runs.
MainRuns == svc.main # Nobody => server[svc.main].at # "none"

\* What a start has listed holds the port, or was listed as a client.
FoundHold == \A p \in Pids : server[p].found \subseteq Holders \cup server[p].doubted

\* What an unforced start may kill and holds the port does not serve, or was
\* asked in vain.
NothingHealthyMeant ==
  \A p \in Pids : server[p].at = "killing" /\ ~server[p].force =>
                     server[p].found \cap Serving \subseteq server[p].doubted

\* Whatever has moved a source since the command began has said so, or is an
\* upgrade that failed because of the version.
Said      == cmd.told = "source" \/ (cmd.told = "version" /\ cmd.failed)
MovesTold == <<disk.mux, disk.kit>> # <<cmd.was.mux, cmd.was.kit>> => Said
SaidFails == cmd.told = "version" => cmd.kind = "upgrade" /\ cmd.failed

\* Only an upgrade comes to the installation.
UpgradesInstall == cmd.at \in {"halt", "halting", "install", "handoff"} => cmd.kind = "upgrade"

\* Nothing is installed before the installation.
Before == {"halt", "halting", "install"}
NotYet == cmd.at \in Before => disk = cmd.was

\* A version never goes back.
NewerIsNewer == cmd.was.ver <= disk.ver /\ disk.ver <= released

CodeTells == cmd.at = "done" /\ cmd.code = 0 => ~cmd.failed

\* Only an upgrade has looked for an update.
OnlyUpgradesLook == cmd.newer => cmd.kind = "upgrade"

\* An upgrade that has not failed does not stay on what it found.
MovedOn == cmd.newer /\ ~cmd.failed /\ cmd.at \notin Before => disk.ver # cmd.was.ver

\* Between its stop and its start the job is not on.
StoppedFirst == cmd.at = "wait" \/ (cmd.at = "start" /\ cmd.kind # "start") => svc.job # "on"

Replacing == {"upgrade", "install", "restart"}
After     == {"restart", "verify", "verify again", "done"}
Fresh     == svc.main # Nobody => server[svc.main].ver = disk.ver
ServesNew == cmd.kind \in Replacing /\ ~cmd.failed /\ cmd.at \in After => Fresh

-----------------------------------------------------------------------------
(* What the helpers do to the servers and to the job *)

\* A server that starts, in a process that was free, from what is installed.
LEMMA StartedFacts ==
    ASSUME Types, NEW p \in Pids, NEW at \in {"starting", "elsewhere"}, NEW force \in BOOLEAN,
           Started(p, at, force)
    PROVE  /\ server' \in [Pids -> Servers]
           /\ server[p].at = "none"
           /\ server'[p].at = at /\ server'[p].ver = disk.ver
           /\ server'[p].found = {} /\ server'[p].doubted = {}
           /\ \A q \in Pids \ {p} : server'[q] = server[q]
  BY DEF Types, Servers, Started, Dead, Places, Packages

LEMMA LaunchFacts ==
    ASSUME Types, Launch
    PROVE  /\ \E p \in Pids : Started(p, "starting", FALSE) /\ svc'.main = p
           /\ svc' \in Jobs
           /\ svc'.job = "on"
  BY DEF Types, Jobs, Launch

LEMMA JobWithoutFacts ==
    ASSUME Types, NEW ended \in SUBSET Pids, NEW clean \in BOOLEAN, svc' = JobWithout(ended, clean)
    PROVE  /\ svc' \in Jobs
           /\ svc'.main = IF svc.main \in ended THEN Nobody ELSE svc.main
           /\ svc'.job \in {svc.job, "off"}
  BY DEF JobWithout, Types, Jobs, Nobody, Pids

LEMMA EndsFacts ==
    ASSUME Types, NEW p \in Pids, NEW clean \in BOOLEAN, Ends(p, clean)
    PROVE  /\ server' \in [Pids -> Servers]
           /\ server'[p] = Dead
           /\ \A q \in Pids \ {p} : /\ server'[q].at = server[q].at
                                   /\ server'[q].ver = server[q].ver
                                   /\ server'[q].force = server[q].force
                                   /\ server'[q].found = server[q].found \ {p}
                                   /\ server'[q].doubted = server[q].doubted
           /\ svc' \in Jobs
           /\ svc'.main = IF svc.main = p THEN Nobody ELSE svc.main
           /\ svc'.job \in {svc.job, "off"}
<1>1. server' = [q \in Pids |-> IF q = p THEN Dead ELSE [server[q] EXCEPT !.found = @ \ {p}]]
  BY DEF Ends
<1>2. /\ server' \in [Pids -> Servers]
      /\ server'[p] = Dead
      /\ \A q \in Pids \ {p} : /\ server'[q].at = server[q].at
                              /\ server'[q].ver = server[q].ver
                              /\ server'[q].force = server[q].force
                              /\ server'[q].found = server[q].found \ {p}
                              /\ server'[q].doubted = server[q].doubted
  BY <1>1 DEF Types, Servers, Dead, Places
<1> QED
  BY <1>2, JobWithoutFacts DEF Ends

\* What a SIGTERM makes of a process: it is told to end, or has ended, or it
\* only sees that others have.
Told(q, v) == /\ v \in Servers
              /\ v.ver = server[q].ver /\ v.force = server[q].force
              /\ v.doubted = server[q].doubted /\ v.found \subseteq server[q].found
LEMMA TermedFacts ==
    ASSUME Types, NEW q \in Pids, NEW victims, NEW v, v = Termed(q, victims)
    PROVE  /\ v \in Servers
           /\ q \in victims \ Holders => v = Dead
           /\ q \in victims \cap Holders => Told(q, v) /\ v.at = "draining"
           /\ q \notin victims => Told(q, v) /\ v.at = server[q].at
<1>1. server[q] \in Servers
  BY DEF Types
<1>2. CASE q \in victims \ Holders
  BY <1>2 DEF Termed, Dead, Servers, Places
<1>3. CASE q \in victims \cap Holders
  <2>1. v = [server[q] EXCEPT !.at = "draining", !.found = @ \ (victims \ Holders)]
    BY <1>3 DEF Termed
  <2> QED
    BY <1>1, <1>3, <2>1 DEF Told, Servers, Places
<1>4. CASE q \notin victims
  <2>1. v = [server[q] EXCEPT !.found = @ \ (victims \ Holders)]
    BY <1>1, <1>4 DEF Termed, Servers
  <2> QED
    BY <1>1, <1>4, <2>1 DEF Told, Servers
<1> QED
  BY <1>2, <1>3, <1>4

\* SIGTERM to some processes, and maybe a start that binds the port then.
Signalled(victims, binds) ==
  /\ server' \in [Pids -> Servers]
  /\ \A q \in Pids \ binds :
        /\ q \in victims \ Holders => server'[q] = Dead
        /\ q \in victims \cap Holders => Told(q, server'[q]) /\ server'[q].at = "draining"
        /\ q \notin victims => Told(q, server'[q]) /\ server'[q].at = server[q].at
  /\ \A q \in binds \cap Pids : /\ server[q].at = "killing" /\ server'[q].at = "binding"
                              /\ server'[q].ver = server[q].ver /\ server'[q].found = {}
LEMMA TermedAll ==
    ASSUME Types, NEW victims, server' = [q \in Pids |-> Termed(q, victims)]
    PROVE  Signalled(victims, {})
<1>1. \A q \in Pids : server'[q] = Termed(q, victims)
  OBVIOUS
<1>2. ASSUME NEW q \in Pids
      PROVE  /\ server'[q] \in Servers
             /\ q \in victims \ Holders => server'[q] = Dead
             /\ q \in victims \cap Holders => Told(q, server'[q]) /\ server'[q].at = "draining"
             /\ q \notin victims => Told(q, server'[q]) /\ server'[q].at = server[q].at
  BY <1>1, TermedFacts
<1>3. server' \in [Pids -> Servers]
  BY <1>1, <1>2
<1> QED
  BY <1>2, <1>3 DEF Signalled

LEMMA StopFacts ==
    ASSUME Types, Stop
    PROVE  /\ \/ UNCHANGED server /\ svc'.main = svc.main
              \/ /\ Signalled({svc.main}, {})
                 /\ svc'.main = IF svc.main \in {svc.main} \ Holders THEN Nobody ELSE svc.main
           /\ svc' \in Jobs
           /\ svc'.job # "on"
<1>1. CASE svc.job # "on"
  BY <1>1 DEF Stop, Types
<1>2. CASE svc.job = "on"
  <2>1. /\ server' = [q \in Pids |-> Termed(q, {svc.main})]
        /\ svc' = IF svc.main \in Holders THEN [svc EXCEPT !.job = "leaving"]
                  ELSE [svc EXCEPT !.job = "off", !.main = Nobody]
    BY <1>2 DEF Stop
  <2>2. Signalled({svc.main}, {})
    BY <2>1, TermedAll
  <2> QED
    BY <2>1, <2>2 DEF Types, Jobs
<1> QED
  BY <1>1, <1>2

-----------------------------------------------------------------------------
(* The servers: who runs, who was listed, what the main process runs *)

ServersInv == MainRuns /\ FoundHold /\ NothingHealthyMeant

Machines ==
  /\ svc \in Jobs
  /\ server \in [Pids -> Servers]

\* What every step of a server does: the job is not turned on, and the main
\* process keeps its version.
ServersKept == Machines' /\ ServersInv' /\ (Fresh /\ disk' = disk => Fresh') /\ svc'.job \in {svc.job, "off"}

LEMMA UnchangedKept ==
    ASSUME Types, ServersInv, UNCHANGED <<svc, server>>
    PROVE  ServersKept
  BY DEF Types, ServersInv, MainRuns, FoundHold, NothingHealthyMeant, Machines, ServersKept,
         Fresh, Holders, Serving

LEMMA StartedKept ==
    ASSUME Types, ServersInv, NEW p \in Pids, NEW at \in {"starting", "elsewhere"},
           NEW force \in BOOLEAN, Started(p, at, force)
    PROVE  /\ FoundHold' /\ NothingHealthyMeant'
           /\ UNCHANGED svc => ServersKept
<1>1. /\ server' \in [Pids -> Servers]
      /\ server[p].at = "none"
      /\ server'[p].at = at /\ server'[p].ver = disk.ver /\ server'[p].found = {}
      /\ \A q \in Pids \ {p} : server'[q] = server[q]
  BY StartedFacts
<1>2. Holders' = Holders /\ Serving' = Serving
  BY <1>1 DEF Holders, Serving
<1>3. FoundHold' /\ NothingHealthyMeant'
  BY <1>1, <1>2 DEF ServersInv, FoundHold, NothingHealthyMeant
<1>4. ASSUME UNCHANGED svc
      PROVE  ServersKept
  BY <1>1, <1>3, <1>4, Zenon DEF ServersInv, MainRuns, Types, Jobs, Machines, ServersKept, Fresh, Nobody, Pids
<1> QED
  BY <1>3, <1>4

\* The manager's start: the main process runs what is installed.
LEMMA LaunchKept ==
    ASSUME Types, ServersInv, Launch, disk' = disk
    PROVE  Machines' /\ ServersInv' /\ Fresh' /\ svc'.job = "on"
<1>1. PICK p \in Pids : Started(p, "starting", FALSE) /\ svc'.main = p
  BY LaunchFacts
<1>2. /\ server' \in [Pids -> Servers]
      /\ server'[p].at = "starting" /\ server'[p].ver = disk.ver
  BY <1>1, StartedFacts
<1>3. FoundHold' /\ NothingHealthyMeant'
  BY <1>1, StartedKept
<1> QED
  BY <1>1, <1>2, <1>3, LaunchFacts DEF Machines, ServersInv, MainRuns, Fresh

LEMMA EndsKept ==
    ASSUME Types, ServersInv, NEW p \in Pids, NEW clean \in BOOLEAN, Ends(p, clean)
    PROVE  ServersKept
<1>1. /\ server' \in [Pids -> Servers]
      /\ server'[p] = Dead
      /\ \A q \in Pids \ {p} : /\ server'[q].at = server[q].at
                              /\ server'[q].ver = server[q].ver
                              /\ server'[q].force = server[q].force
                              /\ server'[q].found = server[q].found \ {p}
                              /\ server'[q].doubted = server[q].doubted
      /\ svc' \in Jobs
      /\ svc'.main = IF svc.main = p THEN Nobody ELSE svc.main
      /\ svc'.job \in {svc.job, "off"}
  BY EndsFacts
<1>2. Holders' = Holders \ {p} /\ Serving' = Serving \ {p}
  BY <1>1 DEF Holders, Serving, Dead
<1>3. FoundHold' /\ NothingHealthyMeant'
  BY <1>1, <1>2 DEF ServersInv, FoundHold, NothingHealthyMeant, Dead
<1>4. MainRuns' /\ (Fresh /\ disk' = disk => Fresh')
  BY <1>1 DEF ServersInv, MainRuns, Fresh, Types, Jobs
<1> QED
  BY <1>1, <1>3, <1>4 DEF ServersInv, Machines, ServersKept

\* Who is told to end holds the port until it has ended.
LEMMA SignalledKept ==
    ASSUME Types, ServersInv, NEW victims, NEW binds, Signalled(victims, binds), svc' \in Jobs,
           svc'.main = IF svc.main \in victims \ Holders THEN Nobody ELSE svc.main
    PROVE  Machines' /\ ServersInv' /\ (Fresh /\ disk' = disk => Fresh')
<1>1. /\ server' \in [Pids -> Servers]
      /\ \A q \in Pids : server[q] \in Servers
  BY DEF Signalled, Types
<1>2. ASSUME NEW q \in Pids
      PROVE  /\ server'[q].found \subseteq server[q].found
             /\ server'[q].found # {} => server'[q].doubted = server[q].doubted
             /\ server'[q].at = "killing" => server[q].at = "killing" /\ server'[q].force = server[q].force
             /\ server[q].at \in {"serving", "hung", "draining"} <=>
                  server'[q].at \in {"serving", "hung", "draining"}
             /\ server'[q].at = "serving" => server[q].at = "serving"
             /\ q \in victims \ Holders \/ server'[q].ver = server[q].ver
             /\ server'[q].at = "none" => q \in victims \ Holders \/ server[q].at = "none"
  <2>1. CASE q \in binds
    BY <1>1, <2>1 DEF Signalled, Servers
  <2>2. CASE q \notin binds /\ q \in victims \ Holders
    BY <1>1, <2>2 DEF Signalled, Holders, Dead
  <2>3. CASE q \notin binds /\ q \in victims \cap Holders
    BY <1>1, <2>3 DEF Signalled, Holders, Told
  <2>4. CASE q \notin binds /\ q \notin victims
    BY <1>1, <2>4 DEF Signalled, Told
  <2> QED
    BY <2>1, <2>2, <2>3, <2>4
<1>3. Holders' = Holders /\ Serving' \subseteq Serving
  BY <1>2 DEF Holders, Serving
<1>4. FoundHold'
  <2> SUFFICES ASSUME NEW x \in Pids, NEW y \in server'[x].found
               PROVE  y \in Holders' \cup server'[x].doubted
    BY DEF FoundHold
  <2>1. y \in server[x].found /\ server'[x].doubted = server[x].doubted
    BY <1>2
  <2> QED
    BY <1>3, <2>1 DEF ServersInv, FoundHold
<1>5. NothingHealthyMeant'
  <2> SUFFICES ASSUME NEW x \in Pids, server'[x].at = "killing", ~server'[x].force,
                      NEW y \in server'[x].found \cap Serving'
               PROVE  y \in server'[x].doubted
    BY DEF NothingHealthyMeant
  <2>1. /\ y \in server[x].found \cap Serving /\ server'[x].doubted = server[x].doubted
        /\ server[x].at = "killing" /\ ~server[x].force
    BY <1>2, <1>3
  <2> QED
    BY <2>1 DEF ServersInv, NothingHealthyMeant
<1>6. svc'.main # Nobody => svc'.main = svc.main /\ svc.main \in Pids /\ svc.main \notin victims \ Holders
  BY DEF Types, Jobs
<1>7. MainRuns' /\ (Fresh /\ disk' = disk => Fresh')
  BY <1>2, <1>6 DEF ServersInv, MainRuns, Fresh
<1> QED
  BY <1>1, <1>4, <1>5, <1>7 DEF ServersInv, Machines

LEMMA StopKept ==
    ASSUME Types, ServersInv, Stop
    PROVE  Machines' /\ ServersInv' /\ svc'.job # "on"
<1>1. CASE UNCHANGED server /\ svc'.main = svc.main
  BY <1>1, StopFacts DEF Types, ServersInv, MainRuns, FoundHold, NothingHealthyMeant, Machines,
                         Holders, Serving
<1>2. CASE /\ Signalled({svc.main}, {})
           /\ svc'.main = IF svc.main \in {svc.main} \ Holders THEN Nobody ELSE svc.main
  BY <1>2, StopFacts, SignalledKept
<1> QED
  BY <1>1, <1>2, StopFacts

-----------------------------------------------------------------------------
(* The steps of the servers *)

LEMMA ListKept ==
    ASSUME Types, ServersInv, NEW p \in Pids, NEW works \in BOOLEAN, List(p, works)
    PROVE  ServersKept
<1>1. PICK clients \in SUBSET (Clients \ {p}) :
         server' = [server EXCEPT ![p] =
           IF works /\ Holders \cup clients # {}
           THEN [@ EXCEPT !.at = "probing", !.found = Holders \cup clients, !.doubted = clients]
           ELSE Binding(@)]
  BY DEF List
<1>2. server[p].at = "starting" /\ UNCHANGED svc /\ server[p] \in Servers
  BY DEF List, Types
<1>3. Holders \subseteq Pids /\ clients \subseteq Pids
  BY DEF Holders, Clients
<1>4. PICK v \in Servers :
         /\ server' = [server EXCEPT ![p] = v]
         /\ v.at \in {"probing", "binding"} /\ v.ver = server[p].ver
         /\ v.found \subseteq Holders \cup v.doubted
  <2> DEFINE probes == [server[p] EXCEPT !.at = "probing", !.found = Holders \cup clients, !.doubted = clients]
             binds  == Binding(server[p])
  <2>1. probes \in Servers /\ probes.at = "probing" /\ probes.ver = server[p].ver
        /\ probes.found \subseteq Holders \cup probes.doubted
    BY <1>2, <1>3 DEF Servers, Places
  <2>2. binds \in Servers /\ binds.at = "binding" /\ binds.ver = server[p].ver
        /\ binds.found \subseteq Holders \cup binds.doubted
    BY <1>2 DEF Binding, Servers, Places
  <2>3. server' = [server EXCEPT ![p] = probes] \/ server' = [server EXCEPT ![p] = binds]
    BY <1>1
  <2> QED
    BY <2>1, <2>2, <2>3
<1>5. /\ server' \in [Pids -> Servers]
      /\ server'[p] = v
      /\ \A q \in Pids \ {p} : server'[q] = server[q]
  BY <1>4 DEF Types
<1>6. Holders' = Holders /\ Serving' = Serving
  BY <1>2, <1>4, <1>5 DEF Holders, Serving
<1>7. FoundHold' /\ NothingHealthyMeant'
  BY <1>4, <1>5, <1>6 DEF ServersInv, FoundHold, NothingHealthyMeant
<1>8. MainRuns' /\ (Fresh /\ disk' = disk => Fresh')
  BY <1>2, <1>4, <1>5 DEF ServersInv, MainRuns, Fresh, Types
<1> QED
  BY <1>2, <1>5, <1>7, <1>8 DEF ServersInv, Machines, ServersKept, Types

LEMMA ProbeKept ==
    ASSUME Types, ServersInv, NEW p \in Pids, Probe(p)
    PROVE  ServersKept
<1>1. CASE Ends(p, FALSE)
  BY <1>1, EndsKept
<1>2. CASE /\ server' = [server EXCEPT ![p].at = "killing", ![p].doubted = @ \cup Serving]
           /\ UNCHANGED svc
  <2>1. server[p].at = "probing" /\ server[p] \in Servers /\ Serving \subseteq Pids
    BY DEF Probe, Types, Serving
  <2>2. PICK v \in Servers : /\ server' = [server EXCEPT ![p] = v]
                             /\ v.at = "killing" /\ v.ver = server[p].ver /\ v.force = server[p].force
                             /\ v.found = server[p].found /\ v.doubted = server[p].doubted \cup Serving
    <3> DEFINE kills == [server[p] EXCEPT !.at = "killing", !.doubted = @ \cup Serving]
    <3>1. kills \in Servers /\ kills.at = "killing" /\ kills.ver = server[p].ver
          /\ kills.force = server[p].force /\ kills.found = server[p].found
          /\ kills.doubted = server[p].doubted \cup Serving
      BY <2>1 DEF Servers, Places
    <3>2. server' = [server EXCEPT ![p] = kills]
      BY <1>2
    <3> QED
      BY <3>1, <3>2
  <2>3. /\ server' \in [Pids -> Servers] /\ server'[p] = v
        /\ \A q \in Pids \ {p} : server'[q] = server[q]
    BY <2>2 DEF Types
  <2>4. Holders' = Holders /\ Serving' = Serving
    BY <2>1, <2>2, <2>3 DEF Holders, Serving
  <2>5. FoundHold' /\ NothingHealthyMeant'
    BY <2>2, <2>3, <2>4 DEF ServersInv, FoundHold, NothingHealthyMeant
  <2>6. MainRuns' /\ (Fresh /\ disk' = disk => Fresh')
    <3>1. \A q \in Pids : server'[q].at \in {"killing", server[q].at} /\ server'[q].ver = server[q].ver
      BY <2>2, <2>3
    <3> QED
      BY <1>2, <3>1 DEF ServersInv, MainRuns, Fresh, Types, Jobs
  <2> QED
    BY <1>2, <2>3, <2>5, <2>6 DEF ServersInv, Machines, ServersKept, Types
<1> QED
  BY <1>1, <1>2 DEF Probe

\* SIGTERM goes only to what was listed.
LEMMA KillFacts ==
    ASSUME Types, NEW p \in Pids, Kill(p)
    PROVE  /\ Signalled(server[p].found, {p})
           /\ svc' \in Jobs
           /\ svc'.main = IF svc.main \in server[p].found \ Holders THEN Nobody ELSE svc.main
           /\ svc'.job \in {svc.job, "off"}
<1>1. /\ server[p].at = "killing" /\ server[p] \in Servers
      /\ server' = [q \in Pids |-> IF q = p THEN Binding(server[p]) ELSE Termed(q, server[p].found)]
      /\ svc' = JobWithout(server[p].found \ Holders, TRUE)
  BY DEF Kill, Victims, Types
<1>2. /\ server'[p] = Binding(server[p])
      /\ \A q \in Pids \ {p} : server'[q] = Termed(q, server[p].found)
  BY <1>1
<1>3. server'[p] \in Servers /\ server'[p].at = "binding" /\ server'[p].ver = server[p].ver
      /\ server'[p].found = {}
  BY <1>1, <1>2 DEF Binding, Servers, Places
<1>4. ASSUME NEW q \in Pids \ {p}
      PROVE  /\ server'[q] \in Servers
             /\ q \in server[p].found \ Holders => server'[q] = Dead
             /\ q \in server[p].found \cap Holders => Told(q, server'[q]) /\ server'[q].at = "draining"
             /\ q \notin server[p].found => Told(q, server'[q]) /\ server'[q].at = server[q].at
  BY <1>2, TermedFacts
<1>5. \A q \in Pids : server'[q] \in Servers
  BY <1>3, <1>4
<1>6. server' = [q \in Pids |-> server'[q]]
  BY <1>1
<1>7. server' \in [Pids -> Servers]
  BY <1>5, <1>6
<1>8. Signalled(server[p].found, {p})
  BY <1>1, <1>3, <1>4, <1>7 DEF Signalled
<1>9. server[p].found \ Holders \in SUBSET Pids
  BY <1>1 DEF Servers
<1> QED
  BY <1>1, <1>8, <1>9, JobWithoutFacts

LEMMA KillKept ==
    ASSUME Types, ServersInv, NEW p \in Pids, Kill(p)
    PROVE  ServersKept
  BY KillFacts, SignalledKept DEF ServersKept

\* A server that comes to serve was no holder before, so that nobody listed it,
\* but maybe as a client.
LEMMA BindKept ==
    ASSUME Types, ServersInv, NEW p \in Pids, TakePort(p)
    PROVE  ServersKept
<1>1. CASE Ends(p, FALSE)
  BY <1>1, EndsKept
<1>2. CASE server' = [server EXCEPT ![p].at = "serving"] /\ UNCHANGED svc
  <2>1. /\ server' \in [Pids -> Servers]
        /\ server[p].at = "binding" /\ server'[p] = [server[p] EXCEPT !.at = "serving"]
        /\ \A q \in Pids \ {p} : server'[q] = server[q]
    BY <1>2 DEF Types, Servers, Places, TakePort
  <2>2. p \notin Holders /\ Holders \subseteq Holders' /\ Serving' \subseteq Serving \cup {p}
    BY <2>1 DEF Holders, Serving, Types
  <2>3. \A q \in Pids : p \in server[q].found => p \in server[q].doubted
    BY <2>2 DEF ServersInv, FoundHold
  <2>4. FoundHold' /\ NothingHealthyMeant'
    BY <2>1, <2>2, <2>3 DEF ServersInv, FoundHold, NothingHealthyMeant, Types, Servers
  <2>5. MainRuns' /\ (Fresh /\ disk' = disk => Fresh')
    BY <1>2, <2>1 DEF ServersInv, MainRuns, Fresh, Types
  <2> QED
    BY <1>2, <2>1, <2>4, <2>5 DEF ServersInv, Machines, ServersKept, Types
<1> QED
  BY <1>1, <1>2 DEF TakePort

LEMMA HangKept ==
    ASSUME Types, ServersInv, NEW p \in Pids, Hang(p)
    PROVE  ServersKept
<1>1. UNCHANGED svc /\ server[p].at = "serving" /\ server[p] \in Servers
  BY DEF Hang, Types
<1>2. PICK v \in Servers : /\ server' = [server EXCEPT ![p] = v]
                           /\ v.at = "hung" /\ v.ver = server[p].ver /\ v.force = server[p].force
                           /\ v.found = server[p].found /\ v.doubted = server[p].doubted
  <2> DEFINE hangs == [server[p] EXCEPT !.at = "hung"]
  <2>1. /\ hangs \in Servers /\ hangs.at = "hung" /\ hangs.ver = server[p].ver
        /\ hangs.force = server[p].force
        /\ hangs.found = server[p].found /\ hangs.doubted = server[p].doubted
    BY <1>1 DEF Servers, Places
  <2>2. server' = [server EXCEPT ![p] = hangs]
    BY DEF Hang
  <2> QED
    BY <2>1, <2>2
<1>3. /\ server' \in [Pids -> Servers] /\ server'[p] = v
      /\ \A q \in Pids \ {p} : server'[q] = server[q]
  BY <1>2 DEF Types
<1>4. Holders' = Holders /\ Serving' \subseteq Serving
  BY <1>1, <1>2, <1>3 DEF Holders, Serving
<1>5. FoundHold' /\ NothingHealthyMeant'
  BY <1>2, <1>3, <1>4 DEF ServersInv, FoundHold, NothingHealthyMeant
<1>6. \A q \in Pids : server'[q].at \in {"hung", server[q].at} /\ server'[q].ver = server[q].ver
  BY <1>2, <1>3
<1>7. MainRuns' /\ (Fresh /\ disk' = disk => Fresh')
  BY <1>1, <1>6 DEF ServersInv, MainRuns, Fresh, Types, Jobs
<1> QED
  BY <1>1, <1>3, <1>5, <1>7 DEF ServersInv, Machines, ServersKept, Types

LEMMA HandStopsKept ==
    ASSUME Types, ServersInv, NEW p \in Pids, HandStops(p)
    PROVE  ServersKept
<1>1. Signalled({p}, {})
  BY TermedAll DEF HandStops
<1>2. svc' \in Jobs /\ svc' = svc /\ svc.main # p
  BY DEF HandStops, Types
<1> QED
  BY <1>1, <1>2, SignalledKept DEF ServersKept

ServerStep ==
  \/ ManagerRestarts
  \/ \E p \in Pids : Steps(p) \/ Drain(p) \/ Crash(p) \/ Hang(p) \/ HandStops(p)
  \/ \E at \in {"starting", "elsewhere"}, force \in BOOLEAN : ByHand(at, force)

\* A step of the servers: no command moves; the job is not turned on, unless it was.
LEMMA ServerStepKept ==
    ASSUME Types, ServersInv, ServerStep
    PROVE  /\ Machines' /\ ServersInv' /\ (Fresh => Fresh')
           /\ svc.job # "on" => svc'.job # "on"
           /\ UNCHANGED <<released, disk, cmd>>
<1>1. CASE ManagerRestarts
  BY <1>1, LaunchKept DEF ManagerRestarts
<1>2. ASSUME NEW p \in Pids, Steps(p) \/ Drain(p) \/ Crash(p) \/ Hang(p) \/ HandStops(p)
      PROVE  ServersKept /\ UNCHANGED <<released, disk, cmd>>
  <2>1. ServersKept
    <3>1. CASE Steps(p)
      BY <3>1, ListKept, ProbeKept, KillKept, BindKept DEF Steps
    <3>2. CASE Drain(p) \/ Crash(p)
      BY <3>2, EndsKept DEF Drain, Crash
    <3>3. CASE Hang(p) \/ HandStops(p)
      BY <3>3, HangKept, HandStopsKept
    <3> QED
      BY <1>2, <3>1, <3>2, <3>3
  <2>2. UNCHANGED <<released, disk, cmd>>
    BY <1>2 DEF Steps, List, Probe, Kill, TakePort, Drain, Crash, Hang, HandStops, ServerOnly, Fault
  <2> QED
    BY <2>1, <2>2
<1>3. ASSUME NEW at \in {"starting", "elsewhere"}, NEW force \in BOOLEAN, ByHand(at, force)
      PROVE  ServersKept /\ UNCHANGED <<released, disk, cmd>>
  BY <1>3, StartedKept DEF ByHand
<1>4. CASE ServersKept /\ UNCHANGED <<released, disk, cmd>>
  BY <1>4 DEF ServersKept, Types
<1> QED
  BY <1>1, <1>2, <1>3, <1>4 DEF ServerStep

-----------------------------------------------------------------------------
(* The steps of a command *)

\* What the invariant says of the command, and of what it has installed.
CommandInv ==
  /\ MovesTold /\ SaidFails /\ UpgradesInstall /\ NotYet /\ NewerIsNewer /\ CodeTells /\ OnlyUpgradesLook
  /\ MovedOn /\ StoppedFirst /\ ServesNew

UInv == Types /\ ServersInv /\ CommandInv

\* What the installer leaves: muxplex where it was from, at its version or the
\* newest; a tmux-kit beside a pypi muxplex stays.
LEMMA InstalledFacts ==
    ASSUME Types, NEW d \in Installed(disk)
    PROVE  /\ d \in Packages
           /\ d.mux = disk.mux
           /\ d.ver \in {disk.ver, released}
           /\ ~FromGit(disk.mux) => d.kit = disk.kit
  BY DEF Types, Installed, Provided, Target, Override, FromGit, Packages

LEMMA EnsureAgentFacts ==
    ASSUME Types, NEW next \in Points, EnsureAgent(next)
    PROVE  /\ disk' \in Packages
           /\ disk'.ver \in {disk.ver, released}
           /\ cmd' \in Orders
           /\ cmd'.at = next /\ cmd'.kind = cmd.kind /\ cmd'.was = cmd.was
           /\ cmd'.newer = cmd.newer /\ cmd'.failed = cmd.failed
           /\ cmd'.told \in {cmd.told, "source"}
           /\ <<disk'.mux, disk'.kit>> # <<disk.mux, disk.kit>> => cmd'.told = "source"
<1>1. CASE UNCHANGED disk /\ cmd' = [cmd EXCEPT !.at = next]
  BY <1>1 DEF Types, Orders, Packages
<1>2. CASE /\ disk' \in Installed(disk)
           /\ cmd' = [cmd EXCEPT !.at = next, !.told = IF ShapeKept(disk, disk') THEN @ ELSE "source"]
  <2>1. /\ disk' \in Packages
        /\ disk'.ver \in {disk.ver, released}
    BY <1>2, InstalledFacts
  <2>2. PICK told \in {cmd.told, "source"} :
           /\ told = IF ShapeKept(disk, disk') THEN cmd.told ELSE "source"
           /\ cmd' = [cmd EXCEPT !.at = next, !.told = told]
    BY <1>2
  <2>3. told \in {"nothing", "version", "source"}
    BY DEF Types, Orders
  <2>4. /\ cmd' \in Orders
        /\ cmd'.at = next /\ cmd'.kind = cmd.kind /\ cmd'.was = cmd.was
        /\ cmd'.newer = cmd.newer /\ cmd'.failed = cmd.failed
        /\ cmd'.told = told
    BY <2>2, <2>3 DEF Types, Orders
  <2>5. <<disk'.mux, disk'.kit>> # <<disk.mux, disk.kit>> => told = "source"
    BY <2>2 DEF ShapeKept
  <2> QED
    BY <2>1, <2>4, <2>5
<1> QED
  BY <1>1, <1>2 DEF EnsureAgent

\* The servers under a command that leaves them alone.
LEMMA LeftAlone ==
    ASSUME UInv, UNCHANGED <<svc, server>>
    PROVE  Machines' /\ ServersInv' /\ (disk' = disk => (Fresh' <=> Fresh))
  BY UnchangedKept DEF UInv, ServersKept, Fresh

\* A command that starts knows what it found.
LEMMA CommandKept ==
    ASSUME UInv, NEW kind \in Kinds, NEW at \in Points \ Before,
           UNCHANGED <<released, disk, svc, server>>,
           at \notin After \cup {"wait", "handoff"}, at = "start" => kind = "start",
           cmd' = [NoCommand EXCEPT !.kind = kind, !.at = at, !.was = disk]
    PROVE  UInv'
<1>1. /\ cmd' \in Orders
      /\ cmd'.kind = kind /\ cmd'.at = at /\ cmd'.was = disk /\ ~cmd'.newer /\ cmd'.told = "nothing"
  BY DEF NoCommand, Orders, UInv, Types
<1>2. Types' /\ ServersInv'
  BY <1>1, LeftAlone DEF UInv, Types, Machines
<1>3. NewerIsNewer'
  BY <1>1 DEF UInv, CommandInv, NewerIsNewer, Types, Packages
<1>4. CommandInv'
  BY <1>1, <1>3 DEF UInv, CommandInv, MovesTold, SaidFails, UpgradesInstall, NotYet, CodeTells,
                    OnlyUpgradesLook, MovedOn, StoppedFirst, ServesNew, After, Before
<1> QED
  BY <1>2, <1>4 DEF UInv

LEMMA StartUpgradeKept ==
    ASSUME UInv, NEW force \in BOOLEAN, StartUpgrade(force)
    PROVE  UInv'
<1>1. /\ cmd' \in Orders
      /\ cmd'.kind = "upgrade" /\ cmd'.at = "halt" /\ cmd'.was = disk
      /\ cmd'.told = "nothing"
  BY DEF StartUpgrade, NoCommand, Orders, UInv, Types, Kinds, Points
<1>2. UNCHANGED <<released, disk, svc, server>>
  BY DEF StartUpgrade
<1>3. Types' /\ ServersInv'
  BY <1>1, <1>2, LeftAlone DEF UInv, Types, Machines
<1>4. NewerIsNewer'
  BY <1>1, <1>2 DEF UInv, CommandInv, NewerIsNewer, Types, Packages
<1>5. CommandInv'
  BY <1>1, <1>2, <1>4 DEF UInv, CommandInv, MovesTold, SaidFails, UpgradesInstall, NotYet,
              CodeTells, OnlyUpgradesLook, MovedOn, StoppedFirst, ServesNew, After, Before
<1> QED
  BY <1>3, <1>5 DEF UInv

\* A command goes on, and nothing is installed: what is left to say is where
\* the job stands and what it runs.
Onward ==
  /\ UNCHANGED <<released, disk>>
  /\ cmd' \in Orders
  /\ cmd'.kind = cmd.kind /\ cmd'.was = cmd.was /\ cmd'.newer = cmd.newer /\ cmd'.told = cmd.told
  /\ cmd'.at \in Before => cmd.at \in Before
  /\ cmd'.at # "handoff"
  /\ cmd'.failed \/ cmd'.at \in Before \/ cmd.kind # "upgrade" \/ (~cmd.failed /\ cmd.at \notin Before)
  /\ cmd'.at = "done" /\ cmd'.code = 0 => ~cmd'.failed
  /\ cmd.failed /\ cmd.kind = "upgrade" => cmd'.failed

LEMMA OnwardKept ==
    ASSUME UInv, Machines', ServersInv', Onward, StoppedFirst', ServesNew'
    PROVE  UInv'
<1>1. Types'
  BY DEF UInv, Types, Machines, Onward
<1>2. MovesTold' /\ SaidFails' /\ UpgradesInstall' /\ NotYet' /\ NewerIsNewer'
  BY DEF UInv, CommandInv, MovesTold, Said, SaidFails, UpgradesInstall, NotYet, NewerIsNewer, Onward, Before
<1>3. CodeTells' /\ OnlyUpgradesLook' /\ MovedOn'
  BY DEF UInv, CommandInv, CodeTells, OnlyUpgradesLook, MovedOn, Onward
<1> QED
  BY <1>1, <1>2, <1>3 DEF UInv, CommandInv

LEMMA ServiceCommandKept ==
    ASSUME UInv, ServiceCommand
    PROVE  UInv'
<1>1. PICK kind \in {"start", "stop", "restart", "uninstall", "install"} :
         Command(kind, IF kind = "install" THEN "again" ELSE IF kind = "start" THEN "start" ELSE "stop")
  BY DEF ServiceCommand
<1>2. PICK at \in {"again", "start", "stop"} :
         /\ at = (IF kind = "install" THEN "again" ELSE IF kind = "start" THEN "start" ELSE "stop")
         /\ at = "start" => kind = "start"
  OBVIOUS
<1>3. cmd' = [NoCommand EXCEPT !.kind = kind, !.at = at, !.was = disk]
  BY <1>1, <1>2 DEF Command
<1>4. kind \in Kinds /\ at \in Points \ Before /\ at \notin After \cup {"wait", "handoff"}
  BY DEF Kinds, Points, Before, After
<1>5. UNCHANGED <<released, disk, svc, server>>
  BY DEF ServiceCommand
<1> QED
  BY <1>2, <1>3, <1>4, <1>5, CommandKept

LEMMA EnsureAgentKept ==
    ASSUME UInv, NEW next \in {"unit", "again"}, cmd.at \notin Before, EnsureAgent(next),
           UNCHANGED <<released, svc, server>>
    PROVE  UInv'
<1>1. /\ disk' \in Packages
      /\ disk'.ver \in {disk.ver, released}
      /\ cmd' \in Orders
      /\ cmd'.at = next /\ cmd'.kind = cmd.kind /\ cmd'.was = cmd.was
      /\ cmd'.newer = cmd.newer /\ cmd'.failed = cmd.failed
      /\ cmd'.told \in {cmd.told, "source"}
      /\ <<disk'.mux, disk'.kit>> # <<disk.mux, disk.kit>> => cmd'.told = "source"
  BY EnsureAgentFacts DEF UInv, Points
<1>2. Types' /\ ServersInv'
  BY <1>1, LeftAlone DEF UInv, Types, Machines
<1>3. MovesTold' /\ SaidFails' /\ UpgradesInstall'
  BY <1>1 DEF UInv, CommandInv, MovesTold, Said, SaidFails, UpgradesInstall
<1>4. NewerIsNewer' /\ MovedOn'
  <2>1. disk.ver \in Nat /\ released \in Nat /\ cmd.was.ver \in Nat
    BY DEF UInv, Types, Orders, Packages
  <2>2. cmd.was.ver <= disk.ver /\ disk.ver <= released
    BY DEF UInv, CommandInv, NewerIsNewer
  <2>3. cmd.newer /\ ~cmd.failed => disk.ver # cmd.was.ver
    BY DEF UInv, CommandInv, MovedOn
  <2> QED
    BY <1>1, <2>1, <2>2, <2>3 DEF NewerIsNewer, MovedOn
<1>5. NotYet' /\ CodeTells' /\ OnlyUpgradesLook' /\ StoppedFirst' /\ ServesNew'
  BY <1>1 DEF UInv, CommandInv, NotYet, CodeTells, OnlyUpgradesLook, StoppedFirst, ServesNew, After, Before
<1> QED
  BY <1>2, <1>3, <1>4, <1>5 DEF UInv, CommandInv

LEMMA AgentKept ==
    ASSUME UInv, AgentAgain \/ Agent
    PROVE  UInv'
  BY EnsureAgentKept DEF AgentAgain, Agent, Before

\* A step that raises: an upgrade goes to its finally, another command ends.
LEMMA RaisedFacts ==
    ASSUME UInv, Raised, UNCHANGED <<released, disk>>
    PROVE  Onward /\ cmd'.failed /\ cmd'.at \in {"restart", "done"}
<1>1. CASE cmd.kind = "upgrade"
  BY <1>1 DEF Raised, Onward, UInv, Types, Orders, Points, Before
<1>2. CASE cmd.kind # "upgrade"
  <2>1. cmd' = [cmd EXCEPT !.at = "done", !.failed = TRUE, !.code = 1]
    BY <1>2 DEF Raised, Finished
  <2>2. /\ cmd' \in Orders
        /\ cmd'.kind = cmd.kind /\ cmd'.was = cmd.was /\ cmd'.newer = cmd.newer
        /\ cmd'.told = cmd.told /\ cmd'.at = "done" /\ cmd'.failed
    BY <2>1 DEF UInv, Types, Orders, Points
  <2>3. cmd'.code = 1
    BY <2>1 DEF UInv, Types, Orders
  <2> QED
    BY <2>2, <2>3 DEF Onward, Before
<1> QED
  BY <1>1, <1>2

LEMMA FinishedFacts ==
    ASSUME UInv, UNCHANGED <<released, disk>>, cmd.at \notin Before,
           \/ Finished(TRUE)
           \/ Finished(FALSE) /\ (cmd.failed => cmd.kind # "upgrade")
           \/ Finished(cmd.failed)
    PROVE  /\ Onward /\ cmd'.at = "done"
           /\ cmd.failed /\ cmd.kind = "upgrade" => cmd'.failed
<1>1. PICK failed \in BOOLEAN : Finished(failed) /\ (cmd.failed /\ cmd.kind = "upgrade" => failed)
  BY DEF UInv, Types, Orders
<1>2. cmd' = [cmd EXCEPT !.at = "done", !.failed = failed, !.code = IF failed THEN 1 ELSE 0]
  BY <1>1 DEF Finished
<1>3. PICK code \in {0, 1} : code = (IF failed THEN 1 ELSE 0)
  OBVIOUS
<1>4. cmd' = [cmd EXCEPT !.at = "done", !.failed = failed, !.code = code]
  BY <1>2, <1>3
<1>5. /\ cmd' \in Orders
      /\ cmd'.kind = cmd.kind /\ cmd'.was = cmd.was /\ cmd'.newer = cmd.newer
      /\ cmd'.told = cmd.told /\ cmd'.at = "done" /\ cmd'.failed = failed /\ cmd'.code = code
  BY <1>4 DEF UInv, Types, Orders, Points
<1> QED
  BY <1>1, <1>3, <1>5 DEF Onward, Before, UInv, Types, Orders

LEMMA GoesOnFacts ==
    ASSUME UInv, UNCHANGED <<released, disk>>, NEW at \in Points \ {"done", "handoff"},
           cmd' = [cmd EXCEPT !.at = at],
           at \in Before <=> cmd.at \in Before
    PROVE  Onward /\ cmd'.at = at /\ cmd'.failed = cmd.failed
  BY DEF Onward, UInv, Types, Orders

LEMMA UnitKept ==
    ASSUME UInv, Unit
    PROVE  UInv'
<1>1. Machines' /\ ServersInv'
  <2>1. PICK enabled \in BOOLEAN : svc' = [svc EXCEPT !.file = TRUE, !.enabled = enabled]
    BY DEF Unit, UInv, Types, Jobs
  <2>2. UNCHANGED server
    BY DEF Unit
  <2> QED
    BY <2>1, <2>2 DEF UInv, Types, Jobs, Machines, ServersInv, MainRuns, FoundHold, NothingHealthyMeant,
                      Holders, Serving
<1>2. CASE cmd' = [cmd EXCEPT !.at = "stop"]
  <2>1. Onward /\ cmd'.at = "stop"
    BY <1>2, GoesOnFacts DEF Unit, Points, Before
  <2> QED
    BY <1>1, <2>1, OnwardKept DEF StoppedFirst, ServesNew, After
<1>3. CASE Raised
  BY <1>1, <1>3, RaisedFacts, OnwardKept DEF Unit, StoppedFirst, ServesNew
<1> QED
  BY <1>2, <1>3 DEF Unit

LEMMA CommandStopsKept ==
    ASSUME UInv, CommandStops
    PROVE  UInv'
<1>1. Machines' /\ ServersInv' /\ svc'.job # "on"
  BY StopKept DEF CommandStops, UInv
<1>2. Onward /\ cmd'.at = "wait"
  BY DEF CommandStops, Onward, UInv, Types, Orders, Points, Before
<1> QED
  BY <1>1, <1>2, OnwardKept DEF StoppedFirst, ServesNew, After

LEMMA CommandWaitsKept ==
    ASSUME UInv, CommandWaits
    PROVE  UInv'
<1>1. /\ cmd.at = "wait" /\ svc.job # "on" /\ UNCHANGED <<released, disk, server>>
      /\ UNCHANGED svc \/ (cmd.kind = "uninstall" /\ Forgotten)
  BY DEF CommandWaits, UInv, CommandInv, StoppedFirst
<1>2. Machines' /\ ServersInv' /\ svc'.job # "on"
  BY <1>1 DEF Forgotten, UInv, Types, Jobs, Machines, ServersInv, MainRuns, FoundHold,
              NothingHealthyMeant, Holders, Serving
<1>3. CASE /\ cmd.kind \in {"uninstall", "stop"}
           /\ Finished(FALSE)
  <2>1. Onward /\ cmd'.at = "done" /\ cmd'.kind = cmd.kind
    BY <1>1, <1>3, FinishedFacts DEF Before, Onward
  <2> QED
    BY <1>2, <1>3, <2>1, OnwardKept DEF StoppedFirst, ServesNew, Replacing
<1>4. CASE Finished(TRUE)
  BY <1>1, <1>2, <1>4, FinishedFacts, OnwardKept DEF StoppedFirst, ServesNew, Before, Onward, Finished
<1>5. CASE cmd' = [cmd EXCEPT !.at = "start"]
  <2>1. Onward /\ cmd'.at = "start"
    BY <1>1, <1>5, GoesOnFacts DEF Points, Before
  <2> QED
    BY <1>2, <2>1, OnwardKept DEF StoppedFirst, ServesNew, After
<1> QED
  BY <1>3, <1>4, <1>5 DEF CommandWaits

LEMMA CommandStartsKept ==
    ASSUME UInv, CommandStarts
    PROVE  UInv'
<1> DEFINE then == IF cmd.kind = "upgrade" THEN cmd' = [cmd EXCEPT !.at = "restart"] ELSE Finished(FALSE)
<1>1. cmd.at = "start" /\ UNCHANGED <<released, disk>>
  BY DEF CommandStarts
<1>2. ASSUME then
      PROVE  /\ Onward /\ cmd'.at \in {"restart", "done"} /\ cmd'.kind = cmd.kind
             /\ StoppedFirst'
  <2>1. CASE cmd.kind = "upgrade"
    <3>1. Onward /\ cmd'.at = "restart"
      BY <1>1, <1>2, <2>1, GoesOnFacts DEF Points, Before
    <3> QED
      BY <3>1 DEF Onward, StoppedFirst
  <2>2. CASE cmd.kind # "upgrade"
    BY <1>1, <1>2, <2>2, FinishedFacts DEF Before, Onward, StoppedFirst
  <2> QED
    BY <2>1, <2>2
<1> HIDE DEF then
<1>3. CASE Launch /\ then
  <2>1. Machines' /\ ServersInv' /\ Fresh'
    BY <1>1, <1>3, LaunchKept DEF UInv
  <2> QED
    BY <1>2, <1>3, <2>1, OnwardKept DEF ServesNew
<1>4. CASE svc.job # "off" /\ cmd.kind = "start" /\ UNCHANGED <<svc, server>> /\ then
  BY <1>2, <1>4, LeftAlone, OnwardKept DEF ServesNew, Replacing
<1>5. CASE UNCHANGED <<svc, server>> /\ Raised
  BY <1>1, <1>5, RaisedFacts, LeftAlone, OnwardKept DEF StoppedFirst, ServesNew
<1>6. svc.job = "on" => cmd.kind = "start"
  BY <1>1 DEF UInv, CommandInv, StoppedFirst
<1> QED
  BY <1>3, <1>4, <1>5, <1>6 DEF CommandStarts, Accepts, then

-----------------------------------------------------------------------------
(* The steps of an upgrade *)

LEMMA HaltKept ==
    ASSUME UInv, Halt \/ Halted
    PROVE  UInv'
<1>1. Machines' /\ ServersInv'
  BY StopKept, LeftAlone DEF Halt, Halted, UInv
<1>2. Onward /\ cmd'.at \in {"halting", "install"}
  BY DEF Halt, Halted, Onward, UInv, Types, Orders, Points, Before
<1> QED
  BY <1>1, <1>2, OnwardKept DEF StoppedFirst, ServesNew, After

LEMMA FailsFacts ==
    ASSUME UInv, NEW told \in {"nothing", "version", "source"}, Fails(told)
    PROVE  /\ cmd' \in Orders /\ cmd'.at = "restart" /\ cmd'.failed /\ cmd'.told = told
           /\ cmd'.kind = cmd.kind /\ cmd'.was = cmd.was /\ cmd'.newer = cmd.newer
  BY DEF Fails, UInv, Types, Orders, Points

LEMMA InstallKept ==
    ASSUME UInv, Install
    PROVE  UInv'
<1>1. cmd.at = "install" /\ disk = cmd.was /\ UNCHANGED <<released, svc, server>>
  BY DEF Install, UInv, CommandInv, NotYet, Before
<1>2. Machines' /\ ServersInv'
  BY <1>1, LeftAlone
<1>3. /\ disk' \in Packages /\ disk.ver <= disk'.ver /\ disk'.ver <= released
      /\ \/ Fails("nothing") /\ disk' = disk
         \/ Fails("version")
         \/ Fails("source")
         \/ /\ cmd' = [cmd EXCEPT !.at = "handoff"]
            /\ cmd.newer => disk'.ver # cmd.was.ver
            /\ <<disk'.mux, disk'.kit>> = <<cmd.was.mux, cmd.was.kit>>
  <2>1. disk \in Packages /\ disk.ver <= released /\ released \in Nat
    BY DEF UInv, Types, CommandInv, NewerIsNewer
  <2>2. CASE Refused
    BY <2>1, <2>2 DEF Refused, Packages
  <2> SUFFICES ASSUME disk' \in Installed(disk)
               PROVE  disk' \in Packages /\ disk.ver <= disk'.ver /\ disk'.ver <= released
    BY <2>2 DEF Install, Moved, OnDisk, ShapeKept
  <2>3. disk' \in Packages /\ disk'.ver \in {disk.ver, released}
    BY InstalledFacts DEF UInv
  <2> QED
    BY <2>1, <2>3 DEF Packages
<1>4. /\ cmd' \in Orders /\ cmd'.at \in {"restart", "handoff"}
      /\ cmd'.kind = cmd.kind /\ cmd'.was = cmd.was /\ cmd'.newer = cmd.newer
      /\ cmd'.at = "restart" => cmd'.failed
      /\ cmd'.failed \/ (cmd.newer => disk'.ver # cmd.was.ver)
      /\ <<disk'.mux, disk'.kit>> = <<cmd.was.mux, cmd.was.kit>> \/ Said'
      /\ cmd'.told = "version" => cmd'.failed
  <2>1. CASE cmd' = [cmd EXCEPT !.at = "handoff"]
    <3>1. /\ cmd' \in Orders /\ cmd'.at = "handoff" /\ cmd'.told = cmd.told /\ cmd'.failed = cmd.failed
          /\ cmd'.kind = cmd.kind /\ cmd'.was = cmd.was /\ cmd'.newer = cmd.newer
      BY <2>1 DEF UInv, Types, Orders, Points
    <3>2. cmd'.at # "restart"
      BY <3>1
    <3>3. ~Fails("nothing") /\ ~Fails("version") /\ ~Fails("source")
      BY <3>2 DEF Fails, UInv, Types, Orders
    <3> QED
      BY <1>3, <3>1, <3>3 DEF UInv, CommandInv, SaidFails
  <2>2. ASSUME NEW told \in {"nothing", "version", "source"}, Fails(told)
        PROVE  /\ cmd' \in Orders /\ cmd'.at = "restart" /\ cmd'.failed /\ cmd'.told = told
               /\ cmd'.kind = cmd.kind /\ cmd'.was = cmd.was /\ cmd'.newer = cmd.newer
    BY <2>2, FailsFacts
  <2> QED
    BY <1>1, <1>3, <2>1, <2>2 DEF Said
<1>5. Types'
  BY <1>1, <1>2, <1>3, <1>4 DEF UInv, Types, Machines
<1>6. MovesTold' /\ UpgradesInstall' /\ NotYet' /\ NewerIsNewer' /\ CodeTells' /\ OnlyUpgradesLook'
  BY <1>1, <1>3, <1>4 DEF UInv, CommandInv, MovesTold, UpgradesInstall, NotYet, NewerIsNewer, CodeTells,
                          OnlyUpgradesLook, Before
<1>7. MovedOn' /\ StoppedFirst' /\ ServesNew'
  BY <1>4 DEF MovedOn, StoppedFirst, ServesNew, After
<1>8. SaidFails'
  BY <1>1, <1>4 DEF UInv, CommandInv, SaidFails, UpgradesInstall, Before
<1> QED
  BY <1>2, <1>5, <1>6, <1>7, <1>8 DEF UInv, CommandInv

LEMMA HandOffKept ==
    ASSUME UInv, HandOff
    PROVE  UInv'
<1>1. cmd.at = "handoff" /\ UNCHANGED <<released, disk, svc, server>>
  BY DEF HandOff
<1>2. Machines' /\ ServersInv'
  BY <1>1, LeftAlone
<1>3. Onward /\ (cmd'.at = "agent" \/ (cmd'.failed /\ cmd'.at \in {"restart", "done"}))
  <2>1. CASE cmd' = [cmd EXCEPT !.at = "agent"]
    BY <1>1, <2>1, GoesOnFacts DEF Points, Before
  <2>2. CASE Fails(cmd.told)
    <3>1. cmd.told \in {"nothing", "version", "source"}
      BY DEF UInv, Types, Orders
    <3> QED
      BY <1>1, <2>2, <3>1, FailsFacts DEF Onward, Before
  <2>3. CASE Finished(TRUE)
    <3>1. cmd'.failed
      BY <2>3 DEF Finished, UInv, Types, Orders
    <3> QED
      BY <1>1, <2>3, <3>1, FinishedFacts DEF Before
  <2> QED
    BY <2>1, <2>2, <2>3 DEF HandOff
<1>4. StoppedFirst' /\ ServesNew'
  BY <1>3 DEF StoppedFirst, ServesNew, After
<1> QED
  BY <1>2, <1>3, <1>4, OnwardKept

LEMMA RestartKept ==
    ASSUME UInv, RestartService
    PROVE  UInv'
<1>1. cmd.at = "restart" /\ UNCHANGED <<released, disk>>
  BY DEF RestartService
<1>2. Onward /\ cmd'.at \in {"verify", "done"} /\ (cmd.failed /\ cmd.kind = "upgrade" => cmd'.failed)
      /\ cmd'.kind = cmd.kind
  <2>1. CASE cmd' = [cmd EXCEPT !.at = "verify"]
    BY <1>1, <2>1, GoesOnFacts DEF Points, Before, Onward
  <2>2. CASE Finished(cmd.failed)
    BY <1>1, <2>2, FinishedFacts DEF Before, Onward
  <2> QED
    BY <2>1, <2>2 DEF RestartService
<1>3. Machines' /\ ServersInv' /\ (Fresh => Fresh')
  BY <1>1, LaunchKept, LeftAlone DEF RestartService, UInv
<1>4. ServesNew'
  <2>1. CASE cmd.failed
    <3>1. CASE cmd' = [cmd EXCEPT !.at = "verify"]
      BY <1>1, <2>1, <3>1, GoesOnFacts DEF Points, Before, ServesNew
    <3>2. CASE Finished(cmd.failed)
      BY <2>1, <3>2 DEF Finished, ServesNew, UInv, Types, Orders
    <3> QED
      BY <3>1, <3>2 DEF RestartService
  <2>2. CASE ~cmd.failed
    BY <1>1, <1>2, <1>3, <2>2 DEF UInv, CommandInv, ServesNew, After
  <2> QED
    BY <2>1, <2>2
<1> QED
  BY <1>2, <1>3, <1>4, OnwardKept DEF StoppedFirst

LEMMA VerifyKept ==
    ASSUME UInv, Verify
    PROVE  UInv'
<1>1. cmd.at \in {"verify", "verify again"} /\ UNCHANGED <<released, disk>>
  BY DEF Verify
<1>2. CASE cmd' = [cmd EXCEPT !.at = "verify again"] /\ Launch
  <2>1. Machines' /\ ServersInv' /\ Fresh'
    BY <1>1, <1>2, LaunchKept DEF UInv
  <2>2. Onward /\ cmd'.at = "verify again"
    BY <1>1, <1>2, GoesOnFacts DEF Points, Before
  <2> QED
    BY <2>1, <2>2, OnwardKept DEF StoppedFirst, ServesNew
<1>3. ASSUME NEW failed \in {TRUE, cmd.failed}, Finished(failed), UNCHANGED <<svc, server>>
      PROVE  UInv'
  <2>1. Machines' /\ ServersInv' /\ (Fresh => Fresh')
    BY <1>1, <1>3, LeftAlone
  <2>2. Onward /\ cmd'.at = "done"
    BY <1>1, <1>3, FinishedFacts DEF Before
  <2>3. cmd.failed => cmd'.failed
    BY <1>3 DEF Finished, UInv, Types, Orders
  <2>4. StoppedFirst' /\ ServesNew'
    BY <1>1, <2>1, <2>2, <2>3 DEF StoppedFirst, ServesNew, UInv, CommandInv, After, Onward
  <2> QED
    BY <2>1, <2>2, <2>4, OnwardKept
<1> QED
  BY <1>2, <1>3 DEF Verify

LEMMA ReleaseKept ==
    ASSUME UInv, Release
    PROVE  UInv'
<1>1. released' = released + 1 /\ UNCHANGED <<disk, svc, server, cmd>>
  BY DEF Release
<1>2. NewerIsNewer'
  BY <1>1 DEF UInv, Types, Orders, Packages, CommandInv, NewerIsNewer
<1>3. Types' /\ ServersInv' /\ (Fresh' <=> Fresh)
  BY <1>1, LeftAlone DEF UInv, Types
<1> QED
  BY <1>1, <1>2, <1>3 DEF UInv, CommandInv, MovesTold, Said, SaidFails, UpgradesInstall, NotYet, CodeTells,
                          OnlyUpgradesLook, MovedOn, StoppedFirst, ServesNew

LEMMA ServersStepKept ==
    ASSUME UInv, ServerStep
    PROVE  UInv'
<1>1. /\ Machines' /\ ServersInv' /\ (Fresh => Fresh')
      /\ svc.job # "on" => svc'.job # "on"
      /\ UNCHANGED <<released, disk, cmd>>
  BY ServerStepKept DEF UInv
<1> QED
  BY <1>1 DEF UInv, Types, Machines, CommandInv, MovesTold, Said, SaidFails, UpgradesInstall, NotYet,
              NewerIsNewer, CodeTells, OnlyUpgradesLook, MovedOn, StoppedFirst, ServesNew

-----------------------------------------------------------------------------
(* The invariant, and what follows from it *)

LEMMA InitInv == UpgradeInit => UInv
<1> SUFFICES ASSUME UpgradeInit
             PROVE  UInv
  OBVIOUS
<1>1. released \in Nat /\ disk \in Packages /\ disk.ver = 1 /\ disk.ver <= released
  BY ServiceAssumption DEF UpgradeInit, Packages
<1>2. /\ cmd \in Orders /\ cmd.was = disk /\ cmd.at = "done" /\ cmd.kind = "none"
      /\ ~cmd.newer /\ ~cmd.failed /\ cmd.told = "nothing"
  BY <1>1 DEF UpgradeInit, NoCommand, Orders, Kinds, Points
<1>3. PICK m \in Managers, file, enabled, running \in BOOLEAN :
         /\ svc = [manager |-> m, file |-> file, enabled |-> enabled,
                   job |-> IF running THEN "on" ELSE "off", main |-> IF running THEN 1 ELSE Nobody]
         /\ server = [p \in Pids |-> IF running /\ p = 1 THEN [Dead EXCEPT !.at = "serving", !.ver = 1] ELSE Dead]
  BY DEF UpgradeInit
<1>4. 1 \in Pids
  BY ServiceAssumption DEF Pids
<1>5. Machines
  BY <1>3, <1>4 DEF Machines, Jobs, Servers, Dead, Places
<1>6. ServersInv
  BY <1>3, <1>4 DEF ServersInv, MainRuns, FoundHold, NothingHealthyMeant, Dead, Nobody
<1>7. CommandInv
  BY <1>1, <1>2 DEF CommandInv, MovesTold, SaidFails, UpgradesInstall, NotYet, NewerIsNewer, CodeTells,
                    OnlyUpgradesLook, MovedOn, StoppedFirst, ServesNew, Before, Replacing, Packages
<1> QED
  BY <1>1, <1>2, <1>5, <1>6, <1>7 DEF UInv, Types, Machines

LEMMA NextInv == UInv /\ [UpgradeNext]_upgradeVars => UInv'
<1> SUFFICES ASSUME UInv, [UpgradeNext]_upgradeVars
             PROVE  UInv'
  OBVIOUS
<1>1. CASE ServerStep
  BY <1>1, ServersStepKept
<1>2. CASE Release
  BY <1>2, ReleaseKept
<1>3. CASE \E force \in BOOLEAN : StartUpgrade(force)
  BY <1>3, StartUpgradeKept
<1>4. CASE Commands
  BY <1>4, ServiceCommandKept, AgentKept, UnitKept, CommandStopsKept, CommandWaitsKept,
     CommandStartsKept DEF Commands
<1>5. CASE Halt \/ Halted
  BY <1>5, HaltKept
<1>6. CASE Install
  BY <1>6, InstallKept
<1>7. CASE HandOff \/ Agent
  BY <1>7, HandOffKept, AgentKept
<1>8. CASE RestartService \/ Verify
  BY <1>8, RestartKept, VerifyKept
<1>9. CASE UNCHANGED upgradeVars
  <2>1. UNCHANGED <<released, disk, svc, server, cmd>>
    BY <1>9 DEF upgradeVars
  <2>2. Types' /\ ServersInv' /\ (Fresh' <=> Fresh)
    BY <2>1, LeftAlone DEF UInv, Types
  <2> QED
    BY <2>1, <2>2 DEF UInv, CommandInv, MovesTold, Said, SaidFails, UpgradesInstall, NotYet, NewerIsNewer,
                      CodeTells, OnlyUpgradesLook, MovedOn, StoppedFirst, ServesNew
<1> QED
  BY <1>1, <1>2, <1>3, <1>4, <1>5, <1>6, <1>7, <1>8, <1>9 DEF UpgradeNext, ServerStep

THEOREM UpgradeInvariance == UpgradeSpec => []UInv
  BY InitInv, NextInv, PTL DEF UpgradeSpec

\* No command changes where muxplex or tmux-kit is installed from without a
\* word: the installer, a stale index, the agent's installation and the child
\* of the upgrade included.  The exception is in the statement: an upgrade that
\* failed because of the version.
THEOREM SourcesAreTold == UpgradeSpec => []SourcesNeverSilent
<1>1. UInv => SourcesNeverSilent
  BY DEF UInv, CommandInv, MovesTold, Said, SourcesNeverSilent
<1> QED
  BY <1>1, UpgradeInvariance, PTL

\* An upgrade, an installation or a restart that reports success has left no
\* process of the service on an older muxplex, whatever crashed, hung or was
\* started by hand meanwhile.
THEOREM SuccessServesNew == UpgradeSpec => []SuccessIsServed
<1>1. UInv => SuccessIsServed
  BY DEF UInv, CommandInv, CodeTells, ServesNew, MovedOn, Fresh, SuccessIsServed, Replacing, After, Before
<1> QED
  BY <1>1, UpgradeInvariance, PTL

\* A start that was about to kill binds the port by its own step only.
LEMMA OnlyKillBinds ==
    ASSUME UInv, UpgradeNext, NEW p \in Pids, server[p].at = "killing", server'[p].at = "binding"
    PROVE  Kill(p)
<1> DEFINE Binds == server'[p].at = "binding"
<1>1. UNCHANGED server => ~Binds
  OBVIOUS
<1>2. ASSUME NEW q \in Pids, NEW at \in {"starting", "elsewhere"}, NEW force \in BOOLEAN, Started(q, at, force)
      PROVE  ~Binds
  BY <1>2, StartedFacts DEF UInv
<1>3. ASSUME NEW q \in Pids, NEW clean \in BOOLEAN, Ends(q, clean)
      PROVE  ~Binds
  BY <1>3, EndsFacts DEF UInv, Dead
<1>4. ASSUME NEW victims, NEW binds, Signalled(victims, binds), p \notin binds
      PROVE  ~Binds
  BY <1>4 DEF Signalled, Dead, Told
<1>5. Stop => ~Binds
  BY <1>1, <1>4, StopFacts DEF UInv
<1>6. Launch => ~Binds
  BY <1>2, LaunchFacts DEF UInv
<1>7. ASSUME NEW q \in Pids, NEW v, server[q].at # "killing", server' = [server EXCEPT ![q] = v]
      PROVE  ~Binds
  BY <1>7 DEF UInv, Types
<1>8. ASSUME NEW q \in Pids, Steps(q) \/ Drain(q) \/ Crash(q) \/ Hang(q) \/ HandStops(q), ~Kill(p)
      PROVE  ~Binds
  <2>1. CASE \E works \in BOOLEAN : List(q, works)
    BY <1>7, <2>1 DEF List
  <2>2. CASE Probe(q)
    BY <1>3, <1>7, <2>2 DEF Probe
  <2>3. CASE Kill(q)
    BY <1>4, <1>8, <2>3, KillFacts DEF UInv
  <2>4. CASE TakePort(q)
    BY <1>3, <1>7, <2>4 DEF TakePort
  <2>5. CASE Drain(q) \/ Crash(q)
    BY <1>3, <2>5 DEF Drain, Crash
  <2>6. CASE Hang(q)
    BY <1>7, <2>6 DEF Hang
  <2>7. CASE HandStops(q)
    BY <1>4, <2>7, TermedAll DEF HandStops, UInv
  <2> QED
    BY <1>8, <2>1, <2>2, <2>3, <2>4, <2>5, <2>6, <2>7 DEF Steps
<1> HIDE DEF Binds
<1>9. ~Commands
  BY <1>1, <1>5, <1>6
  DEF Commands, ServiceCommand, AgentAgain, Unit, CommandStops, CommandWaits, CommandStarts, Binds
<1>10. ~(Release \/ Halt \/ Halted \/ Install \/ HandOff \/ Agent \/ RestartService \/ Verify)
  BY <1>1, <1>5, <1>6 DEF Release, Halt, Halted, Install, HandOff, Agent, RestartService, Verify, Binds
<1>11. /\ ~ByHand("elsewhere", FALSE)
       /\ \A force \in BOOLEAN : ~ByHand("starting", force) /\ ~StartUpgrade(force)
  BY <1>1, <1>2 DEF ByHand, StartUpgrade, Binds
<1>12. ~ManagerRestarts
  BY <1>6 DEF ManagerRestarts, Binds
<1>13. PICK q \in Pids : Steps(q) \/ Drain(q) \/ Crash(q) \/ Hang(q) \/ HandStops(q)
  BY <1>9, <1>10, <1>11, <1>12 DEF UpgradeNext
<1> QED
  BY <1>8, <1>13 DEF Binds

\* What a start without --force-take-port ends does not serve, on this port or
\* on another: who it listed is asked for an answer first, and who comes to serve
\* later was not listed.  The exceptions are in the statement: who lsof listed as
\* a client of the port, and who was asked and did not answer.
THEOREM HealthyAreLeft == UpgradeSpec => HealthyIsLeft
<1> DEFINE Left(p, q) ==
      server[p].at = "killing" /\ server'[p].at = "binding" /\ ~server[p].force
      /\ Healthy(q) /\ server'[q].at # server[q].at => q \in server[p].doubted
<1>1. ASSUME UInv, [UpgradeNext]_upgradeVars, NEW p \in Pids, NEW q \in Pids
      PROVE  Left(p, q)
  <2> SUFFICES ASSUME server[p].at = "killing", server'[p].at = "binding", ~server[p].force,
                      Healthy(q), server'[q].at # server[q].at
               PROVE  q \in server[p].doubted
    OBVIOUS
  <2>1. UpgradeNext
    BY <1>1 DEF upgradeVars
  <2>2. Kill(p)
    BY <1>1, <2>1, OnlyKillBinds
  <2>3. q # p
    BY DEF Healthy
  <2>4. q \in server[p].found
    BY <1>1, <2>2, <2>3, KillFacts DEF UInv, Signalled
  <2>5. CASE server[q].at = "serving"
    BY <1>1, <2>4, <2>5 DEF UInv, ServersInv, NothingHealthyMeant, Serving
  <2>6. CASE server[q].at = "elsewhere"
    BY <1>1, <2>4, <2>6 DEF UInv, ServersInv, FoundHold, Holders
  <2> QED
    BY <2>5, <2>6 DEF Healthy
<1>2. UInv /\ [UpgradeNext]_upgradeVars => [\A p, q \in Pids : Left(p, q)]_upgradeVars
  BY <1>1
<1> QED
  BY <1>2, UpgradeInvariance, PTL DEF UpgradeSpec, HealthyIsLeft

-----------------------------------------------------------------------------
(* For any sessions, handlers, processes and limits: no ttyd is left that
   nothing leads to, and no relay is counted for ever. *)

\* A process that was spawned serves the session it was spawned for.
Serves(p, s) == p \in Procs /\ s \in Sessions /\ proc[p].state # "unused" /\ proc[p].session = s
InUse(p) == p \in Procs /\ proc[p].state # "unused" /\ proc[p].session \in Sessions

RightTask(k) ==
    /\ k.pc # "idle" => k.session \in Sessions
    /\ k.pc \in {"kill", "evict"} => InUse(k.proc)
    /\ k.pc = "wait" => Serves(k.proc, k.session)
    /\ k.pc \in {"dial", "relay"} /\ k.proc # None => Serves(k.proc, k.session)
TasksRight == \A t \in Tasks, k \in TaskRecords : task[t] = k => RightTask(k)

RegistryRight == \A s \in Sessions, p \in Procs : registry[s] = p => Serves(p, s)
ReaperRight == reaper.proc # None => InUse(reaper.proc)

Runs(p) == proc[p].state \in {"starting", "bound"}
Recorded(p) == \E x \in Paths : run[x] = p

\* What the registry has and runs is in a run file, for the next start.
RegisteredRecorded ==
    \A s \in Sessions, p \in Procs : registry[s] = p /\ Runs(p) => Recorded(p) \/ p \in lost

LeadsTo == \A p \in Procs : Runs(p) => Held(p) \/ p \in lost

RightPlaces == TasksRight /\ RegistryRight /\ ReaperRight
TtydInv == TypeOK /\ RightPlaces /\ RegisteredRecorded /\ LeadsTo /\ RelaysAreReal

USE NoneAssumption, PathAssumption, FiniteAssumption

LEMMA TtydInit == Init => TtydInv
  <1> SUFFICES ASSUME Init PROVE TtydInv  OBVIOUS
  <1>1. Cardinality(Tasks) \in Nat  BY FS_CardinalityType
  <1>2. TypeOK
    BY <1>1 DEF Init, TypeOK, Unused, Idle, Resting, ProcRecords, TaskRecords, Alive, Pc
  <1>3. TasksRight  BY DEF Init, TasksRight, RightTask, Idle
  <1>4. RegistryRight /\ ReaperRight  BY DEF Init, RegistryRight, ReaperRight, Resting
  <1>5. RegisteredRecorded  BY DEF Init, RegisteredRecorded
  <1>6. LeadsTo  BY DEF Init, LeadsTo, Runs, Unused
  <1>7. RelaysAreReal  BY DEF Init, RelaysAreReal, Registered
  <1> QED  BY <1>2, <1>3, <1>4, <1>5, <1>6, <1>7 DEF TtydInv, RightPlaces

-----------------------------------------------------------------------------
(* Steps by what they do to the processes *)

\* No process enters the registry, and what leaves it is told to end.
ProcsStay ==
    \A p \in Procs : proc[p].state # "unused" =>
                       proc'[p].state # "unused" /\ proc'[p].session = proc[p].session
Ebb ==
    /\ \A s \in Sessions : registry'[s] \in {registry[s], None}
    /\ ProcsStay
    /\ \A p \in Procs :
          Runs(p)' => Runs(p) /\ \A s \in Sessions : registry[s] = p => registry'[s] = p

\* A process whose run file goes does not run, or the history has it.
FilesGo ==
    \A x \in Paths, p \in Procs : run[x] = p /\ run'[x] # p => p \in lost' \/ ~Runs(p)

\* A handler that no longer waits for its process has killed it, or lost it.
WaitsEnd ==
    \A t \in Tasks, p \in Procs :
        task[t].pc = "wait" /\ task[t].proc = p =>
            task'[t] = task[t] \/ p \in lost' \/ ~Runs(p)'

TasksChange == \A t \in Tasks, k \in TaskRecords : task'[t] = k => task[t] = k \/ RightTask(k)'

LEMMA ServesStays ==
  ASSUME ProcsStay, NEW p, NEW s, Serves(p, s)
  PROVE  Serves(p, s)'
  BY DEF ProcsStay, Serves

LEMMA InUseStays ==
  ASSUME ProcsStay, NEW p, InUse(p)
  PROVE  InUse(p)'
  BY DEF ProcsStay, InUse

LEMMA RightTaskStays ==
  ASSUME ProcsStay, NEW k, RightTask(k)
  PROVE  RightTask(k)'
  <1>1. k.pc \in {"kill", "evict"} => InUse(k.proc)'  BY InUseStays DEF RightTask
  <1>2. k.pc = "wait" \/ (k.pc \in {"dial", "relay"} /\ k.proc # None) => Serves(k.proc, k.session)'
    BY ServesStays DEF RightTask
  <1> QED  BY <1>1, <1>2 DEF RightTask

\* Such steps keep the places and the paths that lead to a process.
LEMMA EbbKeeps ==
  ASSUME TtydInv, TypeOK', Ebb, FilesGo, WaitsEnd, TasksChange, lost \subseteq lost',
         UNCHANGED reaper \/ reaper'.proc = None \/ InUse(reaper'.proc)
  PROVE  RightPlaces' /\ RegisteredRecorded' /\ LeadsTo'
  <1>1. TasksRight'
    <2> SUFFICES ASSUME NEW t \in Tasks, NEW k \in TaskRecords, task'[t] = k  PROVE RightTask(k)'
      BY DEF TasksRight
    <2>1. CASE task[t] = k
      <3>1. RightTask(k)  BY <2>1 DEF TtydInv, RightPlaces, TasksRight
      <3> QED  BY <3>1, RightTaskStays DEF Ebb
    <2> QED  BY <2>1 DEF TasksChange
  <1>2. RegistryRight'
    <2> SUFFICES ASSUME NEW s \in Sessions, NEW p \in Procs, registry'[s] = p  PROVE Serves(p, s)'
      BY DEF RegistryRight
    <2>1. registry[s] = p  BY DEF Ebb
    <2>2. Serves(p, s)  BY <2>1 DEF TtydInv, RightPlaces, RegistryRight
    <2> QED  BY <2>2, ServesStays DEF Ebb
  <1>3. ReaperRight'
    <2> SUFFICES ASSUME NEW p, p = reaper'.proc, p # None  PROVE InUse(p)'
      BY DEF ReaperRight, InUse
    <2>1. InUse(p)  BY DEF TtydInv, RightPlaces, ReaperRight
    <2> QED  BY <2>1, InUseStays DEF Ebb
  <1>4. RegisteredRecorded'
    <2> SUFFICES ASSUME NEW s \in Sessions, NEW p \in Procs, registry'[s] = p, Runs(p)', p \notin lost'
                 PROVE  Recorded(p)'
      BY DEF RegisteredRecorded
    <2>1. registry[s] = p /\ Runs(p) /\ p \notin lost  BY DEF Ebb
    <2>2. PICK x \in Paths : run[x] = p  BY <2>1 DEF TtydInv, RegisteredRecorded, Recorded
    <2>3. run'[x] = p  BY <2>1, <2>2 DEF FilesGo
    <2> QED  BY <2>3 DEF Recorded
  <1>5. LeadsTo'
    <2> SUFFICES ASSUME NEW p \in Procs, Runs(p)', p \notin lost'  PROVE Held(p)'
      BY DEF LeadsTo
    <2>1. Runs(p) /\ p \notin lost /\ \A s \in Sessions : registry[s] = p => registry'[s] = p  BY DEF Ebb
    <2>2. Held(p)  BY <2>1 DEF TtydInv, LeadsTo
    <2>3. CASE \E s \in Sessions : registry[s] = p  BY <2>1, <2>3 DEF Held
    <2>4. CASE \E x \in Paths : run[x] = p  BY <2>1, <2>4 DEF Held, FilesGo
    <2>5. CASE \E t \in Tasks : task[t].pc = "wait" /\ task[t].proc = p
      BY <2>5 DEF Held, WaitsEnd
    <2> QED  BY <2>2, <2>3, <2>4, <2>5 DEF Held
  <1> QED  BY <1>1, <1>2, <1>3, <1>4, <1>5 DEF RightPlaces

LEMMA RelaysSame ==
  ASSUME TtydInv, Ebb, \A p \in Procs : proc'[p].relays = proc[p].relays,
         \A t \in Tasks, p \in Procs : (task[t].pc \in {"dial", "relay"} /\ task[t].proc = p)
                                       <=> (task'[t].pc \in {"dial", "relay"} /\ task'[t].proc = p)
  PROVE  RelaysAreReal'
  <1> SUFFICES ASSUME NEW s \in Sessions, NEW p, p = registry'[s], p # None
               PROVE  proc'[p].relays <= Cardinality(Counted(p)')
    BY DEF RelaysAreReal, Registered, RelayCount, Counted
  <1>1. p \in Procs /\ registry[s] = p  BY DEF Ebb, TtydInv, TypeOK
  <1>2. proc[p].relays <= Cardinality(Counted(p))
    BY <1>1 DEF TtydInv, RelaysAreReal, Registered, RelayCount
  <1>3. Counted(p)' = Counted(p)  BY <1>1 DEF Counted
  <1> QED  BY <1>1, <1>2, <1>3

-----------------------------------------------------------------------------
(* The pieces of the handlers *)

\* What a step may do to the registry and the processes when it only kills.
Killing ==
    /\ registry' \in [Sessions -> Procs \cup {None}] /\ proc' \in [Procs -> ProcRecords]
    /\ Ebb
    /\ \A p \in Procs : proc'[p].relays = proc[p].relays

LEMMA NothingKilled ==
  ASSUME TtydInv, UNCHANGED <<registry, proc>>
  PROVE  Killing
  BY DEF Killing, Ebb, ProcsStay, TtydInv, TypeOK, Runs

LEMMA KillBeginsKills ==
  ASSUME TtydInv, NEW s \in Sessions, registry[s] # None, KillBegins(s)
  PROVE  Killing /\ InUse(registry[s])
  <1> DEFINE p == registry[s]
  <1>1. p \in Procs /\ proc[p] \in ProcRecords  BY DEF TtydInv, TypeOK
  <1>2. Serves(p, s)  BY <1>1 DEF TtydInv, RightPlaces, RegistryRight
  <1>3. PICK st \in {"dead", "ending"} : proc' = [proc EXCEPT ![p].state = st]
    BY DEF KillBegins, TtydInv, TypeOK
  <1>4. proc' \in [Procs -> ProcRecords] /\ registry' \in [Sessions -> Procs \cup {None}]
    BY <1>1, <1>3 DEF KillBegins, TtydInv, TypeOK, ProcRecords, Alive
  <1>5. /\ registry'[s] = None /\ \A x \in Sessions : x # s => registry'[x] = registry[x]
        /\ \A q \in Procs : q # p => proc'[q] = proc[q]
        /\ proc'[p].state = st /\ proc'[p].session = proc[p].session /\ proc'[p].relays = proc[p].relays
    BY <1>1, <1>3 DEF KillBegins, TtydInv, TypeOK, ProcRecords
  <1>6. Ebb
    <2>1. \A x \in Sessions : registry'[x] \in {registry[x], None}  BY <1>5
    <2>2. ASSUME NEW q \in Procs
          PROVE  /\ proc[q].state # "unused" => proc'[q].state # "unused" /\ proc'[q].session = proc[q].session
                 /\ Runs(q)' => Runs(q) /\ \A x \in Sessions : registry[x] = q => registry'[x] = q
      BY <1>3, <1>5 DEF Runs
    <2> QED  BY <2>1, <2>2 DEF Ebb, ProcsStay
  <1>7. \A q \in Procs : proc'[q].relays = proc[q].relays  BY <1>5
  <1> QED  BY <1>1, <1>2, <1>4, <1>6, <1>7 DEF Killing, InUse, Serves

\* The end of a kill: its files go, and the history has whose they were.
LEMMA KillEndsFiles ==
  ASSUME TtydInv, NEW p, InUse(p), KillEnds(p)
  PROVE  /\ run' \in [Paths -> Procs \cup {None}] /\ lost' \subseteq Procs /\ lost \subseteq lost'
         /\ FilesGo
  <1>1. PathOf(p) \in Paths  BY DEF PathOf, InUse
  <1>2. run' = [run EXCEPT ![PathOf(p)] = None]  BY DEF KillEnds, Unlinked
  <1>3. run \in [Paths -> Procs \cup {None}]  BY DEF TtydInv, TypeOK
  <1>4. \A x \in Paths : run'[x] = IF x = PathOf(p) THEN None ELSE run[x]  BY <1>1, <1>2, <1>3
  <1>5. lost' = lost \cup ({run[PathOf(p)]} \ {None, p})  BY DEF KillEnds
  <1>6. ~Runs(p)  BY DEF KillEnds, Runs
  <1>7. FilesGo  BY <1>4, <1>5, <1>6 DEF FilesGo
  <1> QED  BY <1>1, <1>2, <1>3, <1>5, <1>7 DEF TtydInv, TypeOK

\* One handler goes on: the others stay as they are.
LEMMA OneTask ==
  ASSUME TtydInv, NEW t \in Tasks, NEW v \in TaskRecords, task' = [task EXCEPT ![t] = v],
         RightTask(v)',
         \A p \in Procs : task[t].pc = "wait" /\ task[t].proc = p => p \in lost' \/ ~Runs(p)'
  PROVE  task' \in [Tasks -> TaskRecords] /\ TasksChange /\ WaitsEnd
  <1>1. \A x \in Tasks : task'[x] = IF x = t THEN v ELSE task[x]  BY DEF TtydInv, TypeOK
  <1>2. task' \in [Tasks -> TaskRecords]  BY DEF TtydInv, TypeOK
  <1>3. TasksChange  BY <1>1 DEF TasksChange
  <1>4. WaitsEnd
    <2> SUFFICES ASSUME NEW p \in Procs, task[t].pc = "wait", task[t].proc = p
                 PROVE  p \in lost' \/ ~Runs(p)'
      BY <1>1 DEF WaitsEnd
    <2> QED  OBVIOUS
  <1> QED  BY <1>2, <1>3, <1>4

\* A handler that counts no relay before and after.
LEMMA UncountedTask ==
  ASSUME TtydInv, NEW t \in Tasks, NEW v \in TaskRecords, task' = [task EXCEPT ![t] = v],
         task[t].pc \notin {"dial", "relay"}, v.pc \notin {"dial", "relay"}
  PROVE  \A x \in Tasks, p \in Procs : (task[x].pc \in {"dial", "relay"} /\ task[x].proc = p)
                                       <=> (task'[x].pc \in {"dial", "relay"} /\ task'[x].proc = p)
  BY DEF TtydInv, TypeOK

\* A step that kills at most, of one handler that counts no relay.
LEMMA KillingStep ==
  ASSUME TtydInv, Killing, NEW t \in Tasks, NEW v \in TaskRecords, task' = [task EXCEPT ![t] = v],
         task[t].pc \notin {"dial", "relay"}, v.pc \notin {"dial", "relay"}, RightTask(v)',
         \A p \in Procs : task[t].pc = "wait" /\ task[t].proc = p => p \in lost' \/ ~Runs(p)',
         FilesGo, run' \in [Paths -> Procs \cup {None}], lost' \subseteq Procs, lost \subseteq lost',
         socket' \in [Paths -> Procs \cup {None}], UNCHANGED reaper
  PROVE  TtydInv'
  <1>1. task' \in [Tasks -> TaskRecords] /\ TasksChange /\ WaitsEnd  BY OneTask
  <1>2. TypeOK'  BY <1>1 DEF TypeOK, TtydInv, Killing
  <1>3. RightPlaces' /\ RegisteredRecorded' /\ LeadsTo'  BY <1>1, <1>2, EbbKeeps DEF Killing
  <1>4. RelaysAreReal'
    <2>1. \A x \in Tasks, p \in Procs : (task[x].pc \in {"dial", "relay"} /\ task[x].proc = p)
                                       <=> (task'[x].pc \in {"dial", "relay"} /\ task'[x].proc = p)
      BY UncountedTask
    <2> QED  BY <2>1, RelaysSame DEF Killing
  <1> QED  BY <1>2, <1>3, <1>4 DEF TtydInv

LEMMA UnlinkedType ==
  ASSUME NEW files \in [Paths -> Procs \cup {None}], NEW path
  PROVE  Unlinked(files, path) \in [Paths -> Procs \cup {None}]
  BY DEF Unlinked

LEMMA RightTaskInUse ==
  ASSUME TtydInv, NEW t \in Tasks
  PROVE  task[t] \in TaskRecords /\ RightTask(task[t])
  BY DEF TtydInv, TypeOK, RightPlaces, TasksRight

\* What a handler may become in such a step.
LEMMA FinishedTask ==
  ASSUME TtydInv, NEW t \in Tasks, Finish(t)
  PROVE  \E v \in TaskRecords : /\ task' = [task EXCEPT ![t] = v]
                                /\ v.pc \notin {"dial", "relay"} /\ RightTask(v)'
  <1>1. PICK v : v = Idle  OBVIOUS
  <1>2. v \in TaskRecords /\ v.pc = "idle"  BY <1>1 DEF Idle, TaskRecords, Pc
  <1>3. RightTask(v)'  BY <1>2 DEF RightTask
  <1> QED  BY <1>1, <1>2, <1>3 DEF Finish

LEMMA PreparedTask ==
  ASSUME TtydInv, NEW t \in Tasks, task[t].pc # "idle", Prepared(t)
  PROVE  \E v \in TaskRecords : /\ task' = [task EXCEPT ![t] = v]
                                /\ v.pc \notin {"dial", "relay"} /\ RightTask(v)'
  <1>1. task[t] \in TaskRecords /\ task[t].session \in Sessions
    BY RightTaskInUse DEF RightTask
  <1>2. task \in [Tasks -> TaskRecords]  BY DEF TtydInv, TypeOK
  <1>3. CASE task[t].op = "ws"
    <2>1. PICK v : v = [task[t] EXCEPT !.pc = "accept", !.proc = None]  OBVIOUS
    <2>2. v \in TaskRecords /\ v.pc = "accept" /\ v.session = task[t].session
      BY <1>1, <2>1 DEF TaskRecords, Pc
    <2>3. task' = [task EXCEPT ![t] = v]  BY <1>3, <2>1 DEF Prepared
    <2>4. RightTask(v)'  BY <1>1, <2>2 DEF RightTask
    <2> QED  BY <2>2, <2>3, <2>4
  <1>4. CASE task[t].op # "ws"
    <2>1. Finish(t)  BY <1>2, <1>4 DEF Prepared, Finish
    <2> QED  BY <2>1, FinishedTask
  <1> QED  BY <1>3, <1>4

\* The handler turns to a process it has to wait for the end of, or to a spawn.
LEMMA TurnedTask ==
  ASSUME TtydInv, NEW t \in Tasks, task[t].pc # "idle",
         NEW pc \in {"spawn", "kill", "evict"}, NEW p \in Procs \cup {None},
         pc # "spawn" => InUse(p)',
         task' = [task EXCEPT ![t].pc = pc, ![t].proc = p]
  PROVE  \E v \in TaskRecords : /\ task' = [task EXCEPT ![t] = v]
                                /\ v.pc \notin {"dial", "relay"} /\ RightTask(v)'
  <1>1. task[t] \in TaskRecords /\ task[t].session \in Sessions /\ task \in [Tasks -> TaskRecords]
    BY RightTaskInUse DEF RightTask, TtydInv, TypeOK
  <1>2. PICK v : v = [task[t] EXCEPT !.pc = pc, !.proc = p]  OBVIOUS
  <1>3. v \in TaskRecords /\ v.pc = pc /\ v.session \in Sessions /\ v.proc = p
    BY <1>1, <1>2 DEF TaskRecords, Pc
  <1>4. task' = [task EXCEPT ![t] = v]  BY <1>1, <1>2
  <1>5. RightTask(v)'  BY <1>3 DEF RightTask
  <1> QED  BY <1>3, <1>4, <1>5

LEMMA BeginSpawnTask ==
  ASSUME TtydInv, NEW t \in Tasks, task[t].pc # "idle", NEW s \in Sessions,
         NEW sockets \in [Paths -> Procs \cup {None}], BeginSpawn(t, s, sockets)
  PROVE  /\ Killing /\ socket' \in [Paths -> Procs \cup {None}]
         /\ \E v \in TaskRecords : /\ task' = [task EXCEPT ![t] = v]
                                   /\ v.pc \notin {"dial", "relay"} /\ RightTask(v)'
  <1>1. Killing  BY NothingKilled DEF BeginSpawn
  <1>2. socket' \in [Paths -> Procs \cup {None}]  BY UnlinkedType DEF BeginSpawn
  <1>3. CASE Finish(t)  BY <1>1, <1>2, <1>3, FinishedTask
  <1>4. CASE task' = [task EXCEPT ![t].pc = "spawn", ![t].proc = None]
    BY <1>1, <1>2, <1>4, TurnedTask
  <1> QED  BY <1>3, <1>4 DEF BeginSpawn

LEMMA KillBeginsTask ==
  ASSUME TtydInv, NEW t \in Tasks, task[t].pc # "idle", NEW x \in Sessions, registry[x] # None,
         KillBegins(x), NEW pc \in {"kill", "evict"},
         task' = [task EXCEPT ![t].pc = pc, ![t].proc = registry[x]]
  PROVE  /\ Killing
         /\ \E v \in TaskRecords : /\ task' = [task EXCEPT ![t] = v]
                                   /\ v.pc \notin {"dial", "relay"} /\ RightTask(v)'
  <1>1. Killing /\ InUse(registry[x])  BY KillBeginsKills
  <1>2. PICK p : p = registry[x]  OBVIOUS
  <1>3. InUse(p)' /\ p \in Procs  BY <1>1, <1>2, InUseStays DEF Killing, Ebb, InUse
  <1> QED  BY <1>1, <1>2, <1>3, TurnedTask

LEMMA MakeRoomTask ==
  ASSUME TtydInv, NEW t \in Tasks, task[t].pc # "idle", NEW s \in Sessions,
         NEW sockets \in [Paths -> Procs \cup {None}], MakeRoom(t, s, sockets)
  PROVE  /\ Killing /\ socket' \in [Paths -> Procs \cup {None}]
         /\ \E v \in TaskRecords : /\ task' = [task EXCEPT ![t] = v]
                                   /\ v.pc \notin {"dial", "relay"} /\ RightTask(v)'
  <1>1. CASE BeginSpawn(t, s, sockets)  BY <1>1, BeginSpawnTask
  <1>2. CASE /\ socket' = sockets
             /\ \E x \in Spared : /\ KillBegins(x)
                                  /\ task' = [task EXCEPT ![t].pc = "evict", ![t].proc = registry[x]]
    <2>1. PICK x \in Spared : /\ KillBegins(x)
                              /\ task' = [task EXCEPT ![t].pc = "evict", ![t].proc = registry[x]]
      BY <1>2
    <2>2. x \in Sessions /\ registry[x] # None  BY DEF Spared, Registered
    <2> QED  BY <1>2, <2>1, <2>2, KillBeginsTask
  <1>3. CASE Finish(t) /\ socket' = sockets /\ UNCHANGED <<registry, proc>>
    BY <1>3, FinishedTask, NothingKilled
  <1> QED  BY <1>1, <1>2, <1>3 DEF MakeRoom

LEMMA FilesStand ==
  ASSUME TtydInv, UNCHANGED <<run, lost>>
  PROVE  FilesGo /\ run' \in [Paths -> Procs \cup {None}] /\ lost' \subseteq Procs /\ lost \subseteq lost'
  BY DEF FilesGo, TtydInv, TypeOK

LEMMA EnsureKeeps ==
  ASSUME TtydInv, NEW t \in Tasks, EnsureTtyd(t)
  PROVE  TtydInv'
  <1> DEFINE s == task[t].session
  <1>1. task[t].pc = "ensure" /\ UNCHANGED <<run, reaper, lost>>  BY DEF EnsureTtyd
  <1>2. s \in Sessions /\ socket \in [Paths -> Procs \cup {None}]
    BY <1>1, RightTaskInUse DEF RightTask, TtydInv, TypeOK
  <1>3. /\ Killing /\ socket' \in [Paths -> Procs \cup {None}]
        /\ \E v \in TaskRecords : /\ task' = [task EXCEPT ![t] = v]
                                  /\ v.pc \notin {"dial", "relay"} /\ RightTask(v)'
    <2>1. CASE Prepared(t) /\ UNCHANGED <<registry, proc, socket>>
      BY <1>1, <1>2, <2>1, PreparedTask, NothingKilled
    <2>2. CASE /\ registry[s] # None /\ KillBegins(s) /\ UNCHANGED socket
               /\ task' = [task EXCEPT ![t].pc = "kill", ![t].proc = registry[s]]
      BY <1>1, <1>2, <2>2, KillBeginsTask
    <2>3. CASE MakeRoom(t, s, socket)
      BY <1>1, <1>2, <2>3, MakeRoomTask
    <2> QED  BY <2>1, <2>2, <2>3 DEF EnsureTtyd
  <1> QED  BY <1>1, <1>3, FilesStand, KillingStep

LEMMA AfterKillKeeps ==
  ASSUME TtydInv, NEW t \in Tasks, AfterKill(t) \/ AfterEvict(t)
  PROVE  TtydInv'
  <1> DEFINE s == task[t].session
             p == task[t].proc
             sockets == Unlinked(socket, PathOf(p))
  <1>1. task[t].pc \in {"kill", "evict"} /\ KillEnds(p) /\ UNCHANGED reaper
    BY DEF AfterKill, AfterEvict
  <1>2. s \in Sessions /\ InUse(p) /\ socket \in [Paths -> Procs \cup {None}]
    BY <1>1, RightTaskInUse DEF RightTask, TtydInv, TypeOK
  <1>3. sockets \in [Paths -> Procs \cup {None}]  BY <1>2, UnlinkedType
  <1> HIDE DEF sockets
  <1>4. /\ Killing /\ socket' \in [Paths -> Procs \cup {None}]
        /\ \E v \in TaskRecords : /\ task' = [task EXCEPT ![t] = v]
                                  /\ v.pc \notin {"dial", "relay"} /\ RightTask(v)'
    <2>1. CASE MakeRoom(t, s, sockets)  BY <1>1, <1>2, <1>3, <2>1, MakeRoomTask
    <2>2. CASE Finish(t) /\ socket' = sockets /\ UNCHANGED <<registry, proc>>
      BY <1>3, <2>2, FinishedTask, NothingKilled
    <2>3. CASE BeginSpawn(t, s, sockets)  BY <1>1, <1>2, <1>3, <2>3, BeginSpawnTask
    <2> QED  BY <2>1, <2>2, <2>3 DEF AfterKill, AfterEvict, sockets
  <1>5. /\ run' \in [Paths -> Procs \cup {None}] /\ lost' \subseteq Procs /\ lost \subseteq lost'
        /\ FilesGo
    BY <1>1, <1>2, KillEndsFiles
  <1>6. task[t].pc \notin {"wait", "dial", "relay"}  BY <1>1
  <1> QED  BY <1>1, <1>4, <1>5, <1>6, KillingStep

-----------------------------------------------------------------------------
(* The spawn and its gate *)

LEMMA SpawnKeeps ==
  ASSUME TtydInv, NEW t \in Tasks, NEW p \in Procs, Spawn(t, p)
  PROVE  TtydInv'
  <1> DEFINE s == task[t].session
  <1>1. /\ task[t].pc = "spawn" /\ proc[p] = Unused
        /\ proc' = [proc EXCEPT ![p].session = s, ![p].state = "starting"]
        /\ task' = [task EXCEPT ![t].pc = "wait", ![t].proc = p]
        /\ UNCHANGED <<registry, socket, run, reaper, lost>>
    BY DEF Spawn
  <1>2. s \in Sessions /\ task[t] \in TaskRecords  BY <1>1, RightTaskInUse DEF RightTask
  <1>3. /\ proc'[p].session = s /\ proc'[p].state = "starting" /\ proc[p].state = "unused"
        /\ \A q \in Procs : q # p => proc'[q] = proc[q]
    BY <1>1 DEF TtydInv, TypeOK, ProcRecords, Unused
  <1>4. /\ task'[t].pc = "wait" /\ task'[t].proc = p /\ task'[t].session = s
        /\ \A x \in Tasks : x # t => task'[x] = task[x]
    BY <1>1, <1>2 DEF TtydInv, TypeOK, TaskRecords
  <1>5. TypeOK'
    <2>1. proc' \in [Procs -> ProcRecords]
      <3>1. proc[p] \in ProcRecords /\ proc \in [Procs -> ProcRecords]  BY DEF TtydInv, TypeOK
      <3>2. PICK u : u = [proc[p] EXCEPT !.session = s, !.state = "starting"]  OBVIOUS
      <3>3. u \in ProcRecords  BY <1>2, <3>1, <3>2 DEF ProcRecords, Alive
      <3>4. proc' = [proc EXCEPT ![p] = u]  BY <1>1, <3>1, <3>2
      <3> QED  BY <3>1, <3>3, <3>4
    <2>2. task' \in [Tasks -> TaskRecords]  BY <1>1, <1>2 DEF TtydInv, TypeOK, TaskRecords, Pc
    <2> QED  BY <1>1, <2>1, <2>2 DEF TtydInv, TypeOK
  <1>6. ProcsStay  BY <1>3 DEF ProcsStay
  <1>7. \A x \in Sessions : registry[x] # p
    BY <1>3 DEF TtydInv, RightPlaces, RegistryRight, Serves
  <1>8. TasksRight'
    <2>1. ASSUME NEW x \in Tasks, x # t, NEW k \in TaskRecords, task'[x] = k  PROVE RightTask(k)'
      <3>1. RightTask(k)  BY <1>4, <2>1 DEF TtydInv, RightPlaces, TasksRight
      <3> QED  BY <1>6, <3>1, RightTaskStays
    <2>2. ASSUME NEW k \in TaskRecords, task'[t] = k  PROVE RightTask(k)'
      <3>1. k.pc = "wait" /\ k.proc = p /\ k.session = s  BY <1>4, <2>2
      <3> QED  BY <1>2, <1>3, <3>1 DEF RightTask, Serves
    <2> QED  BY <2>1, <2>2 DEF TasksRight
  <1>9. RegistryRight'
    <2> SUFFICES ASSUME NEW x \in Sessions, NEW q \in Procs, registry[x] = q  PROVE Serves(q, x)'
      BY <1>1 DEF RegistryRight
    <2>1. Serves(q, x)  BY DEF TtydInv, RightPlaces, RegistryRight
    <2> QED  BY <1>6, <2>1, ServesStays
  <1>10. ReaperRight'
    <2> SUFFICES ASSUME NEW q, q = reaper.proc, q # None  PROVE InUse(q)'
      BY <1>1 DEF ReaperRight, InUse
    <2>1. InUse(q)  BY DEF TtydInv, RightPlaces, ReaperRight
    <2> QED  BY <1>6, <2>1, InUseStays
  <1>11. RegisteredRecorded'
    BY <1>1, <1>3, <1>7 DEF TtydInv, RegisteredRecorded, Recorded, Runs
  <1>12. LeadsTo'
    <2> SUFFICES ASSUME NEW q \in Procs, Runs(q)', q \notin lost  PROVE Held(q)'
      BY <1>1 DEF LeadsTo
    <2>1. CASE q = p  BY <1>4, <2>1 DEF Held
    <2>2. CASE q # p
      <3>1. Held(q)  BY <1>3, <2>2 DEF TtydInv, LeadsTo, Runs
      <3> QED  BY <1>1, <1>4, <3>1 DEF Held
    <2> QED  BY <2>1, <2>2
  <1>13. RelaysAreReal'
    <2> SUFFICES ASSUME NEW x \in Sessions, NEW q, q = registry[x], q # None
                 PROVE  proc'[q].relays <= Cardinality(Counted(q)')
      BY <1>1 DEF RelaysAreReal, Registered, RelayCount, Counted
    <2>1. q \in Procs /\ q # p  BY <1>7 DEF TtydInv, TypeOK
    <2>2. proc[q].relays <= Cardinality(Counted(q))
      BY DEF TtydInv, RelaysAreReal, Registered, RelayCount
    <2>3. Counted(q)' = Counted(q)  BY <1>1, <1>4 DEF Counted
    <2> QED  BY <1>3, <2>1, <2>2, <2>3
  <1> QED  BY <1>5, <1>8, <1>9, <1>10, <1>11, <1>12, <1>13 DEF TtydInv, RightPlaces

LEMMA ReadyKeeps ==
  ASSUME TtydInv, NEW t \in Tasks, Ready(t)
  PROVE  TtydInv'
  <1> DEFINE s == task[t].session
             p == task[t].proc
             path == SocketPathFor[s]
  <1>1. /\ task[t].pc = "wait"
        /\ registry' = [registry EXCEPT ![s] = p] /\ run' = [run EXCEPT ![path] = p]
        /\ proc' = [proc EXCEPT ![p].relays = 0, ![p].old = FALSE]
        /\ lost' = lost \cup ({registry[s], run[path]} \ {None, p})
        /\ Prepared(t) /\ UNCHANGED <<socket, reaper>>
    BY DEF Ready
  <1>2. Serves(p, s)  BY <1>1, RightTaskInUse DEF RightTask
  <1>3. p \in Procs /\ s \in Sessions /\ path \in Paths  BY <1>2 DEF Serves
  <1>4. PICK v \in TaskRecords : /\ task' = [task EXCEPT ![t] = v]
                                 /\ v.pc \notin {"dial", "relay"} /\ RightTask(v)'
    BY <1>1, PreparedTask
  <1>5. task'[t] = v /\ \A x \in Tasks : x # t => task'[x] = task[x]
    BY <1>4 DEF TtydInv, TypeOK
  <1>6. /\ registry'[s] = p /\ \A x \in Sessions : x # s => registry'[x] = registry[x]
        /\ run'[path] = p /\ \A x \in Paths : x # path => run'[x] = run[x]
        /\ proc'[p].relays = 0 /\ proc'[p].state = proc[p].state /\ proc'[p].session = proc[p].session
        /\ \A q \in Procs : q # p => proc'[q] = proc[q]
    BY <1>1, <1>3 DEF TtydInv, TypeOK, ProcRecords
  <1>7. Cardinality(Tasks) \in Nat  BY FS_CardinalityType
  <1>8. TypeOK'
    <2>1. proc' \in [Procs -> ProcRecords]
      BY <1>1, <1>3, <1>7 DEF TtydInv, TypeOK, ProcRecords
    <2>2. task' \in [Tasks -> TaskRecords]  BY <1>4 DEF TtydInv, TypeOK
    <2>3. lost' \subseteq Procs  BY <1>1, <1>3 DEF TtydInv, TypeOK
    <2> QED  BY <1>1, <1>3, <2>1, <2>2, <2>3 DEF TtydInv, TypeOK
  <1> HIDE DEF s, p, path
  <1>9. ProcsStay  BY <1>6 DEF ProcsStay
  <1>10. TasksRight'
    <2>1. ASSUME NEW x \in Tasks, x # t, NEW k \in TaskRecords, task'[x] = k  PROVE RightTask(k)'
      <3>1. RightTask(k)  BY <1>5, <2>1 DEF TtydInv, RightPlaces, TasksRight
      <3> QED  BY <1>9, <3>1, RightTaskStays
    <2> QED  BY <1>4, <1>5, <2>1 DEF TasksRight
  <1>11. RegistryRight'
    <2> SUFFICES ASSUME NEW x \in Sessions, NEW q \in Procs, registry'[x] = q  PROVE Serves(q, x)'
      BY DEF RegistryRight
    <2>1. Serves(q, x)  BY <1>2, <1>6 DEF TtydInv, RightPlaces, RegistryRight
    <2> QED  BY <1>9, <2>1, ServesStays
  <1>12. ReaperRight'
    <2> SUFFICES ASSUME NEW q, q = reaper.proc, q # None  PROVE InUse(q)'
      BY <1>1 DEF ReaperRight, InUse
    <2>1. InUse(q)  BY DEF TtydInv, RightPlaces, ReaperRight
    <2> QED  BY <1>9, <2>1, InUseStays
  <1>13. \A q \in Procs : Runs(q)' = Runs(q)  BY <1>6 DEF Runs
  <1>14. RegisteredRecorded'
    <2> SUFFICES ASSUME NEW x \in Sessions, NEW q \in Procs, registry'[x] = q, Runs(q)', q \notin lost'
                 PROVE  \E y \in Paths : run'[y] = q
      BY DEF RegisteredRecorded, Recorded
    <2>1. CASE q = p  BY <1>3, <1>6, <2>1
    <2>2. CASE q # p
      <3>1. registry[x] = q /\ Runs(q) /\ q \notin lost  BY <1>1, <1>6, <1>13, <2>2
      <3>2. PICK y \in Paths : run[y] = q  BY <3>1 DEF TtydInv, RegisteredRecorded, Recorded
      <3> QED  BY <1>1, <1>6, <2>2, <3>2
    <2> QED  BY <2>1, <2>2
  <1>15. LeadsTo'
    <2> SUFFICES ASSUME NEW q \in Procs, Runs(q)', q \notin lost'  PROVE Held(q)'
      BY DEF LeadsTo
    <2>1. CASE q = p  BY <1>3, <1>6, <2>1 DEF Held
    <2>2. CASE q # p
      <3>1. Held(q)  BY <1>1, <1>13 DEF TtydInv, LeadsTo
      <3>2. CASE \E x \in Sessions : registry[x] = q  BY <1>1, <1>6, <2>2, <3>2 DEF Held
      <3>3. CASE \E x \in Paths : run[x] = q  BY <1>1, <1>6, <2>2, <3>3 DEF Held
      <3>4. CASE \E x \in Tasks : task[x].pc = "wait" /\ task[x].proc = q
        BY <1>5, <2>2, <3>4 DEF Held, p
      <3> QED  BY <3>1, <3>2, <3>3, <3>4 DEF Held
    <2> QED  BY <2>1, <2>2
  <1>16. RelaysAreReal'
    <2> SUFFICES ASSUME NEW x \in Sessions, NEW q, q = registry'[x], q # None
                 PROVE  proc'[q].relays <= Cardinality(Counted(q)')
      BY DEF RelaysAreReal, Registered, RelayCount, Counted
    <2>1. Counted(q)' = Counted(q) /\ Counted(q) \subseteq Tasks
      BY <1>1, <1>4, <1>5 DEF Counted
    <2>2. Cardinality(Counted(q)) \in Nat  BY <2>1, FS_Subset, FS_CardinalityType
    <2>3. CASE x = s  BY <1>6, <2>1, <2>2, <2>3
    <2>4. CASE x # s
      <3>1. registry[x] = q /\ q \in Procs  BY <1>6, <2>4 DEF TtydInv, TypeOK
      <3>2. q # p  BY <1>2, <2>4, <3>1 DEF TtydInv, RightPlaces, RegistryRight, Serves
      <3>3. proc[q].relays <= Cardinality(Counted(q))
        BY <3>1 DEF TtydInv, RelaysAreReal, Registered, RelayCount
      <3> QED  BY <1>6, <2>1, <3>1, <3>2, <3>3
    <2> QED  BY <2>3, <2>4
  <1> QED  BY <1>8, <1>10, <1>11, <1>12, <1>14, <1>15, <1>16 DEF TtydInv, RightPlaces

LEMMA NotReadyKeeps ==
  ASSUME TtydInv, NEW t \in Tasks, NotReady(t)
  PROVE  TtydInv'
  <1> DEFINE p == task[t].proc
  <1>1. /\ task[t].pc = "wait" /\ proc' = Killed(p) /\ Finish(t)
        /\ UNCHANGED <<registry, socket, run, reaper, lost>>
    BY DEF NotReady
  <1>2. p \in Procs /\ proc[p].state # "unused"
    BY <1>1, RightTaskInUse DEF RightTask, Serves
  <1>3. /\ proc'[p].state = "dead" /\ proc'[p].session = proc[p].session /\ proc'[p].relays = proc[p].relays
        /\ \A q \in Procs : q # p => proc'[q] = proc[q]
        /\ proc' \in [Procs -> ProcRecords]
    <2>1. proc[p] \in ProcRecords /\ proc \in [Procs -> ProcRecords]  BY <1>2 DEF TtydInv, TypeOK
    <2>2. PICK u : u = [proc[p] EXCEPT !.state = "dead"]  OBVIOUS
    <2>3. /\ u \in ProcRecords /\ u.state = "dead" /\ u.session = proc[p].session
          /\ u.relays = proc[p].relays
      BY <2>1, <2>2 DEF ProcRecords, Alive
    <2>4. proc' = [proc EXCEPT ![p] = u]  BY <1>1, <2>1, <2>2 DEF Killed
    <2> QED  BY <1>2, <2>1, <2>3, <2>4
  <1>5. Killing
    <2>1. ProcsStay  BY <1>3 DEF ProcsStay
    <2>2. \A q \in Procs : Runs(q)' => Runs(q)  BY <1>3 DEF Runs
    <2> QED  BY <1>1, <1>3, <2>1, <2>2 DEF Killing, Ebb, TtydInv, TypeOK
  <1>6. PICK v \in TaskRecords : /\ task' = [task EXCEPT ![t] = v]
                                 /\ v.pc \notin {"dial", "relay"} /\ RightTask(v)'
    BY <1>1, FinishedTask
  <1>7. \A q \in Procs : task[t].proc = q => ~Runs(q)'  BY <1>3 DEF Runs
  <1>8. socket' \in [Paths -> Procs \cup {None}]  BY <1>1 DEF TtydInv, TypeOK
  <1> QED  BY <1>1, <1>5, <1>6, <1>7, <1>8, FilesStand, KillingStep

-----------------------------------------------------------------------------
(* Relays *)

LEMMA CountedFinite ==
  ASSUME NEW p
  PROVE  IsFiniteSet(Counted(p)) /\ Cardinality(Counted(p)) \in Nat /\ Cardinality(Counted(p)) <= Cardinality(Tasks)
  <1>1. Counted(p) \subseteq Tasks  BY DEF Counted
  <1> QED  BY <1>1, FS_Subset, FS_CardinalityType

\* Steps that leave the registry, the files and every process's state.
LEMMA QuietKeeps ==
  ASSUME TtydInv, TypeOK', TasksChange, WaitsEnd, UNCHANGED <<registry, run, reaper, lost>>,
         \A p \in Procs : proc'[p].state = proc[p].state /\ proc'[p].session = proc[p].session
  PROVE  RightPlaces' /\ RegisteredRecorded' /\ LeadsTo' /\ Ebb
  <1>1. Ebb  BY DEF Ebb, ProcsStay, Runs
  <1>2. FilesGo  BY DEF FilesGo
  <1> QED  BY <1>1, <1>2, EbbKeeps

\* The registered process of a relay's session is the one counted, or another
\* session's relays are not touched.
LEMMA AcceptKeeps ==
  ASSUME TtydInv, NEW t \in Tasks, Accept(t)
  PROVE  TtydInv'
  <1>1. PICK s, p :
           /\ s = task[t].session /\ p = registry[s]
           /\ task[t].pc = "accept" /\ task' = [task EXCEPT ![t].pc = "dial", ![t].proc = p]
           /\ proc' = IF p = None THEN proc ELSE [proc EXCEPT ![p].relays = @ + 1, ![p].old = FALSE]
           /\ UNCHANGED <<registry, socket, run, reaper, lost>>
    BY DEF Accept
  <1>2. /\ s \in Sessions /\ task[t] \in TaskRecords /\ p \in Procs \cup {None}
        /\ proc \in [Procs -> ProcRecords] /\ task \in [Tasks -> TaskRecords]
    BY <1>1, RightTaskInUse DEF RightTask, TtydInv, TypeOK
  <1>3. PICK v : v = [task[t] EXCEPT !.pc = "dial", !.proc = p]  OBVIOUS
  <1>4. v \in TaskRecords /\ v.pc = "dial" /\ v.proc = p /\ v.session = s
    BY <1>1, <1>2, <1>3 DEF TaskRecords, Pc
  <1>5. task' = [task EXCEPT ![t] = v]  BY <1>1, <1>2, <1>3
  <1>6. task'[t] = v /\ \A x \in Tasks : x # t => task'[x] = task[x]  BY <1>2, <1>5
  <1>7. p # None => p \in Procs /\ Serves(p, s) /\ proc[p].relays <= Cardinality(Counted(p))
    BY <1>1, <1>2 DEF TtydInv, RightPlaces, RegistryRight, RelaysAreReal, Registered, RelayCount
  <1>8. /\ Counted(p)' = Counted(p) \cup {t} /\ t \notin Counted(p)
        /\ Cardinality(Counted(p)') = Cardinality(Counted(p)) + 1
        /\ Cardinality(Counted(p)') <= Cardinality(Tasks)
    <2>1. Counted(p)' = Counted(p) \cup {t} /\ t \notin Counted(p)  BY <1>1, <1>4, <1>6 DEF Counted
    <2>2. Counted(p) \cup {t} \subseteq Tasks  BY DEF Counted
    <2> QED  BY <2>1, <2>2, CountedFinite, FS_AddElement, FS_Subset
  <1>9. /\ \A q \in Procs : /\ proc'[q].state = proc[q].state /\ proc'[q].session = proc[q].session
                            /\ q # p => proc'[q].relays = proc[q].relays
        /\ proc' \in [Procs -> ProcRecords]
        /\ p # None => proc'[p].relays = proc[p].relays + 1
    <2>1. CASE p = None  BY <1>1, <1>2, <2>1
    <2>2. CASE p # None
      <3>1. p \in Procs /\ proc[p] \in ProcRecords  BY <1>2, <2>2
      <3>2. PICK u : u = [proc[p] EXCEPT !.relays = @ + 1, !.old = FALSE]  OBVIOUS
      <3>3. u.relays = proc[p].relays + 1 /\ u.state = proc[p].state /\ u.session = proc[p].session
        BY <3>1, <3>2 DEF ProcRecords
      <3>4. proc[p].relays \in Nat /\ proc[p].relays + 1 \in 0..Cardinality(Tasks)
        BY <1>7, <1>8, <2>2, <3>1, CountedFinite, FS_CardinalityType DEF ProcRecords
      <3>5. u \in ProcRecords  BY <3>1, <3>2, <3>4 DEF ProcRecords
      <3>6. proc' = [proc EXCEPT ![p] = u]  BY <1>1, <1>2, <2>2, <3>2
      <3> QED  BY <1>2, <3>1, <3>3, <3>5, <3>6
    <2> QED  BY <2>1, <2>2
  <1>10. RightTask(v)'
    <2>1. ProcsStay  BY <1>9 DEF ProcsStay
    <2>2. p # None => Serves(p, s)'  BY <1>7, <2>1, ServesStays
    <2> QED  BY <1>2, <1>4, <2>2 DEF RightTask
  <1>11. task' \in [Tasks -> TaskRecords] /\ TasksChange /\ WaitsEnd
    BY <1>1, <1>4, <1>5, <1>10, OneTask
  <1>12. TypeOK'  BY <1>1, <1>9, <1>11 DEF TtydInv, TypeOK
  <1>13. RightPlaces' /\ RegisteredRecorded' /\ LeadsTo'  BY <1>1, <1>9, <1>11, <1>12, QuietKeeps
  <1>14. RelaysAreReal'
    <2> SUFFICES ASSUME NEW x \in Sessions, NEW q, q = registry[x], q # None
                 PROVE  proc'[q].relays <= Cardinality(Counted(q)')
      BY <1>1 DEF RelaysAreReal, Registered, RelayCount, Counted
    <2>1. q \in Procs /\ proc[q].relays <= Cardinality(Counted(q)) /\ proc[q].relays \in Nat
      BY DEF TtydInv, TypeOK, ProcRecords, RelaysAreReal, Registered, RelayCount
    <2>2. CASE q = p
      <3>1. Cardinality(Counted(q)) \in Nat  BY CountedFinite
      <3>2. proc'[q].relays = proc[q].relays + 1  BY <1>9, <2>2
      <3>3. Counted(q)' = Counted(p)'  BY <2>2 DEF Counted
      <3>4. Cardinality(Counted(q)') = Cardinality(Counted(q)) + 1  BY <1>8, <2>2, <3>3
      <3> QED  BY <2>1, <3>1, <3>2, <3>4
    <2>3. CASE q # p
      <3>1. Counted(q)' = Counted(q)  BY <1>1, <1>4, <1>6, <2>3 DEF Counted
      <3> QED  BY <1>9, <2>1, <2>3, <3>1
    <2> QED  BY <2>2, <2>3
  <1> QED  BY <1>12, <1>13, <1>14 DEF TtydInv

LEMMA DialKeeps ==
  ASSUME TtydInv, NEW t \in Tasks, Dial(t)
  PROVE  TtydInv'
  <1>1. PICK o : /\ o \in Procs \cup {None}
                 /\ task[t].pc = "dial" /\ task' = [task EXCEPT ![t].pc = "relay", ![t].on = o]
                 /\ UNCHANGED <<proc, registry, socket, run, reaper, lost>>
    <2>1. task[t].session \in Sessions  BY RightTaskInUse DEF Dial, RightTask
    <2> QED  BY <2>1 DEF Dial, TtydInv, TypeOK
  <1>2. task[t] \in TaskRecords /\ RightTask(task[t]) /\ task \in [Tasks -> TaskRecords]
    BY RightTaskInUse DEF TtydInv, TypeOK
  <1>3. PICK v : v = [task[t] EXCEPT !.pc = "relay", !.on = o]  OBVIOUS
  <1>4. v \in TaskRecords /\ v.pc = "relay" /\ v.proc = task[t].proc /\ v.session = task[t].session
    BY <1>1, <1>2, <1>3 DEF TaskRecords, Pc
  <1>5. task' = [task EXCEPT ![t] = v]  BY <1>1, <1>2, <1>3
  <1>6. task'[t] = v /\ \A x \in Tasks : x # t => task'[x] = task[x]  BY <1>2, <1>5
  <1>7. RightTask(v)  BY <1>1, <1>2, <1>4 DEF RightTask
  <1>8. ProcsStay  BY <1>1 DEF ProcsStay
  <1>9. RightTask(v)'  BY <1>7, <1>8, RightTaskStays
  <1>10. task' \in [Tasks -> TaskRecords] /\ TasksChange /\ WaitsEnd
    BY <1>1, <1>4, <1>5, <1>9, OneTask
  <1>11. TypeOK'  BY <1>1, <1>10 DEF TtydInv, TypeOK
  <1>12. RightPlaces' /\ RegisteredRecorded' /\ LeadsTo' /\ Ebb  BY <1>1, <1>10, <1>11, QuietKeeps
  <1>13. RelaysAreReal'  BY <1>1, <1>4, <1>6, <1>12, RelaysSame
  <1> QED  BY <1>11, <1>12, <1>13 DEF TtydInv

\* A relay that ends is the registered process's, or that of one no longer
\* registered: no other session's process has it among its own.
LEMMA EndRelayKeeps ==
  ASSUME TtydInv, NEW t \in Tasks, EndRelay(t)
  PROVE  TtydInv'
  <1>1. PICK s, p :
           /\ s = task[t].session /\ p = registry[s]
           /\ task[t].pc \in {"dial", "relay"} /\ task' = [task EXCEPT ![t] = Idle]
           /\ proc' = IF p = None THEN proc
                      ELSE [proc EXCEPT ![p].relays = IF @ = 0 THEN 0 ELSE @ - 1, ![p].old = FALSE]
           /\ UNCHANGED <<registry, socket, run, reaper, lost>>
    BY DEF EndRelay, Released, Finish
  <1>2. /\ s \in Sessions /\ task[t] \in TaskRecords /\ RightTask(task[t]) /\ p \in Procs \cup {None}
        /\ proc \in [Procs -> ProcRecords] /\ task \in [Tasks -> TaskRecords]
    BY <1>1, RightTaskInUse DEF RightTask, TtydInv, TypeOK
  <1>3. task'[t] = Idle /\ \A x \in Tasks : x # t => task'[x] = task[x]  BY <1>1, <1>2
  <1>4. /\ \A q \in Procs : /\ proc'[q].state = proc[q].state /\ proc'[q].session = proc[q].session
                            /\ q # p => proc'[q].relays = proc[q].relays
        /\ proc' \in [Procs -> ProcRecords]
        /\ p # None => proc'[p].relays = IF proc[p].relays = 0 THEN 0 ELSE proc[p].relays - 1
    <2>1. CASE p = None  BY <1>1, <1>2, <2>1
    <2>2. CASE p # None
      <3>1. p \in Procs /\ proc[p] \in ProcRecords  BY <1>2, <2>2
      <3>2. PICK n : n = IF proc[p].relays = 0 THEN 0 ELSE proc[p].relays - 1  OBVIOUS
      <3>3. n \in 0..Cardinality(Tasks)
        BY <3>1, <3>2, FS_CardinalityType DEF ProcRecords
      <3>4. PICK u : u = [proc[p] EXCEPT !.relays = n, !.old = FALSE]  OBVIOUS
      <3>5. u \in ProcRecords /\ u.relays = n /\ u.state = proc[p].state /\ u.session = proc[p].session
        BY <3>1, <3>3, <3>4 DEF ProcRecords
      <3>6. proc' = [proc EXCEPT ![p] = u]  BY <1>1, <1>2, <2>2, <3>2, <3>4
      <3> QED  BY <1>2, <3>1, <3>2, <3>5, <3>6
    <2> QED  BY <2>1, <2>2
  <1>5. PICK v : v = Idle  OBVIOUS
  <1>6. v \in TaskRecords /\ RightTask(v)' /\ task' = [task EXCEPT ![t] = v]
    BY <1>1, <1>5 DEF Idle, TaskRecords, Pc, RightTask
  <1>7. task' \in [Tasks -> TaskRecords] /\ TasksChange /\ WaitsEnd
    BY <1>1, <1>6, OneTask
  <1>8. TypeOK'  BY <1>1, <1>4, <1>7 DEF TtydInv, TypeOK
  <1>9. RightPlaces' /\ RegisteredRecorded' /\ LeadsTo'  BY <1>1, <1>4, <1>7, <1>8, QuietKeeps
  <1>10. RelaysAreReal'
    <2> SUFFICES ASSUME NEW x \in Sessions, NEW q, q = registry[x], q # None
                 PROVE  proc'[q].relays <= Cardinality(Counted(q)')
      BY <1>1 DEF RelaysAreReal, Registered, RelayCount, Counted
    <2>1. /\ q \in Procs /\ proc[q].relays <= Cardinality(Counted(q)) /\ proc[q].relays \in Nat
          /\ Serves(q, x)
      BY DEF TtydInv, TypeOK, ProcRecords, RelaysAreReal, Registered, RelayCount, RightPlaces, RegistryRight
    <2>2. Counted(q)' = Counted(q) \ {t}  BY <1>1, <1>3 DEF Counted, Idle
    <2>3. IsFiniteSet(Counted(q)) /\ Cardinality(Counted(q)) \in Nat  BY CountedFinite
    <2>4. CASE t \notin Counted(q)
      <3>1. Counted(q)' = Counted(q)  BY <2>2, <2>4
      <3>2. proc'[q].relays <= proc[q].relays /\ proc'[q].relays \in Nat
        BY <1>4, <2>1
      <3> QED  BY <2>1, <2>3, <3>1, <3>2
    <2>5. CASE t \in Counted(q)
      <3>1. Cardinality(Counted(q)') = Cardinality(Counted(q)) - 1 /\ Cardinality(Counted(q)') \in Nat
        BY <2>2, <2>3, <2>5, FS_RemoveElement, FS_CardinalityType
      <3>2. task[t].proc = q  BY <2>5 DEF Counted
      <3>3. Serves(q, s)  BY <1>1, <1>2, <2>1, <3>2 DEF RightTask
      <3>4. x = s /\ q = p  BY <1>1, <2>1, <3>3 DEF Serves
      <3>5. proc'[q].relays = IF proc[q].relays = 0 THEN 0 ELSE proc[q].relays - 1  BY <1>4, <3>4
      <3> QED  BY <2>1, <2>3, <3>1, <3>5
    <2> QED  BY <2>4, <2>5
  <1> QED  BY <1>8, <1>9, <1>10 DEF TtydInv

-----------------------------------------------------------------------------
(* The requests *)

LEMMA LeavesKeeps ==
  ASSUME TtydInv, NEW t \in Tasks, ClientLeaves(t)
  PROVE  TtydInv'
  <1>1. /\ task[t].pc \notin {"dial", "relay"} /\ Finish(t)
        /\ lost' = lost \cup (IF task[t].pc = "wait" THEN {task[t].proc} ELSE {})
        /\ UNCHANGED <<proc, registry, socket, run, reaper>>
    BY DEF ClientLeaves
  <1>2. PICK v \in TaskRecords : /\ task' = [task EXCEPT ![t] = v]
                                 /\ v.pc \notin {"dial", "relay"} /\ RightTask(v)'
    BY <1>1, FinishedTask
  <1>3. task[t].pc = "wait" => task[t].proc \in Procs  BY RightTaskInUse DEF RightTask, Serves
  <1>4. \A q \in Procs : task[t].pc = "wait" /\ task[t].proc = q => q \in lost'  BY <1>1
  <1>5. lost' \subseteq Procs /\ lost \subseteq lost'  BY <1>1, <1>3 DEF TtydInv, TypeOK
  <1>6. FilesGo /\ run' \in [Paths -> Procs \cup {None}] /\ socket' \in [Paths -> Procs \cup {None}]
    BY <1>1 DEF FilesGo, TtydInv, TypeOK
  <1>7. Killing  BY <1>1, NothingKilled
  <1> QED  BY <1>1, <1>2, <1>4, <1>5, <1>6, <1>7, KillingStep

LEMMA BeginsKeeps ==
  ASSUME TtydInv, NEW t \in Tasks, NEW s \in Sessions, OpenTerminal(t, s) \/ ConnectSession(t, s)
  PROVE  TtydInv'
  <1>1. UNCHANGED <<proc, registry, socket, run, reaper, lost>> /\ task[t] = Idle
    BY DEF OpenTerminal, ConnectSession, Begin
  <1>2. PICK op \in {"ws", "connect"}, pc \in {"accept", "ensure"} :
           task' = [task EXCEPT ![t] = [op |-> op, pc |-> pc, session |-> s, proc |-> None, on |-> None]]
    BY DEF OpenTerminal, ConnectSession, Begin
  <1>3. PICK v : v = [op |-> op, pc |-> pc, session |-> s, proc |-> None, on |-> None]  OBVIOUS
  <1>4. v \in TaskRecords /\ v.pc = pc /\ v.session = s  BY <1>3 DEF TaskRecords, Pc
  <1>5. RightTask(v)'  BY <1>4 DEF RightTask
  <1>6. Killing /\ socket' \in [Paths -> Procs \cup {None}]  BY <1>1, NothingKilled DEF TtydInv, TypeOK
  <1>7. task[t].pc = "idle"  BY <1>1 DEF Idle
  <1> QED  BY <1>1, <1>2, <1>3, <1>4, <1>5, <1>6, <1>7, FilesStand, KillingStep

LEMMA KillsKeeps ==
  ASSUME TtydInv, NEW t \in Tasks, NEW s \in Sessions, DeleteCurrentSession(t, s) \/ RenameSession(t, s)
  PROVE  TtydInv'
  <1>1. /\ registry[s] # None /\ task[t] = Idle /\ KillBegins(s)
        /\ UNCHANGED <<socket, run, reaper, lost>>
    BY DEF DeleteCurrentSession, RenameSession
  <1> PICK p : p = registry[s]  OBVIOUS
  <1>2. PICK op \in {"delete", "rename"} :
           task' = [task EXCEPT ![t] = [op |-> op, pc |-> "kill", session |-> s, proc |-> p, on |-> None]]
    BY DEF DeleteCurrentSession, RenameSession
  <1>3. Killing /\ InUse(p) /\ p \in Procs  BY <1>1, KillBeginsKills DEF InUse
  <1>4. PICK v : v = [op |-> op, pc |-> "kill", session |-> s, proc |-> p, on |-> None]  OBVIOUS
  <1>5. v \in TaskRecords /\ v.pc = "kill" /\ v.session = s /\ v.proc = p
    BY <1>3, <1>4 DEF TaskRecords, Pc
  <1>6. InUse(p)'  BY <1>3, InUseStays DEF Killing, Ebb
  <1>7. RightTask(v)'  BY <1>5, <1>6 DEF RightTask
  <1>8. socket' \in [Paths -> Procs \cup {None}]  BY <1>1 DEF TtydInv, TypeOK
  <1>9. task[t].pc = "idle"  BY <1>1 DEF Idle
  <1> QED  BY <1>1, <1>2, <1>3, <1>4, <1>5, <1>7, <1>8, <1>9, FilesStand, KillingStep

-----------------------------------------------------------------------------
(* The processes, the reaper and the restart *)

LEMMA NobodysStep ==
  ASSUME TtydInv, Killing, UNCHANGED task, FilesGo, run' \in [Paths -> Procs \cup {None}],
         lost' \subseteq Procs, lost \subseteq lost', socket' \in [Paths -> Procs \cup {None}],
         reaper' \in [todo : SUBSET Sessions, proc : Procs \cup {None}],
         UNCHANGED reaper \/ reaper'.proc = None \/ InUse(reaper'.proc)
  PROVE  TtydInv'
  <1>1. TypeOK'  BY DEF TypeOK, TtydInv, Killing
  <1>2. TasksChange /\ WaitsEnd  BY DEF TasksChange, WaitsEnd
  <1>3. RightPlaces' /\ RegisteredRecorded' /\ LeadsTo'  BY <1>1, <1>2, EbbKeeps DEF Killing
  <1>4. RelaysAreReal'  BY RelaysSame DEF Killing
  <1> QED  BY <1>1, <1>3, <1>4 DEF TtydInv

\* A process binds, ends or ages.
LEMMA ProcessKeeps ==
  ASSUME TtydInv, (\E p \in Procs : Bind(p) \/ Exit(p)) \/ (\E s \in Sessions : Ages(s))
  PROVE  TtydInv'
  <1>1. PICK p \in Procs, u \in ProcRecords :
           /\ proc' = [proc EXCEPT ![p] = u]
           /\ u.session = proc[p].session /\ u.relays = proc[p].relays
           /\ u.state \in {proc[p].state, "dead"} \/ (u.state = "bound" /\ proc[p].state = "starting")
    <2>1. ASSUME NEW p \in Procs, Bind(p)
          PROVE  \E u \in ProcRecords :
                    /\ proc' = [proc EXCEPT ![p] = u]
                    /\ u.session = proc[p].session /\ u.relays = proc[p].relays
                    /\ u.state = "bound" /\ proc[p].state = "starting"
      <3>1. proc[p] \in ProcRecords /\ proc \in [Procs -> ProcRecords]  BY DEF TtydInv, TypeOK
      <3>2. PICK u : u = [proc[p] EXCEPT !.state = "bound"]  OBVIOUS
      <3>3. u \in ProcRecords /\ u.session = proc[p].session /\ u.relays = proc[p].relays /\ u.state = "bound"
        BY <3>1, <3>2 DEF ProcRecords, Alive
      <3>4. proc' = [proc EXCEPT ![p] = u]  BY <2>1, <3>1, <3>2 DEF Bind
      <3> QED  BY <2>1, <3>3, <3>4 DEF Bind
    <2>2. ASSUME NEW p \in Procs, Exit(p)
          PROVE  \E u \in ProcRecords :
                    /\ proc' = [proc EXCEPT ![p] = u]
                    /\ u.session = proc[p].session /\ u.relays = proc[p].relays /\ u.state = "dead"
      <3>1. proc[p] \in ProcRecords /\ proc \in [Procs -> ProcRecords]  BY DEF TtydInv, TypeOK
      <3>2. PICK u : u = [proc[p] EXCEPT !.state = "dead"]  OBVIOUS
      <3>3. u \in ProcRecords /\ u.session = proc[p].session /\ u.relays = proc[p].relays /\ u.state = "dead"
        BY <3>1, <3>2 DEF ProcRecords, Alive
      <3>4. proc' = [proc EXCEPT ![p] = u]  BY <2>2, <3>1, <3>2 DEF Exit
      <3> QED  BY <3>3, <3>4
    <2>3. ASSUME NEW s \in Sessions, Ages(s)
          PROVE  \E p \in Procs, u \in ProcRecords :
                    /\ proc' = [proc EXCEPT ![p] = u]
                    /\ u.session = proc[p].session /\ u.relays = proc[p].relays /\ u.state = proc[p].state
      <3>1. PICK p \in Procs : p = registry[s]  BY <2>3 DEF Ages, TtydInv, TypeOK
      <3>2. proc[p] \in ProcRecords /\ proc \in [Procs -> ProcRecords]  BY DEF TtydInv, TypeOK
      <3>3. PICK u : u = [proc[p] EXCEPT !.old = TRUE]  OBVIOUS
      <3>4. u \in ProcRecords /\ u.session = proc[p].session /\ u.relays = proc[p].relays /\ u.state = proc[p].state
        BY <3>2, <3>3 DEF ProcRecords
      <3>5. proc' = [proc EXCEPT ![p] = u]  BY <2>3, <3>1, <3>2, <3>3 DEF Ages
      <3> QED  BY <3>4, <3>5
    <2> QED  BY <2>1, <2>2, <2>3
  <1>2. /\ UNCHANGED <<registry, run, task, reaper, lost>>
        /\ socket' \in [Paths -> Procs \cup {None}]
    <2>1. socket \in [Paths -> Procs \cup {None}]  BY DEF TtydInv, TypeOK
    <2>2. ASSUME NEW x \in Procs, Bind(x)
          PROVE  /\ UNCHANGED <<registry, run, task, reaper, lost>>
                 /\ socket' \in [Paths -> Procs \cup {None}]
      <3> DEFINE there == PathOf(x)
      <3>1. socket' = [socket EXCEPT ![there] = x]  BY <2>2 DEF Bind
      <3> HIDE DEF there
      <3>2. socket' \in [Paths -> Procs \cup {None}]  BY <2>1, <3>1
      <3>3. UNCHANGED <<registry, run, task, reaper, lost>>  BY <2>2 DEF Bind
      <3> QED  BY <3>2, <3>3
    <2>3. ASSUME NEW x \in Procs, Exit(x)
          PROVE  /\ UNCHANGED <<registry, run, task, reaper, lost>>
                 /\ socket' \in [Paths -> Procs \cup {None}]
      <3>1. socket' = socket \/ socket' = Unlinked(socket, PathOf(x))  BY <2>3 DEF Exit
      <3>2. socket' \in [Paths -> Procs \cup {None}]  BY <2>1, <3>1, UnlinkedType
      <3> QED  BY <2>3, <3>2 DEF Exit
    <2>4. ASSUME NEW s \in Sessions, Ages(s)
          PROVE  /\ UNCHANGED <<registry, run, task, reaper, lost>>
                 /\ socket' \in [Paths -> Procs \cup {None}]
      BY <2>1, <2>4 DEF Ages
    <2> QED  BY <2>2, <2>3, <2>4
  <1>3. proc'[p] = u /\ (\A q \in Procs : q # p => proc'[q] = proc[q]) /\ proc' \in [Procs -> ProcRecords]
    BY <1>1 DEF TtydInv, TypeOK
  <1>4. Killing
    <2>1. ProcsStay  BY <1>1, <1>3 DEF ProcsStay
    <2>2. \A q \in Procs : Runs(q)' => Runs(q)  BY <1>1, <1>3 DEF Runs
    <2>3. \A q \in Procs : proc'[q].relays = proc[q].relays  BY <1>1, <1>3
    <2> QED  BY <1>2, <1>3, <2>1, <2>2, <2>3 DEF Killing, Ebb, TtydInv, TypeOK
  <1>5. reaper' \in [todo : SUBSET Sessions, proc : Procs \cup {None}]  BY <1>2 DEF TtydInv, TypeOK
  <1> QED  BY <1>2, <1>4, <1>5, FilesStand, NobodysStep

LEMMA ReapNextKills ==
  ASSUME TtydInv, NEW todo \in SUBSET Sessions, ReapNext(todo)
  PROVE  /\ Killing
         /\ reaper' \in [todo : SUBSET Sessions, proc : Procs \cup {None}]
         /\ reaper'.proc = None \/ InUse(reaper'.proc)
  <1>1. ASSUME NEW s \in todo \cap Registered, KillBegins(s), reaper' = [todo |-> todo \ {s}, proc |-> registry[s]]
        PROVE  Killing /\ reaper' \in [todo : SUBSET Sessions, proc : Procs \cup {None}] /\ InUse(reaper'.proc)
    <2>1. s \in Sessions /\ registry[s] # None  BY DEF Registered
    <2>2. Killing /\ InUse(registry[s])  BY <1>1, <2>1, KillBeginsKills
    <2> QED  BY <1>1, <2>2 DEF InUse
  <1>2. ASSUME reaper' = Resting, UNCHANGED <<registry, proc>>
        PROVE  Killing /\ reaper' \in [todo : SUBSET Sessions, proc : Procs \cup {None}] /\ reaper'.proc = None
    BY <1>2, NothingKilled DEF Resting
  <1> QED  BY <1>1, <1>2 DEF ReapNext

LEMMA ReaperKeeps ==
  ASSUME TtydInv, ReapIdleTtyds \/ AfterReap
  PROVE  TtydInv'
  <1>1. CASE ReapIdleTtyds
    <2>1. ToReap \in SUBSET Sessions  BY DEF ToReap, Registered
    <2>2. /\ Killing
          /\ reaper' \in [todo : SUBSET Sessions, proc : Procs \cup {None}]
          /\ reaper'.proc = None \/ InUse(reaper'.proc)
      BY <1>1, <2>1, ReapNextKills DEF ReapIdleTtyds
    <2>3. UNCHANGED <<socket, run, task, lost>> /\ socket' \in [Paths -> Procs \cup {None}]
      BY <1>1 DEF ReapIdleTtyds, TtydInv, TypeOK
    <2> QED  BY <2>2, <2>3, FilesStand, NobodysStep
  <1>2. CASE AfterReap
    <2>1. PICK p : p = reaper.proc  OBVIOUS
    <2>2. InUse(p) /\ KillEnds(p)  BY <1>2, <2>1 DEF AfterReap, TtydInv, RightPlaces, ReaperRight
    <2>3. reaper.todo \in SUBSET Sessions  BY DEF TtydInv, TypeOK
    <2>4. /\ Killing
          /\ reaper' \in [todo : SUBSET Sessions, proc : Procs \cup {None}]
          /\ reaper'.proc = None \/ InUse(reaper'.proc)
      BY <1>2, <2>3, ReapNextKills DEF AfterReap
    <2>5. UNCHANGED task /\ socket' \in [Paths -> Procs \cup {None}]
      BY <1>2, UnlinkedType DEF AfterReap, TtydInv, TypeOK
    <2> QED  BY <2>2, <2>4, <2>5, KillEndsFiles, NobodysStep
  <1> QED  BY <1>1, <1>2

\* What the next start does not find is in the history.
LEMMA RestartKeepsTtyds ==
  ASSUME TtydInv, Restart
  PROVE  TtydInv'
  <1>1. PICK reaped \in SUBSET Procs, stopped \in SUBSET Procs :
           /\ reaped \subseteq Orphans
           /\ proc' = [p \in Procs |-> IF p \in reaped \cup stopped
                                         THEN [proc[p] EXCEPT !.state = "dead"] ELSE proc[p]]
           /\ lost' = lost \cup Waiting \cup (Orphans \ reaped)
    <2>1. Orphans \subseteq Procs  BY DEF Orphans
    <2>2. {registry[s] : s \in Registered} \subseteq Procs  BY DEF Registered, TtydInv, TypeOK
    <2> QED  BY <2>1, <2>2 DEF Restart
  <1>2. /\ registry' = [s \in Sessions |-> None] /\ run' = [x \in Paths |-> None]
        /\ socket' = [x \in Paths |-> None]
        /\ task' = [t \in Tasks |-> Idle] /\ reaper' = Resting
    BY DEF Restart
  <1>3. Waiting \subseteq Procs
    <2>1. ASSUME NEW t \in Tasks, task[t].pc = "wait"  PROVE task[t].proc \in Procs
      BY <2>1, RightTaskInUse DEF RightTask, Serves
    <2> QED  BY <2>1 DEF Waiting
  <1>4. TypeOK'
    <2>1. proc' \in [Procs -> ProcRecords]
      BY <1>1 DEF TtydInv, TypeOK, ProcRecords, Alive
    <2>2. task' \in [Tasks -> TaskRecords]  BY <1>2 DEF Idle, TaskRecords, Pc
    <2>3. lost' \subseteq Procs  BY <1>1, <1>3 DEF TtydInv, TypeOK, Orphans
    <2> QED  BY <1>2, <2>1, <2>2, <2>3 DEF TypeOK, Resting
  <1>5. TasksRight'  BY <1>2 DEF TasksRight, RightTask, Idle
  <1>6. RegistryRight' /\ ReaperRight' /\ RegisteredRecorded'
    BY <1>2 DEF RegistryRight, ReaperRight, RegisteredRecorded, Resting
  <1>7. LeadsTo'
    <2> SUFFICES ASSUME NEW p \in Procs, Runs(p)', p \notin lost'  PROVE FALSE
      BY DEF LeadsTo
    <2>1. Runs(p) /\ p \notin reaped
      BY <1>1 DEF Runs, TtydInv, TypeOK, ProcRecords
    <2>2. p \notin lost /\ p \notin Waiting /\ p \notin Orphans  BY <1>1, <2>1
    <2>3. ~Recorded(p)  BY <2>1, <2>2 DEF Orphans, Recorded, Runs, Alive
    <2>4. Held(p)  BY <2>1, <2>2 DEF TtydInv, LeadsTo
    <2>5. ~(\E t \in Tasks : task[t].pc = "wait" /\ task[t].proc = p)  BY <2>2 DEF Waiting
    <2> QED  BY <2>1, <2>2, <2>3, <2>4, <2>5 DEF Held, Recorded, TtydInv, RegisteredRecorded
  <1>8. RelaysAreReal'  BY <1>2 DEF RelaysAreReal, Registered
  <1> QED  BY <1>4, <1>5, <1>6, <1>7, <1>8 DEF TtydInv, RightPlaces

-----------------------------------------------------------------------------
LEMMA TtydNext ==
  ASSUME TtydInv, [Next]_vars
  PROVE  TtydInv'
  <1>1. CASE UNCHANGED vars
    BY <1>1 DEF vars, TtydInv, TypeOK, RightPlaces, TasksRight, RightTask, RegistryRight, ReaperRight,
                Serves, InUse, RegisteredRecorded, Recorded, Runs, LeadsTo, Held, RelaysAreReal,
                Registered, RelayCount, Counted
  <1>2. CASE \E p \in Procs : Bind(p) \/ Exit(p)  BY <1>2, ProcessKeeps
  <1>3. ASSUME NEW t \in Tasks, Awaits(t)  PROVE TtydInv'
    BY <1>3, EnsureKeeps, AfterKillKeeps, SpawnKeeps, ReadyKeeps, NotReadyKeeps, AcceptKeeps, DialKeeps
    DEF Awaits
  <1>4. ASSUME NEW t \in Tasks, EndRelay(t)  PROVE TtydInv'  BY <1>4, EndRelayKeeps
  <1>5. ASSUME NEW t \in Tasks, RequestStep(t)  PROVE TtydInv'
    BY <1>5, LeavesKeeps, BeginsKeeps, KillsKeeps DEF RequestStep
  <1>6. CASE \E s \in Sessions : Ages(s)  BY <1>6, ProcessKeeps
  <1>7. CASE ReaperStep  BY <1>7, ReaperKeeps DEF ReaperStep
  <1>8. CASE Restart  BY <1>8, RestartKeepsTtyds
  <1> QED  BY <1>1, <1>2, <1>3, <1>4, <1>5, <1>6, <1>7, <1>8 DEF Next

\* Any sessions, handlers, processes and MAX_TTYDS: all parts of the invariant
\* hold, whatever the handlers overtake.
THEOREM TtydInvariance == Spec => []TtydInv
  <1>1. Init => TtydInv  BY TtydInit
  <1>2. TtydInv /\ [Next]_vars => TtydInv'  BY TtydNext
  <1> QED  BY <1>1, <1>2, PTL DEF Spec

\* A ttyd that runs has a registry entry, a run file or a handler that waits
\* for it: but for the five reasons the history names, none is left behind.
THEOREM TtydsNeverLeak == Spec => []NothingLeaks
  <1>1. TtydInv => NothingLeaks  BY DEF TtydInv, LeadsTo, Runs, NothingLeaks
  <1> QED  BY <1>1, TtydInvariance, PTL

\* The relay count of a registered ttyd is at most the number of handlers that
\* took a relay of it, so it falls to zero when they have ended.
THEOREM RelaysNeverStick == Spec => []RelaysAreReal
  <1>1. TtydInv => RelaysAreReal  BY DEF TtydInv
  <1> QED  BY <1>1, TtydInvariance, PTL

\* The types.
THEOREM TtydTypes == Spec => []TypeOK
  <1>1. TtydInv => TypeOK  BY DEF TtydInv
  <1> QED  BY <1>1, TtydInvariance, PTL
=============================================================================
