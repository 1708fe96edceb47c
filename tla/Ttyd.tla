------------------------------- MODULE Ttyd -------------------------------
(***************************************************************************)
(* One ttyd process per session, behind a UNIX socket: who spawns it, who  *)
(* relays through it, who kills it, and what a restart finds of it.        *)
(*                                                                         *)
(* Everything runs on one event loop, and no lock guards the registry      *)
(* _ttyds: whatever is between two awaits is one step here, and another    *)
(* coroutine may run at every await.                                       *)
(***************************************************************************)
EXTENDS Naturals, FiniteSets

CONSTANTS Sessions,
          Paths,
          SocketPathFor,   \* [Sessions -> Paths], a hash of the name
          Tasks,           \* requests and WebSockets served at the same time
          Procs,           \* ttyd processes that may ever be spawned
          MaxTtyds         \* MAX_TTYDS

None == "none"
ASSUME NoneAssumption == None \notin Procs
ASSUME PathAssumption == SocketPathFor \in [Sessions -> Paths]
ASSUME FiniteAssumption == IsFiniteSet(Tasks) /\ MaxTtyds \in Nat \ {0}

VARIABLES proc,       \* each process: its session, state, relays, idle clock
          registry,   \* _ttyds: per session, the process
          socket,     \* per path, the process whose socket file is there
          run,        \* per path, the process its run file records
          task,       \* the running handlers
          reaper,     \* the poll cycle's reap_idle_ttyds()
          lost        \* history: processes nothing leads to, for a known reason

vars == <<proc, registry, socket, run, task, reaper, lost>>

\* A process is bound once its socket accepts, and ending once it was told to.
Alive     == {"starting", "bound", "ending"}
Listening == {"bound", "ending"}
Unused    == [session |-> None, state |-> "unused", relays |-> 0, old |-> FALSE]

Idle     == [op |-> None, pc |-> "idle", session |-> None, proc |-> None, on |-> None]
Resting  == [todo |-> {}, proc |-> None]

PathOf(p) == SocketPathFor[proc[p].session]

\* socket_is_live: somebody accepts at the path.
SocketIsLive(path) == socket[path] # None /\ proc[socket[path]].state \in Listening

Registered == {s \in Sessions : registry[s] # None}
RelayCount(s) == IF registry[s] = None THEN 0 ELSE proc[registry[s]].relays

Unlinked(files, path) == [files EXCEPT ![path] = None]

Init ==
    /\ proc     = [p \in Procs |-> Unused]
    /\ registry = [s \in Sessions |-> None]
    /\ socket   = [x \in Paths |-> None]
    /\ run      = [x \in Paths |-> None]
    /\ task     = [t \in Tasks |-> Idle]
    /\ reaper   = Resting
    /\ lost     = {}

-----------------------------------------------------------------------------
(* The processes *)

\* bind() fails on an existing path; ttyd retries or gives up.
Bind(p) ==
    /\ proc[p].state = "starting"
    /\ socket[PathOf(p)] = None
    /\ socket' = [socket EXCEPT ![PathOf(p)] = p]
    /\ proc'   = [proc EXCEPT ![p].state = "bound"]
    /\ UNCHANGED <<registry, run, task, reaper, lost>>

\* A process ends by itself, by SIGTERM or by SIGKILL.  A clean end removes the
\* socket file, whoever's it is by then.
Exit(p) ==
    /\ proc[p].state \in Alive
    /\ proc' = [proc EXCEPT ![p].state = "dead"]
    /\ \/ UNCHANGED socket
       \/ proc[p].state # "starting" /\ socket' = Unlinked(socket, PathOf(p))
    /\ UNCHANGED <<registry, run, task, reaper, lost>>

-----------------------------------------------------------------------------
(* kill_ttyd *)

\* Before its await: out of the registry, and SIGTERM.
KillBegins(s) ==
    LET p == registry[s]
    IN  /\ registry' = [registry EXCEPT ![s] = None]
        /\ proc' = [proc EXCEPT ![p].state = IF @ = "dead" THEN "dead" ELSE "ending"]

\* After its await the files at the path go, whoever's they are by then.  The
\* caller says what becomes of the socket.
KillEnds(p) ==
    /\ proc[p].state = "dead"
    /\ run'  = Unlinked(run, PathOf(p))
    /\ lost' = lost \cup ({run[PathOf(p)]} \ {None, p})

-----------------------------------------------------------------------------
(* ensure_ttyd and spawn_ttyd *)

Finish(t) == task' = [task EXCEPT ![t] = Idle]

\* A WebSocket goes on to accept; POST /connect is answered.
Prepared(t) ==
    task' = [task EXCEPT ![t] = IF @.op = "ws" THEN [@ EXCEPT !.pc = "accept", !.proc = None]
                                               ELSE Idle]

\* spawn_ttyd refuses a path another session's ttyd is registered on.
Collides(s) == \E x \in Registered \ {s} : SocketPathFor[x] = SocketPathFor[s]

HasRoom == Cardinality(Registered) < MaxTtyds

\* At capacity the longest idle ttyd is killed, if there is one.
Spared ==
    LET quiet == {s \in Registered : RelayCount(s) = 0}
        old   == {s \in quiet : proc[registry[s]].old}
    IN  IF old # {} THEN old ELSE quiet

\* spawn_ttyd up to its first await; sockets are the files before it.
BeginSpawn(t, s, sockets) ==
    /\ IF Collides(s)
         THEN Finish(t) /\ socket' = sockets
         ELSE /\ socket' = Unlinked(sockets, SocketPathFor[s])
              /\ task'   = [task EXCEPT ![t].pc = "spawn", ![t].proc = None]
    /\ UNCHANGED <<registry, proc>>

\* mutant: at capacity, with every ttyd relaying, the request waits.
MakeRoomOrWait(t, s, sockets) ==
    \/ HasRoom /\ BeginSpawn(t, s, sockets)
    \/ /\ ~HasRoom
       /\ \E x \in Spared :
             /\ KillBegins(x)
             /\ task' = [task EXCEPT ![t].pc = "evict", ![t].proc = registry[x]]
       /\ socket' = sockets

MakeRoom(t, s, sockets) ==
    \/ HasRoom /\ BeginSpawn(t, s, sockets)
    \/ /\ ~HasRoom
       /\ \E x \in Spared :
             /\ KillBegins(x)
             /\ task' = [task EXCEPT ![t].pc = "evict", ![t].proc = registry[x]]
       /\ socket' = sockets
    \/ /\ ~HasRoom /\ Spared = {}
       /\ Finish(t)
       /\ socket' = sockets
       /\ UNCHANGED <<registry, proc>>

EnsureTtyd(t) ==
    LET s == task[t].session
    IN  /\ task[t].pc = "ensure"
        /\ \/ /\ registry[s] # None /\ SocketIsLive(SocketPathFor[s])
              /\ Prepared(t)
              /\ UNCHANGED <<registry, proc, socket>>
           \/ /\ registry[s] # None /\ ~SocketIsLive(SocketPathFor[s])
              /\ KillBegins(s)
              /\ task' = [task EXCEPT ![t].pc = "kill", ![t].proc = registry[s]]
              /\ UNCHANGED socket
           \/ registry[s] = None /\ MakeRoom(t, s, socket)
        /\ UNCHANGED <<run, reaper, lost>>

\* The dead one's bookkeeping is gone.
AfterKill(t) ==
    /\ task[t].pc = "kill"
    /\ KillEnds(task[t].proc)
    /\ IF task[t].op \in {"ws", "connect"}
         THEN MakeRoom(t, task[t].session, Unlinked(socket, PathOf(task[t].proc)))
         ELSE /\ Finish(t)
              /\ socket' = Unlinked(socket, PathOf(task[t].proc))
              /\ UNCHANGED <<registry, proc>>
    /\ UNCHANGED reaper

AfterEvict(t) ==
    LET sockets == Unlinked(socket, PathOf(task[t].proc))
    IN  /\ task[t].pc = "evict"
        /\ KillEnds(task[t].proc)
        /\ \/ HasRoom /\ BeginSpawn(t, task[t].session, sockets)
           \/ /\ ~HasRoom
              /\ Finish(t)
              /\ socket' = sockets
              /\ UNCHANGED <<registry, proc>>
        /\ UNCHANGED reaper

Spawn(t, p) ==
    /\ task[t].pc = "spawn"
    /\ proc[p] = Unused
    /\ proc' = [proc EXCEPT ![p].session = task[t].session, ![p].state = "starting"]
    /\ task' = [task EXCEPT ![t].pc = "wait", ![t].proc = p]
    /\ UNCHANGED <<registry, socket, run, reaper, lost>>

\* The readiness gate: a socket file at the path, and somebody accepts.
Ready(t) ==
    LET s    == task[t].session
        p    == task[t].proc
        path == SocketPathFor[s]
    IN  /\ task[t].pc = "wait"
        /\ SocketIsLive(path)
        /\ registry' = [registry EXCEPT ![s] = p]
        /\ run'      = [run EXCEPT ![path] = p]
        /\ proc'     = [proc EXCEPT ![p].relays = 0, ![p].old = FALSE]
        /\ lost'     = lost \cup ({registry[s], run[path]} \ {None, p})
        /\ Prepared(t)
        /\ UNCHANGED <<socket, reaper>>

\* mutant: the process that is not ready is left running.
LeftRunning(p) == proc

Killed(p) == [proc EXCEPT ![p].state = "dead"]

\* No socket in time, a socket nobody accepts on, or a process that exited.
NotReady(t) ==
    LET path == SocketPathFor[task[t].session]
    IN  /\ task[t].pc = "wait"
        /\ ~SocketIsLive(path)
        /\ proc' = Killed(task[t].proc)
        /\ Finish(t)
        /\ UNCHANGED <<registry, socket, run, reaper, lost>>

-----------------------------------------------------------------------------
(* The handlers *)

\* Bound: a request begins while every spawn under way can still be served.
Budget ==
    Cardinality({p \in Procs : proc[p] = Unused})
       > Cardinality({t \in Tasks : task[t].pc \in {"ensure", "kill", "evict", "spawn"}})

Begin(t, op, s, pc) ==
    /\ task[t] = Idle
    /\ pc = "ensure" => Budget
    /\ task' = [task EXCEPT ![t] = [op |-> op, pc |-> pc, session |-> s, proc |-> None, on |-> None]]

\* terminal_ws_proxy: a live socket at the path needs no preparing.
OpenTerminal(t, s) ==
    /\ Begin(t, "ws", s, IF SocketIsLive(SocketPathFor[s]) THEN "accept" ELSE "ensure")
    /\ UNCHANGED <<proc, registry, socket, run, reaper, lost>>

ConnectSession(t, s) ==
    /\ Begin(t, "connect", s, "ensure")
    /\ UNCHANGED <<proc, registry, socket, run, reaper, lost>>

\* The browser leaves while its terminal is prepared: the preparation is
\* cancelled at whatever it awaits.
ClientLeaves(t) ==
    /\ task[t].op = "ws" /\ task[t].pc \notin {"dial", "relay"}
    /\ lost' = lost \cup (IF task[t].pc = "wait" THEN {task[t].proc} ELSE {})
    /\ Finish(t)
    /\ UNCHANGED <<proc, registry, socket, run, reaper>>

\* acquire_relay counts whatever is registered, the dial goes to the path.
Accept(t) ==
    LET p == registry[task[t].session]
    IN  /\ task[t].pc = "accept"
        /\ task' = [task EXCEPT ![t].pc = "dial", ![t].proc = p]
        /\ proc' = IF p = None THEN proc
                   ELSE [proc EXCEPT ![p].relays = @ + 1, ![p].old = FALSE]
        /\ UNCHANGED <<registry, socket, run, reaper, lost>>

\* mutant: only the handler that finds its ttyd releases it.
ReleasedIfLive(s) ==
    LET p == registry[s]
    IN  IF p = None \/ ~SocketIsLive(SocketPathFor[s]) THEN proc
        ELSE [proc EXCEPT ![p].relays = IF @ = 0 THEN 0 ELSE @ - 1,
                          ![p].old    = FALSE]

\* mutant: no max(0, ...).
ReleasedBelowZero(s) ==
    LET p == registry[s]
    IN  IF p = None THEN proc
        ELSE [proc EXCEPT ![p].relays = @ - 1, ![p].old = FALSE]

\* release_relay, of whatever is registered by now.
Released(s) ==
    LET p == registry[s]
    IN  IF p = None THEN proc
        ELSE [proc EXCEPT ![p].relays = IF @ = 0 THEN 0 ELSE @ - 1,
                          ![p].old    = FALSE]

Dial(t) ==
    LET path == SocketPathFor[task[t].session]
    IN  /\ task[t].pc = "dial" /\ SocketIsLive(path)
        /\ task' = [task EXCEPT ![t].pc = "relay", ![t].on = socket[path]]
        /\ UNCHANGED <<proc, registry, socket, run, reaper, lost>>

EndRelay(t) ==
    /\ \/ task[t].pc = "dial" /\ ~SocketIsLive(SocketPathFor[task[t].session])
       \/ task[t].pc = "relay"
    /\ proc' = Released(task[t].session)
    /\ Finish(t)
    /\ UNCHANGED <<registry, socket, run, reaper, lost>>

\* delete_current_session kills what nobody relays.
DeleteCurrentSession(t, s) ==
    /\ registry[s] # None /\ RelayCount(s) = 0
    /\ task[t] = Idle
    /\ KillBegins(s)
    /\ task' = [task EXCEPT ![t] = [op |-> "delete", pc |-> "kill", session |-> s,
                                    proc |-> registry[s], on |-> None]]
    /\ UNCHANGED <<socket, run, reaper, lost>>

\* rename_session's step 10 kills the old name's ttyd, relayed or not.
RenameSession(t, s) ==
    /\ registry[s] # None
    /\ task[t] = Idle
    /\ KillBegins(s)
    /\ task' = [task EXCEPT ![t] = [op |-> "rename", pc |-> "kill", session |-> s,
                                    proc |-> registry[s], on |-> None]]
    /\ UNCHANGED <<socket, run, reaper, lost>>

-----------------------------------------------------------------------------
(* The idle reaper, in the poll cycle *)

\* IDLE_REAP_SECONDS pass.  No handler takes as long from the readiness of its
\* ttyd to its dial.
Ages(s) ==
    /\ registry[s] # None /\ RelayCount(s) = 0
    /\ \A t \in Tasks : task[t].session = s => task[t].pc \notin {"accept", "dial"}
    /\ ~proc[registry[s]].old
    /\ proc' = [proc EXCEPT ![registry[s]].old = TRUE]
    /\ UNCHANGED <<registry, socket, run, task, reaper, lost>>

\* mutant: a ttyd that died is not a candidate.
ToReapAlive ==
    {s \in Registered : RelayCount(s) = 0 /\ proc[registry[s]].old /\ proc[registry[s]].state \in Alive}

ToReap == {s \in Registered : RelayCount(s) = 0 /\ proc[registry[s]].old}

ReapNext(todo) ==
    \/ \E s \in todo \cap Registered :
          /\ KillBegins(s)
          /\ reaper' = [todo |-> todo \ {s}, proc |-> registry[s]]
    \/ /\ todo \cap Registered = {}
       /\ reaper' = Resting
       /\ UNCHANGED <<registry, proc>>

\* reap_idle_ttyds lists the candidates, and awaits the end of each in turn.
ReapIdleTtyds ==
    /\ reaper = Resting
    /\ ToReap # {}
    /\ ReapNext(ToReap)
    /\ UNCHANGED <<socket, run, task, lost>>

AfterReap ==
    /\ reaper.proc # None
    /\ KillEnds(reaper.proc)
    /\ socket' = Unlinked(socket, PathOf(reaper.proc))
    /\ ReapNext(reaper.todo)
    /\ UNCHANGED task

-----------------------------------------------------------------------------
(* A restart *)

\* reap_orphan_ttyds: what a run file names and ps confirms is terminated.  ps
\* may fail, and then nothing is.
Orphans == {p \in Procs : proc[p].state \in Alive /\ \E x \in Paths : run[x] = p}

Waiting == {task[t].proc : t \in {x \in Tasks : task[x].pc = "wait"}}

\* The server stops, by kill_all_ttyd or by a crash, and starts again: what is
\* left is swept before anything is served.
Restart ==
    /\ \E reaped \in {Orphans, {}},
          stopped \in {{}, {registry[s] : s \in Registered}} :
          /\ proc' = [p \in Procs |-> IF p \in reaped \cup stopped
                                        THEN [proc[p] EXCEPT !.state = "dead"]
                                        ELSE proc[p]]
          /\ lost' = lost \cup Waiting \cup (Orphans \ reaped)
    /\ registry' = [s \in Sessions |-> None]
    /\ socket'   = [x \in Paths |-> None]
    /\ run'      = [x \in Paths |-> None]
    /\ task'     = [t \in Tasks |-> Idle]
    /\ reaper'   = Resting

-----------------------------------------------------------------------------
\* What a handler does by itself; a relay ends when the browser wants.
Awaits(t) ==
    \/ EnsureTtyd(t) \/ AfterKill(t) \/ AfterEvict(t)
    \/ \E p \in Procs : Spawn(t, p)
    \/ Ready(t) \/ NotReady(t)
    \/ Accept(t) \/ Dial(t)

RequestStep(t) ==
    \/ ClientLeaves(t)
    \/ \E s \in Sessions :
          \/ OpenTerminal(t, s) \/ ConnectSession(t, s)
          \/ DeleteCurrentSession(t, s) \/ RenameSession(t, s)

ReaperStep == ReapIdleTtyds \/ AfterReap

Next ==
    \/ \E p \in Procs : Bind(p) \/ Exit(p)
    \/ \E t \in Tasks : Awaits(t) \/ EndRelay(t) \/ RequestStep(t)
    \/ \E s \in Sessions : Ages(s)
    \/ ReaperStep
    \/ Restart

Spec == Init /\ [][Next]_vars

\* The event loop resumes what can go on, a process told to end ends (SIGKILL
\* follows SIGTERM), the poll cycle runs every two seconds and comes to its end,
\* which takes an enumeration that succeeds, again and again, and time passes.
Fairness ==
    /\ \A t \in Tasks : WF_vars(Awaits(t))
    /\ \A p \in Procs : WF_vars(proc[p].state = "ending" /\ Exit(p))
    /\ \A s \in Sessions : WF_vars(Ages(s))
    /\ WF_vars(ReaperStep)

FairSpec == Spec /\ Fairness

-----------------------------------------------------------------------------
(* Properties *)

Pc == {"idle", "ensure", "kill", "evict", "spawn", "wait", "accept", "dial", "relay"}
ProcRecords == [session : Sessions \cup {None}, state : Alive \cup {"unused", "dead"},
                relays : 0..Cardinality(Tasks), old : BOOLEAN]
TaskRecords == [op : {None, "ws", "connect", "delete", "rename"}, pc : Pc,
                session : Sessions \cup {None},
                proc : Procs \cup {None}, on : Procs \cup {None}]

TypeOK ==
    /\ proc \in [Procs -> ProcRecords]
    /\ registry \in [Sessions -> Procs \cup {None}]
    /\ socket \in [Paths -> Procs \cup {None}]
    /\ run \in [Paths -> Procs \cup {None}]
    /\ task \in [Tasks -> TaskRecords]
    /\ reaper \in [todo : SUBSET Sessions, proc : Procs \cup {None}]
    /\ lost \subseteq Procs

\* Something leads to the process: the registry, a run file the next start will
\* read, or the handler that waits for its socket.
Held(p) ==
    \/ \E s \in Sessions : registry[s] = p
    \/ \E x \in Paths : run[x] = p
    \/ \E t \in Tasks : task[t].pc = "wait" /\ task[t].proc = p

\* No ttyd runs that nothing leads to, but for five reasons: another spawn for
\* its session overtook it; its client left, or the server stopped, while its
\* socket was awaited; the files it had were unlinked for a process killed
\* before it; ps failed at the start.
NothingLeaks == \A p \in Procs \ lost : proc[p].state \in {"starting", "bound"} => Held(p)

Counted(p) == {t \in Tasks : task[t].pc \in {"dial", "relay"} /\ task[t].proc = p}

\* A relay that failed or ended is not counted for ever: no ttyd has more
\* relays than handlers that took one from it, so an idle one can be reaped.
RelaysAreReal == \A s \in Registered : RelayCount(s) <= Cardinality(Counted(registry[s]))

Relayed(p) == \E t \in Tasks : task[t].pc = "relay" /\ task[t].on = p

\* One device that disconnects never blacks out the other's live terminal.
NeverBlackedOut ==
    [][\A t \in Tasks, s \in Sessions : DeleteCurrentSession(t, s) => ~Relayed(registry[s])]_vars

\* Every request for a terminal is answered.
PrepareEnds == \A t \in Tasks : task[t].pc = "ensure" ~> task[t].pc \in {"idle", "accept"}

Unasked(s) == \A t \in Tasks : task[t].session # s

\* A ttyd nobody uses or asks for does not stay.
IdleIsReaped ==
    \A s \in Sessions : (registry[s] # None /\ RelayCount(s) = 0 /\ Unasked(s))
                        ~> (registry[s] = None \/ RelayCount(s) # 0 \/ ~Unasked(s))
=============================================================================
