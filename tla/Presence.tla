------------------------------ MODULE Presence ------------------------------
(***************************************************************************)
(* The session manifest: which sessions were seen alive under which tmux   *)
(* server, which of them died with that server and wait to be restored,    *)
(* and which command pair created each; with the handlers that create,     *)
(* rename and delete sessions and the `muxplex restore` process.           *)
(*                                                                         *)
(* The poll cycle lists the sessions, asks tmux in a second call who it is *)
(* (its epoch), and only then updates the manifest; it holds state_lock    *)
(* all along, so the handlers' writes wait, but tmux, its users and the    *)
(* restore process do not.  Every read-modify-write of the manifest is one *)
(* step: it holds the manifest's file lock across processes and no await.  *)
(*                                                                         *)
(* update_manifest is code of a library; it is modelled from the tests and *)
(* the changelog of this repository.  A session is what made it: a command *)
(* pair, or a hand.  A rename is one step here (SessionRename has its      *)
(* crashes).  `history` is read by the properties only.                    *)
(***************************************************************************)
EXTENDS Naturals, FiniteSets

CONSTANTS Names,      \* session names
          Pairs,      \* ids of configured session commands
          DefaultPair,
          MaxTurns    \* bound: sessions made by hand or requested, ended, renamed; servers lost

ASSUME DefaultAssumption == DefaultPair \in Pairs /\ "none" \notin Pairs /\ "hand" \notin Pairs
ASSUME BoundsAssumption == MaxTurns \in Nat

VARIABLES server,   \* the epoch of the running tmux server, 0 if there is none
          made,     \* per name what made the live session, "none" if not live
          manifest, \* sessions.json
          cache,    \* get_session_list(): what the last poll listed
          poll,     \* the running poll cycle
          create,   \* the running create_session
          restore,  \* the running `muxplex restore`
          servers,  \* tmux servers so far
          turns,    \* what happened to tmux so far, counted
          late,     \* creating commands that outlived their request: <<name, pair>>
          history   \* what the properties compare with, see Init

tmuxVars  == <<server, made>>
taskVars  == <<poll, create, restore>>
boundVars == <<servers, turns>>
vars == <<tmuxVars, manifest, cache, taskVars, boundVars, late, history>>

-----------------------------------------------------------------------------
(* Values *)

Idle == [phase |-> "idle"]

EmptyManifest ==
  [epoch |-> 0, sessions |-> {}, renamed |-> {}, pending |-> {},
   pendingRenamed |-> {}, created_with |-> [n \in Names |-> "none"]]

Live == {n \in Names : made[n] # "none"}

LockFree == poll.phase = "idle"

Recorded(n) == manifest.created_with[n]

\* What the pair in the manifest tears down or recreates.
PairFor(n) == IF Recorded(n) = "none" THEN DefaultPair ELSE Recorded(n)

Keep(f, names) == [n \in Names |-> IF n \in names THEN f[n] ELSE "none"]

-----------------------------------------------------------------------------
(* tmux and its users *)

Turn == turns < MaxTurns /\ turns' = turns + 1

\* A session starts under name n; the first starts a server.  What the manifest
\* still says of an earlier session of that name is now said of this one.
Starts(n, by) ==
  /\ made[n] = "none"
  /\ made' = [made EXCEPT ![n] = by]
  /\ IF server # 0 THEN UNCHANGED <<server, servers>>
     ELSE servers' = servers + 1 /\ server' = servers'

Reborn(h, n, excused) ==
  [h EXCEPT !.lost = @ \ {n}, !.raced = @ \ {n}, !.closing = @ \ {n}, !.closed = @ \ {n},
            !.returned = IF n \in manifest.pending THEN @ \cup {n} ELSE @,
            !.excused = IF excused THEN @ \cup {n} ELSE @]

Outlived(n) == Recorded(n) # "none"

Ended(h, gone) == [h EXCEPT !.mine = @ \ gone, !.excused = @ \ gone]

StartByHand(n) ==
  /\ Starts(n, "hand") /\ Turn
  /\ history' = Reborn(history, n, Outlived(n))
  /\ UNCHANGED <<manifest, cache, taskVars, late>>

\* A session ends; the last one ends its server.
EndSession(n) ==
  /\ made[n] # "none" /\ Turn
  /\ made' = [made EXCEPT ![n] = "none"]
  /\ server' = IF Live = {n} THEN 0 ELSE server

\* Its owner closes it.
Close(n) ==
  /\ EndSession(n)
  /\ history' = [Ended(history, {n}) EXCEPT !.closing = @ \cup {n}]
  /\ UNCHANGED <<manifest, cache, taskVars, servers, late>>

\* The server dies with every session (a reboot, a SIGKILL of its cgroup).
ServerDies ==
  /\ server # 0 /\ Turn
  /\ server' = 0 /\ made' = [n \in Names |-> "none"]
  /\ history' = [Ended(history, Names) EXCEPT
                   !.lost = @ \cup (Live \cap manifest.sessions)]
  /\ UNCHANGED <<manifest, cache, taskVars, servers, late>>

-----------------------------------------------------------------------------
(* The poll cycle *)

\* enumerate_sessions_strict: a server that does not answer ends the cycle.
PollEnumerates ==
  /\ poll.phase = "idle" /\ server # 0
  /\ poll' = [phase |-> "probe", names |-> Live, under |-> server]
  /\ cache' = Live
  /\ UNCHANGED <<tmuxVars, manifest, create, restore, boundVars, late, history>>

\* probe_tmux_epoch: a call of its own, None without a server.
PollProbes ==
  /\ poll.phase = "probe"
  /\ poll' = [phase |-> "update", names |-> poll.names, under |-> poll.under,
              epoch |-> server, read |-> manifest]
  /\ UNCHANGED <<tmuxVars, manifest, cache, create, restore, boundVars, late, history>>

\* update_manifest(m, epoch, names).  Without an epoch nothing is known; the first
\* one is adopted; under the same one what is missing was closed; under another
\* one what is missing was lost.
Seen(m, epoch, names) == [m EXCEPT !.epoch = epoch, !.sessions = names,
                                   !.renamed = @ \cap names]
ReapedUnseen(m, names) == Keep(m.created_with, names)   \* mutant: seen or not
Closed(m, names) == Keep(m.created_with, Names \ (m.sessions \ names))
LosesEverything(m, epoch, names) ==    \* mutant: and forgets what was pending
  [Seen(m, epoch, names) EXCEPT
     !.pending = m.sessions \ names,
     !.pendingRenamed = m.renamed \ names,
     !.created_with = Keep(@, names \cup m.sessions)]
ColdStart(m, epoch, names) ==
  LET lost == m.sessions \ names
      pending == m.pending \cup lost
  IN  [Seen(m, epoch, names) EXCEPT
         !.pending = pending,
         !.pendingRenamed = @ \cup (m.renamed \cap lost),
         !.created_with = Keep(@, names \cup pending)]

update_manifest_deaf(m, epoch, names) ==  \* mutant: lost, whatever the epoch
  IF epoch = 0 THEN m
  ELSE IF m.epoch = 0 THEN Seen(m, epoch, names)
  ELSE ColdStart(m, epoch, names)
update_manifest(m, epoch, names) ==
  IF epoch = 0 THEN m
  ELSE IF m.epoch = 0 THEN Seen(m, epoch, names)
  ELSE IF m.epoch = epoch
  THEN [Seen(m, epoch, names) EXCEPT !.created_with = Closed(m, names)]
  ELSE ColdStart(m, epoch, names)

\* What the update starts from: the manifest, read again under its lock.
ManifestReadBefore == poll.read   \* mutant: read before the lock was taken
ManifestRead == manifest

PollUpdates ==
  /\ poll.phase = "update"
  /\ manifest' = update_manifest(ManifestRead, poll.epoch, poll.names)
  /\ poll' = Idle
  /\ history' = [history EXCEPT
       !.raced  = IF poll.under = server THEN @ ELSE @ \cup history.lost,
       !.closed = IF poll.epoch = manifest.epoch
                  THEN @ \cup (history.closing \ poll.names) ELSE @,
       !.closing = IF poll.epoch # 0 THEN @ \cap poll.names ELSE @,
       !.returned = @ \cup (Live \cap (manifest'.pending \ manifest.pending)),
       !.excused = @ \cup {n \in Live \ poll.names :
                             /\ poll.epoch # 0 /\ Recorded(n) # "none"
                             /\ n \in manifest.sessions \/ poll.epoch # manifest.epoch}]
  /\ UNCHANGED <<tmuxVars, cache, create, restore, boundVars, late>>

-----------------------------------------------------------------------------
(* POST /api/sessions *)

\* The pair resolves; the names there are before the spawn are noted.
\* Bound: not while a restore runs.
CreateBegins(n, p) ==
  /\ create.phase = "idle" /\ restore.phase = "idle" /\ Turn
  /\ create' = [phase |-> "spawn", want |-> n, pair |-> p, before |-> Live]
  /\ UNCHANGED <<tmuxVars, manifest, cache, poll, restore, servers, late, history>>

\* The template makes the session under the name asked for or one of its own
\* (sanitised, truncated).
CreateSpawns(n) ==
  /\ create.phase = "spawn"
  /\ Starts(n, create.pair)
  /\ create' = [create EXCEPT !.phase = "observe"]
  /\ history' = [Reborn(history, n, TRUE) EXCEPT !.mine = {n}]
  /\ UNCHANGED <<manifest, cache, poll, restore, turns, late>>

\* A command that fails because the name is taken is a success: the session
\* exists.
CreateFindsTaken ==
  /\ create.phase = "spawn" /\ create.want \in Live
  /\ create' = [create EXCEPT !.phase = "observe"]
  /\ UNCHANGED <<tmuxVars, manifest, cache, poll, restore, boundVars, late, history>>

\* A command that takes more than thirty seconds is a success too, and makes its
\* session when it will.  Bound: one such command at a time.
CreateIsSlow ==
  /\ create.phase = "spawn" /\ late = {}
  /\ create' = [create EXCEPT !.phase = "observe"]
  /\ late' = late \cup {<<create.want, create.pair>>}
  /\ UNCHANGED <<tmuxVars, manifest, cache, poll, restore, boundVars, history>>

LateStart(c) ==
  /\ c \in late /\ Starts(c[1], c[2])
  /\ late' = late \ {c}
  /\ history' = Reborn(history, c[1], Recorded(c[1]) # c[2])
  /\ UNCHANGED <<manifest, cache, taskVars, turns>>

CreateFails ==
  /\ create.phase = "spawn"
  /\ create' = Idle
  /\ UNCHANGED <<tmuxVars, manifest, cache, poll, restore, boundVars, late, history>>

\* _observe_created_session: the name asked for, if it is live; else the only
\* name that is new; else, with two or when the time is up, the name asked for.
Arrivals == Live \ create.before
Candidates ==
  IF create.want \in Live THEN {create.want}
  ELSE IF Cardinality(Arrivals) = 1 THEN Arrivals
  ELSE {create.want}

CreateObserves ==
  /\ create.phase = "observe"
  /\ \E n \in Candidates :
       create' = [phase |-> "record", name |-> n, pair |-> create.pair]
  /\ UNCHANGED <<tmuxVars, manifest, cache, poll, restore, boundVars, late, history>>

\* set_created_with, in state_lock.
CreateRecords ==
  /\ create.phase = "record" /\ LockFree
  /\ manifest' = [manifest EXCEPT !.created_with[create.name] = create.pair]
  /\ create' = Idle
  /\ history' = [history EXCEPT !.mine = {},
       !.excused = IF create.name \in history.mine THEN @ \ {create.name}
                   ELSE @ \cup ({create.name} \cap Live)]
  /\ UNCHANGED <<tmuxVars, cache, poll, restore, boundVars, late>>

-----------------------------------------------------------------------------
(* DELETE /api/sessions/{name}: the event loop waits for the command, so the *)
(* handler is one step.  A pair that no longer resolves is refused, or       *)
(* replaced by the default one when forced; a command may do nothing.        *)

Delete(n, resolves, force, works) ==
  /\ n \in cache
  /\ PairFor(n) = DefaultPair => resolves
  /\ resolves \/ force
  /\ IF works /\ made[n] # "none"
     THEN /\ EndSession(n)
          /\ history' = [Ended(history, {n}) EXCEPT !.closing = @ \cup {n}]
     ELSE UNCHANGED <<tmuxVars, history, turns>>
  /\ UNCHANGED <<manifest, cache, taskVars, servers, late>>

\* rename_session: refused for a name that waits to be restored; the entry and
\* the pair follow, and the entry notes that the name is not the first.  A session
\* without a pair takes over what the manifest still records for its new name.
Moved(S, n, to) == IF n \in S THEN (S \ {n}) \cup {to} ELSE S
MarkedAlways(S, n, to) == (S \ {n}) \cup {to}   \* mutant: an unknown name too
Marked(S, n, to) == IF n \in manifest.sessions THEN (S \ {n}) \cup {to} ELSE S

Rename(n, to) ==
  /\ LockFree /\ n \in cache /\ n \in Live /\ to \notin Live /\ Turn
  /\ to \notin manifest.pending
  /\ made' = [made EXCEPT ![to] = made[n], ![n] = "none"]
  /\ manifest' = [manifest EXCEPT
       !.sessions = Moved(@, n, to),
       !.renamed = Marked(@, n, to),
       !.created_with = [@ EXCEPT ![n] = "none",
                                  ![to] = IF Recorded(n) = "none" THEN Recorded(to)
                                          ELSE Recorded(n)]]
  /\ history' = [history EXCEPT
       !.lost = @ \ {to}, !.raced = @ \ {to},
       !.closed = @ \ {to}, !.closing = @ \ {to},
       !.mine = Moved(@, n, to),
       !.excused = Moved(@, n, to) \cup
                   (IF Recorded(n) = "none" /\ Recorded(to) # "none" THEN {to} ELSE {})]
  /\ UNCHANGED <<server, cache, taskVars, servers, late>>

-----------------------------------------------------------------------------
(* muxplex restore *)

\* load_plan: what is pending and not live now.  Bound: not while a create runs.
RestorePlans(force) ==
  /\ restore.phase = "idle" /\ create.phase = "idle"
  /\ manifest.pending \ Live # {}
  /\ restore' = [phase |-> "next", left |-> manifest.pending \ Live,
                 force |-> force]
  /\ UNCHANGED <<tmuxVars, manifest, cache, poll, create, boundVars, late, history>>

\* get_renamed_from looks at the entries of live sessions.
RenamedFrom(n) == n \in manifest.renamed

\* One name of the plan: refused if it was renamed, if the default pair would not
\* be faithful to it, or if its pair is gone; else its pair is chosen.
RestoreChooses(n, faithful, resolves) ==
  /\ restore.phase = "next" /\ n \in restore.left
  /\ LET refused == \/ ~restore.force /\ RenamedFrom(n)
                    \/ ~restore.force /\ Recorded(n) = "none" /\ ~faithful
                    \/ Recorded(n) # "none" /\ ~resolves
         left == restore.left \ {n}
     IN  restore' = IF ~refused
                    THEN [phase |-> "spawn", left |-> left, name |-> n,
                          pair |-> PairFor(n), force |-> restore.force]
                    ELSE IF left = {} THEN Idle
                    ELSE [restore EXCEPT !.left = left]
  /\ UNCHANGED <<tmuxVars, manifest, cache, poll, create, boundVars, late, history>>

Remaining == IF restore.left = {} THEN Idle
             ELSE [phase |-> "next", left |-> restore.left, force |-> restore.force]

RestoreSpawns ==
  /\ restore.phase = "spawn"
  /\ IF restore.name \in Live
     THEN UNCHANGED <<tmuxVars, servers, history>>
     ELSE /\ Starts(restore.name, restore.pair)
          /\ history' = Reborn(history, restore.name,
                               PairFor(restore.name) # restore.pair)
  /\ restore' = [restore EXCEPT !.phase = "verify"]
  /\ UNCHANGED <<manifest, cache, poll, create, turns, late>>

RestoreFails ==
  /\ restore.phase = "spawn"
  /\ restore' = Remaining
  /\ UNCHANGED <<tmuxVars, manifest, cache, poll, create, boundVars, late, history>>

\* The name is looked for among the live ones, and cleared at once.
RestoreVerifies ==
  /\ restore.phase = "verify"
  /\ manifest' = IF restore.name \notin Live THEN manifest
                 ELSE [manifest EXCEPT !.pending = @ \ {restore.name},
                                       !.pendingRenamed = @ \ {restore.name}]
  /\ restore' = Remaining
  /\ history' = [history EXCEPT !.returned = @ \cap manifest'.pending]
  /\ UNCHANGED <<tmuxVars, cache, poll, create, boundVars, late>>

\* The process is interrupted.
RestoreStops ==
  /\ restore.phase # "idle"
  /\ restore' = Idle
  /\ UNCHANGED <<tmuxVars, manifest, cache, poll, create, boundVars, late, history>>

\* muxplex restore --forget.
Forget ==
  /\ manifest.pending # {}
  /\ manifest' = [manifest EXCEPT !.pending = {}, !.pendingRenamed = {}]
  /\ history' = [history EXCEPT !.lost = @ \ manifest.pending,
                                !.returned = @ \ manifest.pending]
  /\ UNCHANGED <<tmuxVars, cache, taskVars, boundVars, late>>

-----------------------------------------------------------------------------
(* Specification *)

Init ==
  /\ made \in [Names -> {"none", "hand"}]
  /\ server = IF \E n \in Names : made[n] # "none" THEN 1 ELSE 0
  /\ servers = 1 /\ turns = 0
  /\ manifest = EmptyManifest /\ cache = {}
  /\ poll = Idle /\ create = Idle /\ restore = Idle
  /\ late = {}
  /\ history =
       [lost |-> {},     \* recorded, died with the server, not back since
        raced |-> {},    \* lost while a poll judged by an older list
        closing |-> {},  \* closed by a user
        closed |-> {},   \* closed, and a poll noticed
        returned |-> {}, \* came back while pending
        mine |-> {},     \* made by the running create_session
        excused |-> {}]  \* the pair in the manifest may not be the session's

Next ==
  \/ \E n \in Names : StartByHand(n) \/ Close(n)
  \/ ServerDies
  \/ PollEnumerates \/ PollProbes \/ PollUpdates
  \/ \E n \in Names, p \in Pairs : CreateBegins(n, p)
  \/ \E n \in Names : CreateSpawns(n)
  \/ \E c \in late : LateStart(c)
  \/ CreateIsSlow \/ CreateFindsTaken \/ CreateFails \/ CreateObserves \/ CreateRecords
  \/ \E n \in Names, r, f, w \in BOOLEAN : Delete(n, r, f, w)
  \/ \E n, to \in Names : Rename(n, to)
  \/ \E f \in BOOLEAN : RestorePlans(f)
  \/ \E n \in Names, f, r \in BOOLEAN : RestoreChooses(n, f, r)
  \/ RestoreSpawns \/ RestoreFails \/ RestoreVerifies \/ RestoreStops
  \/ Forget

Spec == Init /\ [][Next]_vars

-----------------------------------------------------------------------------
(* Properties *)

\* The manifest's entries lie where its reader expects them, and what the tasks
\* hold has its shape.
TypeOK ==
  /\ servers \in 1 .. (1 + 2 * MaxTurns) /\ server \in 0..servers /\ turns \in 0..MaxTurns
  /\ made \in [Names -> Pairs \cup {"none", "hand"}]
  /\ manifest \in [epoch : 0..servers, sessions : SUBSET Names,
                   renamed : SUBSET Names, pending : SUBSET Names,
                   pendingRenamed : SUBSET Names,
                   created_with : [Names -> Pairs \cup {"none"}]]
  /\ manifest.renamed \subseteq manifest.sessions
  /\ manifest.pendingRenamed \subseteq manifest.pending
  /\ cache \subseteq Names /\ late \subseteq Names \X Pairs
  /\ poll.phase \in {"idle", "probe", "update"}
  /\ create.phase \in {"idle", "spawn", "observe", "record"}
  /\ restore.phase \in {"idle", "next", "spawn", "verify"}
  /\ server = 0 <=> Live = {}

\* A session the manifest knew that died with its tmux server is offered for
\* restoration, or will be when the next poll meets the new server: nothing but
\* its return, a restore or --forget takes it out, a second death of a server
\* included.  The exception: the server changed between a poll's list and its
\* update, so that the old list was judged under the new epoch.
LostIsOffered ==
  history.lost \subseteq manifest.pending \cup manifest.sessions \cup history.raced

\* A session its owner closed, and a poll saw gone, is not offered for
\* restoration, unless it had come back while it was pending: a name that is live
\* again leaves pending_restore only when a restore verifies it or by --forget.
ClosedIsNotOffered ==
  history.closed \cap manifest.pending \subseteq history.returned

\* pending_restore grows only by sessions of the manifest's live record, and what
\* a restore has cleared does not come back by the write of a poll that read the
\* file before.
PendingGrowsByLoss ==
  [][manifest'.pending \ manifest.pending \subseteq manifest.sessions]_vars

\* Deletion and restoration use the pair that made the session: the default one
\* for one made by hand.  The exceptions: a session whose creation is not recorded
\* yet; one that bears the record of an earlier session of its name (born or
\* renamed to it); and a record
\* written for a session that is not the one created (the name was taken, the
\* arrival was somebody else's, or it was replaced before it was recorded), or
\* dropped by a poll whose list is older than the session.
Fits(n) == PairFor(n) = IF made[n] = "hand" THEN DefaultPair ELSE made[n]
PairFitsSession ==
  \A n \in Live : Fits(n) \/ n \in history.excused

\* A session that was renamed is not recreated from its new name unless forced:
\* manifest.py promises that renamed_from is frozen with the session and that
\* restore refuses.
RenamedIsRefused ==
  [][\A n \in manifest.pendingRenamed :
       /\ restore.phase = "next" /\ ~restore.force
       /\ restore'.phase = "spawn"
       => restore'.name # n]_vars

=============================================================================
