--------------------------- MODULE SessionRename ---------------------------
(***************************************************************************)
(* Renaming a tmux session: the endpoint, its write-ahead journal in the   *)
(* manifest, the poll cycle that completes or clears the journal, a        *)
(* follow-up send that may run meanwhile, and process crashes.             *)
(*                                                                         *)
(* tmux knows sessions; muxplex knows names.  What a name keys is written  *)
(* here as the session it was meant for: a queue (state.json) holds one    *)
(* session's instructions, the pins (settings.json) name the sessions      *)
(* pinned under it.  The journal is in sessions.json.                      *)
(*                                                                         *)
(* The endpoint holds state_lock to write the journal and again to         *)
(* migrate; tmux runs between the two, without it.                         *)
(***************************************************************************)
EXTENDS Naturals, FiniteSets

CONSTANTS Names,
          Sessions,    \* tmux sessions that ever exist
          Requests,    \* rename requests that may run at the same time
          MaxRenames   \* bound: requests that pass the first checks

Nobody == "nobody"
ASSUME NobodyAssumption == Nobody \notin Sessions \cup Names
ASSUME MaxRenamesAssumption == MaxRenames \in Nat

VARIABLES tmux,        \* per name: the session tmux runs under it
          unborn,      \* sessions not created yet
          cache,       \* per name: the session the last poll saw
          queue,       \* state["followups"]: per name, whose instructions
          pins,        \* views and hidden_sessions: per name, who is pinned
          journal,     \* manifest["rename_in_flight"]
          request,     \* the running rename_session handlers
          renames,     \* how many there were
          sending,     \* _followup_sending: per name, whose item
          poll,        \* what a running poll cycle enumerated
          orphans      \* history: names whose keys no journal will move

worldVars == <<tmux, unborn>>
stores == <<queue, pins>>
vars == <<worldVars, cache, stores, journal, request, renames, sending, poll, orphans>>

Occupant  == Sessions \cup {Nobody}
Empty     == [n \in Names |-> Nobody]
Used(f)   == {n \in Names : f[n] # Nobody}
Live      == Used(tmux)
NoJournal == [from |-> Nobody, to |-> Nobody]
Pair      == [from : Names, to : Names]
Idle      == [phase |-> "idle"]
NoPoll    == [held |-> FALSE, view |-> Empty]
LockFree  == ~poll.held

Init ==
    /\ \E n \in Names, s \in Sessions :
          /\ tmux   = [Empty EXCEPT ![n] = s]
          /\ unborn = Sessions \ {s}
    /\ cache   = tmux
    /\ queue   = Empty
    /\ pins    = [n \in Names |-> {}]
    /\ journal = NoJournal
    /\ request = [r \in Requests |-> Idle]
    /\ renames = 0
    /\ sending = Empty
    /\ poll    = NoPoll
    /\ orphans = {}

\* History: names whose keys no journal will move, and why.
\*   journal  the journal of the name's rename was cleared or replaced before
\*            the migration
\*   stale    a key was written through a cache that still shows the session
\*   reused   during a rename another session took one of its two names, created
\*            or renamed
\*   guessed  a rename that could not see its new name took another for it
\*   unseen   the list that should show the new name failed, and the rename is
\*            given up though tmux made it
Renames(q)  == {[from |-> q[r].from, to |-> q[r].to] : r \in {x \in Requests : q[x].phase # "idle"}}
Renaming(q) == {p.from : p \in Renames(q)}
Lost(q)     == {[name |-> n, why |-> "journal"] : n \in {journal.from} \cap Renaming(q)}
StaleUse(n) == {[name |-> m, why |-> "stale"] : m \in {x \in {n} : cache[x] # tmux[x]}}
Reuse(ns, ps) == {[name |-> m, why |-> "reused"] :
                   m \in UNION {{p.from, p.to} : p \in {x \in ps : ns \cap {x.from, x.to} # {}}}}
Guess(f, n) == {[name |-> m, why |-> "guessed"] : m \in {f, n}}
Unseen(f, n) == {[name |-> f, why |-> "unseen"] : m \in {n} \cap Live}

\* A migration takes the keys of a name, orphans among them, to another name.
Carried(p) == {[name |-> p.to, why |-> o.why] : o \in {x \in orphans : x.name = p.from}}

Orphaned(more, moves) ==
    LET left == {p.from : p \in moves} \ Renaming(request')
    IN  orphans' = {o \in orphans \cup more : o.name \notin left}
                   \cup UNION {Carried(p) : p \in moves}

-----------------------------------------------------------------------------
(* _migrate_session_name *)

\* The queue moves whole, over one already under the new name.
MovedQueue(from, to) ==
    IF queue[from] = Nobody THEN queue
    ELSE [queue EXCEPT ![from] = Nobody, ![to] = queue[from]]

\* Pins are rewritten and deduplicated.
MovedPins(from, to) ==
    [pins EXCEPT ![from] = {}, ![to] = @ \cup pins[from]]

Migrate(from, to) ==
    /\ queue' = MovedQueue(from, to)
    /\ pins'  = MovedPins(from, to)

\* mutant: sessions.json, with the journal cleared, is saved second.
MigrateJournalEarly(from, to) ==
    /\ queue' = MovedQueue(from, to)
    /\ orphans' = orphans \cup Carried([from |-> from, to |-> to])
    /\ UNCHANGED pins
    /\ journal' = NoJournal

\* The process dies between two saves: state.json is written first, then
\* settings.json, then sessions.json with the journal.
MigrateInPart(from, to) ==
    /\ queue' = MovedQueue(from, to)
    /\ pins' \in {pins, MovedPins(from, to)}
    /\ orphans' = orphans \cup Carried([from |-> from, to |-> to])
    /\ UNCHANGED journal

-----------------------------------------------------------------------------
(* rename_session *)

MayRename(from, to) ==
    /\ to # from /\ cache[to] = Nobody
    /\ queue[to] = Nobody
    /\ sending[from] = Nobody

\* Steps 1 to 6.
BeginRename(r, from, to) ==
    /\ request[r] = Idle
    /\ renames < MaxRenames /\ renames' = renames + 1
    /\ cache[from] # Nobody
    /\ LockFree
    /\ MayRename(from, to)
    /\ journal' = [from |-> from, to |-> to]
    /\ request' = [request EXCEPT ![r] =
                      [phase |-> "journaled", from |-> from, to |-> to, known |-> Used(cache)]]
    /\ Orphaned(Lost(request), {})
    /\ UNCHANGED <<worldVars, cache, stores, sending, poll>>

\* Step 7: tmux renames, or refuses.
TmuxRenames(r) ==
    /\ request[r].phase = "journaled"
    /\ LET from == request[r].from
           to   == request[r].to
       IN  IF tmux[from] # Nobody /\ tmux[to] = Nobody
             THEN /\ tmux' = [tmux EXCEPT ![from] = Nobody, ![to] = tmux[from]]
                  /\ request' = [request EXCEPT ![r].phase = "renamed"]
                  /\ orphans' = orphans \cup Reuse({from, to}, Renames([request EXCEPT ![r] = Idle]))
             ELSE /\ request' = [request EXCEPT ![r].phase = "refused"]
                  /\ UNCHANGED <<tmux, orphans>>
    /\ UNCHANGED <<unborn, cache, stores, journal, renames, sending, poll>>

\* Step 8: the new name is listed; else the one name not known before is taken
\* for it; else nothing can be told.  enumerate_sessions() lists nothing when
\* tmux fails.
Observe(r) ==
    /\ request[r].phase = "renamed"
    /\ \E observed \in {Live, {}} :
       LET to == request[r].to
           candidates == (observed \ request[r].known) \ {to}
       IN  \/ /\ to \in observed
              /\ request' = [request EXCEPT ![r].phase = "migrate"]
              /\ UNCHANGED orphans
           \/ /\ to \notin observed
              /\ \E n \in candidates :
                    /\ candidates = {n}
                    /\ request' = [request EXCEPT ![r].phase = "migrate", ![r].to = n]
                    /\ orphans' = orphans \cup Guess(request[r].from, n)
           \/ /\ to \notin observed
              /\ Cardinality(candidates) # 1
              /\ request' = [request EXCEPT ![r].phase = "unknown"]
              /\ orphans' = orphans \cup Unseen(request[r].from, to)
    /\ UNCHANGED <<worldVars, cache, stores, journal, renames, sending, poll>>

\* The error paths of steps 7 and 8 clear the journal.
GiveUp(r) ==
    /\ request[r].phase \in {"refused", "unknown"}
    /\ LockFree
    /\ journal' = NoJournal
    /\ request' = [request EXCEPT ![r] = Idle]
    /\ Orphaned(Lost(request'), {})
    /\ UNCHANGED <<worldVars, cache, stores, renames, sending, poll>>

\* Steps 9 to 11.
EndRename(r) ==
    /\ request[r].phase = "migrate"
    /\ LockFree
    /\ Migrate(request[r].from, request[r].to)
    /\ journal' = NoJournal
    /\ request' = [request EXCEPT ![r] = Idle]
    /\ Orphaned(Lost(request'), {[from |-> request[r].from, to |-> request[r].to]})
    /\ UNCHANGED <<worldVars, cache, renames, sending, poll>>

-----------------------------------------------------------------------------
(* The poll cycle *)

\* asyncio.Lock is first come, first served: a cycle does not overtake the
\* handlers that wait for the lock.
Waiting == {r \in Requests : request[r].phase \in {"refused", "unknown", "migrate"}}

PollEnumerate ==
    /\ LockFree
    /\ Waiting = {}
    /\ poll' = [held |-> TRUE, view |-> tmux]
    /\ UNCHANGED <<worldVars, cache, stores, journal, request, renames, sending, orphans>>

RenameSeen ==
    journal # NoJournal /\ poll.view[journal.to] # Nobody /\ poll.view[journal.from] = Nobody

\* mutant: step 1c only clears the journal.
HonoredNever == [queue |-> queue, pins |-> pins, moves |-> {}]

\* Step 1c.
Honored ==
    IF RenameSeen
      THEN [queue |-> MovedQueue(journal.from, journal.to),
            pins  |-> MovedPins(journal.from, journal.to),
            moves |-> {journal}]
      ELSE [queue |-> queue, pins |-> pins, moves |-> {}]

\* mutant: half of the journal is cleared.
JournalHalfCleared == [journal EXCEPT !.to = Nobody]

\* mutant: a journal whose rename the poll does not see is kept for later.
JournalKept == IF RenameSeen THEN NoJournal ELSE journal

JournalAfterPoll == NoJournal

Reaped(q) == [n \in Names |-> IF poll.view[n] # Nobody THEN q[n] ELSE Nobody]

\* Steps 1c to 6b; probe_tmux_epoch() may answer None, then nothing is reaped.
PollApply ==
    /\ poll.held
    /\ queue'   \in {Honored.queue, Reaped(Honored.queue)}
    /\ pins'    = Honored.pins
    /\ journal' = JournalAfterPoll
    /\ cache'   = poll.view
    /\ poll'    = NoPoll
    /\ UNCHANGED <<worldVars, request, renames, sending>>
    /\ Orphaned(IF RenameSeen THEN {} ELSE Lost(request), Honored.moves)

-----------------------------------------------------------------------------
(* What else uses the names *)

\* append_followup on a session the dashboard shows.
AppendFollowup(n) ==
    /\ cache[n] # Nobody /\ queue[n] = Nobody
    /\ LockFree
    /\ queue' = [queue EXCEPT ![n] = cache[n]]
    /\ orphans' = orphans \cup StaleUse(n)
    /\ UNCHANGED <<worldVars, cache, pins, journal, request, renames, sending, poll>>

\* patch_settings puts the session a view shows into views or hidden_sessions.
Pin(n) ==
    /\ cache[n] # Nobody
    /\ pins' = [pins EXCEPT ![n] = @ \cup {cache[n]}]
    /\ orphans' = orphans \cup StaleUse(n)
    /\ UNCHANGED <<worldVars, cache, queue, journal, request, renames, sending, poll>>

\* _advance_followup_queue, its first step and its last.
BeginSend(n) ==
    /\ queue[n] # Nobody /\ sending[n] = Nobody
    /\ LockFree
    /\ sending' = [sending EXCEPT ![n] = queue[n]]
    /\ UNCHANGED <<worldVars, cache, stores, journal, request, renames, poll, orphans>>

FinishSend(n) ==
    /\ sending[n] # Nobody
    /\ LockFree
    /\ \/ UNCHANGED queue
       \/ queue[n] = sending[n] /\ queue' = [queue EXCEPT ![n] = Nobody]
    /\ sending' = [sending EXCEPT ![n] = Nobody]
    /\ UNCHANGED <<worldVars, cache, pins, journal, request, renames, poll, orphans>>

SessionDies(n) ==
    /\ tmux[n] # Nobody
    /\ tmux' = [tmux EXCEPT ![n] = Nobody]
    /\ UNCHANGED <<unborn, cache, stores, journal, request, renames, sending, poll, orphans>>

SessionCreated(n, s) ==
    /\ tmux[n] = Nobody /\ s \in unborn
    /\ tmux' = [tmux EXCEPT ![n] = s]
    /\ unborn' = unborn \ {s}
    /\ orphans' = orphans \cup Reuse({n}, Renames(request) \cup {journal})
    /\ UNCHANGED <<cache, stores, journal, request, renames, sending, poll>>

\* The process dies, perhaps while it saves a migration's files.
Crash ==
    /\ \/ UNCHANGED <<stores, journal, orphans>>
       \/ /\ LockFree
          /\ \E r \in Requests :
                /\ request[r].phase = "migrate"
                /\ MigrateInPart(request[r].from, request[r].to)
       \/ poll.held /\ RenameSeen /\ MigrateInPart(journal.from, journal.to)
    /\ cache'   = Empty
    /\ request' = [r \in Requests |-> Idle]
    /\ sending' = Empty
    /\ poll'    = NoPoll
    /\ UNCHANGED <<worldVars, renames>>

-----------------------------------------------------------------------------
RequestStep ==
    \E r \in Requests :
       \/ \E from, to \in Names : BeginRename(r, from, to)
       \/ TmuxRenames(r) \/ Observe(r) \/ GiveUp(r) \/ EndRename(r)

UserStep == \E n \in Names : AppendFollowup(n) \/ Pin(n) \/ BeginSend(n) \/ FinishSend(n)

WorldStep ==
    \/ \E n \in Names : SessionDies(n) \/ \E s \in Sessions : SessionCreated(n, s)
    \/ Crash

Next == RequestStep \/ PollEnumerate \/ PollApply \/ UserStep \/ WorldStep

Spec == Init /\ [][Next]_vars

\* A handler that waits for the lock gets it, _poll_loop starts a cycle every
\* two seconds, and not every cycle is cut short by a crash.
FairSpec ==
    /\ Spec
    /\ \A r \in Requests : WF_vars(GiveUp(r) \/ EndRename(r))
    /\ WF_vars(PollEnumerate)
    /\ SF_vars(PollApply)

-----------------------------------------------------------------------------
(* Properties *)

Why   == {"journal", "stale", "reused", "guessed", "unseen"}
Phase == {"journaled", "renamed", "refused", "unknown", "migrate"}
RequestRecords == [phase : Phase, from : Names, to : Names, known : SUBSET Names]
OrphanRecords  == [name : Names, why : Why]

TypeOK ==
    /\ tmux \in [Names -> Occupant]
    /\ unborn \subseteq Sessions
    /\ cache \in [Names -> Occupant]
    /\ queue \in [Names -> Occupant]
    /\ pins \in [Names -> SUBSET Sessions]
    /\ journal \in Pair \cup {NoJournal}
    /\ request \in [Requests -> {Idle} \cup RequestRecords]
    /\ renames \in 0..MaxRenames
    /\ sending \in [Names -> Occupant]
    /\ poll \in [held : BOOLEAN, view : [Names -> Occupant]]
    /\ orphans \subseteq OrphanRecords

OrphanNames == {o.name : o \in orphans}

\* Every live session's queue and pins are under its current name, or a journal
\* stands that will bring them there: wherever the process dies, the keys
\* follow the session.  Keys whose journal went too early (a poll had listed the
\* sessions before the rename, another rename took the slot, or the list that
\* should confirm the rename failed), that were written under a name the session
\* had left, or of a rename whose names were guessed, used anew or those of
\* another rename that runs, are the exceptions, and the only ones.
KeysFollowSession ==
    \A n, m \in Names :
        tmux[n] # Nobody /\ m # n /\ (queue[m] = tmux[n] \/ tmux[n] \in pins[m]) =>
            journal.from = m \/ m \in OrphanNames

QueueGone(s) == \E n \in Names : queue[n] = s /\ \A m \in Names : queue'[m] # s
IsLive(s) == \E n \in Names : tmux[n] = s

\* The poll cycle never drops the queue of a session that lives under a new
\* name, with the same exceptions: what is dropped had lost its journal, or was
\* never the new name's to take, before the poll saw it.
LiveQueueKept ==
    [][\A s \in Sessions : poll.held /\ IsLive(s) /\ QueueGone(s) =>
          \E o \in orphans : queue[o.name] = s]_vars

\* What the journal is for: no poll drops the queue of a live session.
RenameKeepsQueue ==
    [][\A s \in Sessions : poll.held /\ IsLive(s) => ~QueueGone(s)]_vars

\* A journal does not stand for ever, whoever wrote it and whatever crashed.
JournalResolved == (journal # NoJournal) ~> (journal = NoJournal)
=============================================================================
