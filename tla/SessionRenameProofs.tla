------------------------ MODULE SessionRenameProofs ------------------------
(***************************************************************************)
(* Proofs about SessionRename, for any names, sessions and requests: the   *)
(* keys follow the session, and the poll keeps the queue of a live one.    *)
(***************************************************************************)
EXTENDS SessionRename, TLAPS

\* The session s lives, and something is kept for it under the name m.
KeyOf(m, s) == IsLive(s) /\ (queue[m] = s \/ s \in pins[m])

\* A name is one session's, and one that is not created yet is nowhere.
OneName == \A n, m \in Names : tmux[n] # Nobody /\ tmux[n] = tmux[m] => n = m
UnbornNowhere ==
    \A n \in Names, s \in unborn :
        /\ tmux[n] # s /\ cache[n] # s /\ queue[n] # s /\ poll.view[n] # s
        /\ s \notin pins[n]

Active == {r \in Requests : request[r].phase # "idle"}

WellFormed == \A r \in Active : request[r].from # request[r].to /\ request[r].from \in request[r].known

KeysRight == \A m \in Names, s \in Sessions :
                 KeyOf(m, s) => tmux[m] = s \/ journal.from = m \/ m \in OrphanNames

\* Before its rename of tmux, a request's keys are at home.
AtHome(from) ==
    /\ \A s \in Sessions : KeyOf(from, s) => tmux[from] = s
    /\ poll.held /\ poll.view[from] = Nobody => tmux[from] = Nobody

\* After it, they are their session's, which is under the new name; and a poll
\* that runs has seen it under one of the two.
Moved(from, to) ==
    /\ tmux[from] = Nobody
    /\ \A s \in Sessions : KeyOf(from, s) =>
          /\ tmux[to] = s
          /\ poll.held => poll.view[from] # Nobody \/ poll.view[to] # Nobody

Keyless(from) == tmux[from] = Nobody /\ \A s \in Sessions : ~KeyOf(from, s)

UnderWay(q) ==
    \/ q.from \in OrphanNames
    \/ q.phase = "journaled" /\ AtHome(q.from) /\ (journal.from = q.from \/ tmux[q.from] = Nobody)
    \/ q.phase = "refused" /\ AtHome(q.from)
    \/ q.phase \in {"renamed", "migrate"} /\ Moved(q.from, q.to)
    \/ q.phase = "unknown" /\ Keyless(q.from)

RequestsRight == \A r \in Active, q \in RequestRecords : request[r] = q => UnderWay(q)

\* What a crash leaves of a rename.
Restarted == cache = Empty /\ Active = {}
HalfMoved(from, to) ==
    /\ tmux[from] = Nobody
    /\ \A s \in Sessions : KeyOf(from, s) =>
          /\ tmux[to] = s
          /\ poll.held => poll.view[from] = Nobody /\ poll.view[to] # Nobody
Halted(from, to) == from \in OrphanNames \/ AtHome(from) \/ HalfMoved(from, to)
Interrupted ==
    /\ Restarted
    /\ \A from, to \in Names : journal = [from |-> from, to |-> to] => Halted(from, to)

Owned == \E r \in Active : /\ journal.from = request[r].from
                           /\ journal.to = request[r].to \/ journal.from \in OrphanNames

JournalRight == journal # NoJournal => Owned \/ Interrupted

\* Nothing is queued under the name a journal leads to, but for what a crash
\* has already moved there.
RoomAhead ==
    journal # NoJournal =>
        /\ cache[journal.to] = Nobody
        /\ \/ queue[journal.to] = Nobody
           \/ /\ Restarted
              /\ IsLive(queue[journal.to]) /\ queue[journal.from] # Nobody => journal.to \in OrphanNames

\* What a running poll has seen, against the queues, which stand still meanwhile.
SeenRight ==
    poll.held =>
        \A m \in Names, s \in Sessions :
            queue[m] = s =>
                /\ IsLive(s) => \E k \in Names : poll.view[k] = s
                /\ \A k \in Names : k # m /\ poll.view[k] = s => journal.from = m \/ m \in OrphanNames

Safe == OneName /\ UnbornNowhere /\ WellFormed /\ KeysRight
RInv == TypeOK /\ Safe /\ RequestsRight /\ JournalRight /\ RoomAhead /\ SeenRight

-----------------------------------------------------------------------------
(* Types *)

USE NobodyAssumption, MaxRenamesAssumption

LEMMA InitType == Init => TypeOK
  BY DEF RequestRecords, OrphanRecords, Init, TypeOK, Empty, Occupant, NoJournal, Idle, NoPoll

LEMMA RenamesTyped == TypeOK => Renames(request) \subseteq Pair /\ Renaming(request) \subseteq Names
  BY DEF TypeOK, RequestRecords, Renames, Renaming, Pair, Idle

LEMMA ActiveRecord ==
  ASSUME TypeOK, NEW r \in Requests, request[r].phase # "idle"
  PROVE  /\ request[r] \in RequestRecords
         /\ request[r].phase \in Phase /\ request[r].from \in Names /\ request[r].to \in Names
         /\ request[r].known \subseteq Names
  BY DEF TypeOK, Idle, RequestRecords

LEMMA CarriedTyped ==
  ASSUME TypeOK, NEW p \in Pair
  PROVE  Carried(p) \subseteq OrphanRecords
  BY DEF TypeOK, Carried, Pair, OrphanRecords

LEMMA OrphanedTyped ==
  ASSUME TypeOK, NEW more \in SUBSET OrphanRecords, NEW moves \in SUBSET Pair, Orphaned(more, moves)
  PROVE  orphans' \subseteq OrphanRecords
  <1>1. \A p \in moves : Carried(p) \subseteq OrphanRecords  BY CarriedTyped
  <1>2. orphans \subseteq OrphanRecords  BY DEF TypeOK, OrphanRecords
  <1> QED  BY <1>1, <1>2 DEF Orphaned

LEMMA ReuseTyped ==
  ASSUME TypeOK, NEW ns \in SUBSET Names, NEW ps \in SUBSET (Pair \cup {NoJournal})
  PROVE  Reuse(ns, ps) \subseteq OrphanRecords
  <1>1. ASSUME NEW p \in ps, ns \cap {p.from, p.to} # {}  PROVE p.from \in Names /\ p.to \in Names
    BY <1>1 DEF Pair, NoJournal
  <1> QED  BY <1>1 DEF Reuse, OrphanRecords, Why

\* What a migration writes.
LEMMA MovedTyped ==
  ASSUME TypeOK, NEW from \in Names, NEW to \in Names
  PROVE  MovedQueue(from, to) \in [Names -> Occupant] /\ MovedPins(from, to) \in [Names -> SUBSET Sessions]
  BY DEF TypeOK, MovedQueue, MovedPins, Occupant

LEMMA LostTyped ==
  ASSUME TypeOK, NEW q, Renaming(q) \subseteq Names
  PROVE  Lost(q) \subseteq OrphanRecords
  BY DEF Lost, OrphanRecords, Why

LEMMA IdleTyped ==
  ASSUME TypeOK, NEW r \in Requests
  PROVE  /\ [request EXCEPT ![r] = Idle] \in [Requests -> {Idle} \cup RequestRecords]
         /\ Renames([request EXCEPT ![r] = Idle]) \subseteq Pair
         /\ Renaming([request EXCEPT ![r] = Idle]) \subseteq Names
  <1> DEFINE q == [request EXCEPT ![r] = Idle]
  <1>1. q \in [Requests -> {Idle} \cup RequestRecords]  BY DEF TypeOK, RequestRecords
  <1> HIDE DEF q
  <1>2. ASSUME NEW x \in Requests, q[x].phase # "idle"
        PROVE  q[x].from \in Names /\ q[x].to \in Names
    BY <1>1, <1>2 DEF RequestRecords, Idle
  <1>3. Renames(q) \subseteq Pair /\ Renaming(q) \subseteq Names  BY <1>2 DEF Renames, Renaming, Pair
  <1> QED  BY <1>1, <1>3 DEF q

LEMMA RequestTypes ==
  ASSUME TypeOK, RequestStep
  PROVE  TypeOK'
  <1> USE DEF TypeOK
  <1>1. ASSUME NEW r \in Requests, NEW from \in Names, NEW to \in Names, BeginRename(r, from, to)
        PROVE  TypeOK'
    <2>1. Orphaned(Lost(request), {}) /\ Lost(request) \subseteq OrphanRecords
      BY <1>1, LostTyped, RenamesTyped DEF BeginRename
    <2>2. orphans' \subseteq OrphanRecords  BY <2>1, OrphanedTyped
    <2>3. Used(cache) \subseteq Names  BY DEF Used
    <2>4. [phase |-> "journaled", from |-> from, to |-> to, known |-> Used(cache)] \in RequestRecords
      BY <2>3 DEF RequestRecords, Phase
    <2> QED  BY <1>1, <2>2, <2>4 DEF BeginRename, Pair, worldVars, stores
  <1>2. ASSUME NEW r \in Requests, request[r] \in RequestRecords, NEW ph \in Phase
        PROVE  [request EXCEPT ![r].phase = ph] \in [Requests -> {Idle} \cup RequestRecords]
    BY <1>2 DEF RequestRecords
  <1>3. ASSUME NEW r \in Requests, TmuxRenames(r)
        PROVE  TypeOK'
    <2>1. request[r] \in RequestRecords /\ request[r].from \in Names /\ request[r].to \in Names
      BY <1>3, ActiveRecord DEF TmuxRenames
    <2>2. request' \in [Requests -> {Idle} \cup RequestRecords]
      BY <1>3, <1>2, <2>1 DEF TmuxRenames, Phase
    <2>3. Reuse({request[r].from, request[r].to}, Renames([request EXCEPT ![r] = Idle])) \subseteq OrphanRecords
      BY <2>1, IdleTyped, ReuseTyped
    <2>4. orphans' \subseteq OrphanRecords  BY <1>3, <2>3 DEF TmuxRenames
    <2>5. tmux' \in [Names -> Occupant]  BY <1>3, <2>1 DEF TmuxRenames
    <2> QED  BY <1>3, <2>2, <2>4, <2>5 DEF TmuxRenames, stores
  <1>4. ASSUME NEW r \in Requests, Observe(r)
        PROVE  TypeOK'
    <2>1. request[r] \in RequestRecords /\ request[r].from \in Names
      BY <1>4, ActiveRecord DEF Observe
    <2>2. CASE /\ \E ph \in Phase : request' = [request EXCEPT ![r].phase = ph]
               /\ orphans' = orphans \/ orphans' = orphans \cup Unseen(request[r].from, request[r].to)
      <3>1. request' \in [Requests -> {Idle} \cup RequestRecords]  BY <2>1, <2>2, <1>2
      <3>2. orphans' \subseteq OrphanRecords  BY <2>1, <2>2 DEF Unseen, OrphanRecords, Why
      <3> QED  BY <1>4, <3>1, <3>2 DEF Observe, worldVars, stores
    <2>3. CASE \E n \in Live : /\ request' = [request EXCEPT ![r].phase = "migrate", ![r].to = n]
                               /\ orphans' = orphans \cup Guess(request[r].from, n)
      <3>1. PICK n \in Names : /\ request' = [request EXCEPT ![r].phase = "migrate", ![r].to = n]
                               /\ orphans' = orphans \cup Guess(request[r].from, n)
        BY <2>3 DEF Live, Used
      <3>2. request' \in [Requests -> {Idle} \cup RequestRecords]
        BY <3>1, <2>1 DEF RequestRecords, Phase
      <3>3. orphans' \subseteq OrphanRecords  BY <3>1, <2>1 DEF Guess, OrphanRecords, Why
      <3> QED  BY <1>4, <3>2, <3>3 DEF Observe, worldVars, stores
    <2> QED  BY <1>4, <2>2, <2>3 DEF Observe, Phase
  <1>5. ASSUME NEW r \in Requests, GiveUp(r)
        PROVE  TypeOK'
    <2>1. request' = [request EXCEPT ![r] = Idle]  BY <1>5 DEF GiveUp
    <2>2. Renaming(request') \subseteq Names /\ request' \in [Requests -> {Idle} \cup RequestRecords]
      BY <2>1, IdleTyped
    <2>3. PICK l : l = Lost(request')  OBVIOUS
    <2>4. l \in SUBSET OrphanRecords  BY <2>2, <2>3, LostTyped
    <2>5. Orphaned(l, {})  BY <1>5, <2>3 DEF GiveUp
    <2>6. orphans' \subseteq OrphanRecords  BY <2>4, <2>5, OrphanedTyped
    <2> QED  BY <1>5, <2>2, <2>6 DEF GiveUp, worldVars, stores
  <1>6. ASSUME NEW r \in Requests, EndRename(r)
        PROVE  TypeOK'
    <2>1. request' = [request EXCEPT ![r] = Idle]  BY <1>6 DEF EndRename
    <2>2. Renaming(request') \subseteq Names /\ request' \in [Requests -> {Idle} \cup RequestRecords]
      BY <2>1, IdleTyped
    <2>3. PICK l : l = Lost(request')  OBVIOUS
    <2>4. l \in SUBSET OrphanRecords  BY <2>2, <2>3, LostTyped
    <2>5. PICK m : m = {[from |-> request[r].from, to |-> request[r].to]}  OBVIOUS
    <2>6. request[r].from \in Names /\ request[r].to \in Names  BY <1>6, ActiveRecord DEF EndRename
    <2>7. m \in SUBSET Pair /\ Orphaned(l, m)  BY <1>6, <2>3, <2>5, <2>6 DEF EndRename, Pair
    <2>8. orphans' \subseteq OrphanRecords  BY <2>4, <2>7, OrphanedTyped
    <2>9. queue' \in [Names -> Occupant] /\ pins' \in [Names -> SUBSET Sessions]
      BY <1>6, <2>6, MovedTyped DEF EndRename, Migrate
    <2> QED  BY <1>6, <2>2, <2>8, <2>9 DEF EndRename, worldVars, stores
  <1> QED  BY <1>1, <1>3, <1>4, <1>5, <1>6 DEF RequestStep

LEMMA PollTypes ==
  ASSUME TypeOK, PollEnumerate \/ PollApply
  PROVE  TypeOK'
  <1> USE DEF TypeOK
  <1>1. CASE PollEnumerate
    BY <1>1 DEF PollEnumerate, worldVars, stores
  <1>2. CASE PollApply
    <2>1. journal # NoJournal => journal.from \in Names /\ journal.to \in Names /\ journal \in Pair
      BY DEF Pair, NoJournal
    <2>2. Honored.queue \in [Names -> Occupant] /\ Honored.pins \in [Names -> SUBSET Sessions]
          /\ Honored.moves \in SUBSET Pair
      BY <2>1, MovedTyped DEF Honored, RenameSeen
    <2>3. Reaped(Honored.queue) \in [Names -> Occupant]  BY <2>2 DEF Reaped, Occupant
    <2>4. PICK l : l = IF RenameSeen THEN {} ELSE Lost(request)  OBVIOUS
    <2>5. l \in SUBSET OrphanRecords  BY <2>4, LostTyped, RenamesTyped
    <2>6. Orphaned(l, Honored.moves)  BY <1>2, <2>4 DEF PollApply
    <2>7. orphans' \subseteq OrphanRecords  BY <2>2, <2>5, <2>6, OrphanedTyped
    <2>8. poll' \in [held : BOOLEAN, view : [Names -> Occupant]] /\ cache' \in [Names -> Occupant]
      BY <1>2 DEF PollApply, NoPoll, Empty, Occupant
    <2> QED  BY <1>2, <2>2, <2>3, <2>7, <2>8 DEF PollApply, JournalAfterPoll, worldVars
  <1> QED  BY <1>1, <1>2

LEMMA UserTypes ==
  ASSUME TypeOK, UserStep
  PROVE  TypeOK'
  <1> USE DEF TypeOK
  <1>1. ASSUME NEW n \in Names  PROVE StaleUse(n) \subseteq OrphanRecords
    BY DEF StaleUse, OrphanRecords, Why
  <1>2. PICK n \in Names : AppendFollowup(n) \/ Pin(n) \/ BeginSend(n) \/ FinishSend(n)
    BY DEF UserStep
  <1>3. orphans' \subseteq OrphanRecords
    BY <1>1, <1>2 DEF AppendFollowup, Pin, BeginSend, FinishSend
  <1>4. CASE AppendFollowup(n)  BY <1>3, <1>4 DEF AppendFollowup, worldVars
  <1>5. CASE Pin(n)  BY <1>3, <1>5 DEF Pin, worldVars, Occupant
  <1>6. CASE BeginSend(n)  BY <1>3, <1>6 DEF BeginSend, worldVars, stores
  <1>7. CASE FinishSend(n)  BY <1>3, <1>7 DEF FinishSend, worldVars, Occupant
  <1> QED  BY <1>2, <1>4, <1>5, <1>6, <1>7

LEMMA WorldTypes ==
  ASSUME TypeOK, WorldStep
  PROVE  TypeOK'
  <1> USE DEF TypeOK
  <1>1. ASSUME NEW n \in Names, SessionDies(n)  PROVE TypeOK'
    BY <1>1 DEF SessionDies, stores, Occupant
  <1>2. ASSUME NEW n \in Names, NEW s \in Sessions, SessionCreated(n, s)  PROVE TypeOK'
    <2>1. Renames(request) \cup {journal} \subseteq Pair \cup {NoJournal}  BY RenamesTyped
    <2>2. Reuse({n}, Renames(request) \cup {journal}) \subseteq OrphanRecords  BY <2>1, ReuseTyped
    <2> QED  BY <1>2, <2>2 DEF SessionCreated, stores, Occupant
  <1>3. ASSUME Crash  PROVE TypeOK'
    <2>1. ASSUME NEW from \in Names, NEW to \in Names, MigrateInPart(from, to)
          PROVE  /\ queue' \in [Names -> Occupant] /\ pins' \in [Names -> SUBSET Sessions]
                 /\ orphans' \subseteq OrphanRecords /\ journal' = journal
      <3>1. [from |-> from, to |-> to] \in Pair  BY DEF Pair
      <3>2. Carried([from |-> from, to |-> to]) \subseteq OrphanRecords  BY <3>1, CarriedTyped
      <3> QED  BY <2>1, <3>2, MovedTyped DEF MigrateInPart
    <2>2. /\ queue' \in [Names -> Occupant] /\ pins' \in [Names -> SUBSET Sessions]
          /\ orphans' \subseteq OrphanRecords /\ journal' = journal
      <3>1. CASE UNCHANGED <<stores, journal, orphans>>  BY <3>1 DEF stores
      <3>2. CASE \E r \in Requests : /\ request[r].phase = "migrate"
                                     /\ MigrateInPart(request[r].from, request[r].to)
        BY <3>2, <2>1, ActiveRecord
      <3>3. CASE RenameSeen /\ MigrateInPart(journal.from, journal.to)
        <4>1. journal.from \in Names /\ journal.to \in Names  BY <3>3 DEF RenameSeen, Pair, NoJournal
        <4> QED  BY <3>3, <4>1, <2>1
      <3> QED  BY <1>3, <3>1, <3>2, <3>3 DEF Crash
    <2>3. cache' \in [Names -> Occupant] /\ sending' \in [Names -> Occupant]
          /\ poll' \in [held : BOOLEAN, view : [Names -> Occupant]]
          /\ request' \in [Requests -> {Idle} \cup RequestRecords]
      BY <1>3 DEF Crash, Empty, NoPoll, Occupant
    <2> QED  BY <1>3, <2>2, <2>3 DEF Crash, worldVars
  <1> QED  BY <1>1, <1>2, <1>3 DEF WorldStep

\* A step of any kind keeps the types.
LEMMA NextTypes ==
  ASSUME TypeOK, [Next]_vars
  PROVE  TypeOK'
  <1>1. CASE UNCHANGED vars
    BY <1>1 DEF TypeOK, vars, worldVars, stores
  <1> QED  BY <1>1, RequestTypes, PollTypes, UserTypes, WorldTypes DEF Next

-----------------------------------------------------------------------------
(* The history: what happens to the names in it *)

LEMMA OrphansKept ==
  ASSUME NEW more, NEW moves, Orphaned(more, moves), NEW n \in OrphanNames,
         n \in Renaming(request') \/ \A p \in moves : p.from # n
  PROVE  n \in OrphanNames'
  <1>1. PICK o \in orphans : o.name = n  BY DEF OrphanNames
  <1>2. o \in orphans'  BY <1>1 DEF Orphaned
  <1> QED  BY <1>1, <1>2 DEF OrphanNames

LEMMA OrphansMore ==
  ASSUME NEW more, NEW moves, Orphaned(more, moves), NEW o \in more,
         o.name \in Renaming(request') \/ \A p \in moves : p.from # o.name
  PROVE  o.name \in OrphanNames'
  BY DEF Orphaned, OrphanNames

LEMMA OrphansCarried ==
  ASSUME NEW more, NEW moves, Orphaned(more, moves), NEW p \in moves, p.from \in OrphanNames
  PROVE  p.to \in OrphanNames'
  <1>1. PICK o \in orphans : o.name = p.from  BY DEF OrphanNames
  <1>2. [name |-> p.to, why |-> o.why] \in Carried(p)  BY <1>1 DEF Carried
  <1>3. [name |-> p.to, why |-> o.why] \in orphans'  BY <1>2 DEF Orphaned
  <1> QED  BY <1>3 DEF OrphanNames

LEMMA OrphansGrow ==
  ASSUME orphans \subseteq orphans', NEW n \in OrphanNames
  PROVE  n \in OrphanNames'
  BY DEF OrphanNames

LEMMA CarriedGrow ==
  ASSUME NEW p, Carried(p) \subseteq orphans', p.from \in OrphanNames
  PROVE  p.to \in OrphanNames'
  <1>1. PICK o \in orphans : o.name = p.from  BY DEF OrphanNames
  <1>2. [name |-> p.to, why |-> o.why] \in Carried(p)  BY <1>1 DEF Carried
  <1> QED  BY <1>2 DEF OrphanNames

LEMMA LostNames ==
  ASSUME NEW q, journal.from \in Renaming(q)
  PROVE  [name |-> journal.from, why |-> "journal"] \in Lost(q)
  BY DEF Lost

LEMMA ReusedNames ==
  ASSUME NEW ns, NEW ps, NEW p \in ps, ns \cap {p.from, p.to} # {}, Reuse(ns, ps) \subseteq orphans'
  PROVE  p.from \in OrphanNames' /\ p.to \in OrphanNames'
  <1>1. ASSUME NEW m \in {p.from, p.to}  PROVE m \in OrphanNames'
    <2>1. [name |-> m, why |-> "reused"] \in Reuse(ns, ps)  BY DEF Reuse
    <2> QED  BY <2>1 DEF OrphanNames
  <1> QED  BY <1>1

LEMMA StaleNames ==
  ASSUME NEW n \in Names, cache[n] # tmux[n], StaleUse(n) \subseteq orphans'
  PROVE  n \in OrphanNames'
  <1>1. [name |-> n, why |-> "stale"] \in StaleUse(n)  BY DEF StaleUse
  <1> QED  BY <1>1 DEF OrphanNames

LEMMA RenamingActive ==
  ASSUME NEW q, NEW r \in Requests, q[r].phase # "idle"
  PROVE  q[r].from \in Renaming(q) /\ [from |-> q[r].from, to |-> q[r].to] \in Renames(q)
  BY DEF Renaming, Renames

-----------------------------------------------------------------------------
(* Keys *)

\* A migration takes the keys of a name to another, and no other key moves.
LEMMA KeysMoved ==
  ASSUME TypeOK, NEW from \in Names, NEW to \in Names, from # to, tmux' = tmux,
         queue' = MovedQueue(from, to), pins' \in {pins, MovedPins(from, to)},
         NEW m \in Names, NEW s \in Sessions, KeyOf(m, s)'
  PROVE  /\ KeyOf(m, s) \/ (m = to /\ KeyOf(from, s))
         /\ pins' = MovedPins(from, to) => m # from
  BY DEF TypeOK, KeyOf, IsLive, MovedQueue, MovedPins, Occupant

LEMMA SameKeys ==
  ASSUME UNCHANGED <<tmux, queue, pins>>, NEW m, NEW s
  PROVE  KeyOf(m, s)' = KeyOf(m, s)
  BY DEF KeyOf, IsLive

\* What is known of a request's keys stays so when no other session's key comes
\* under its old name and nobody else takes its names.
LEMMA UnderWayKept ==
  ASSUME NEW q \in RequestRecords, UnderWay(q),
         ~poll'.held \/ UNCHANGED poll,
         q.from \in OrphanNames => q.from \in OrphanNames',
         q.phase = "journaled" /\ journal.from = q.from
            => journal'.from = q.from \/ q.from \in OrphanNames' \/ tmux'[q.from] = Nobody,
         tmux[q.from] = Nobody => tmux'[q.from] = Nobody,
         \A s \in Sessions : KeyOf(q.from, s)' =>
            \/ q.from \in OrphanNames'
            \/ tmux[q.from] = s /\ tmux'[q.from] = s
            \/ /\ KeyOf(q.from, s)
               /\ tmux[q.from] = s => tmux'[q.from] = s
               /\ tmux[q.to] = s => tmux'[q.to] = s
  PROVE  UnderWay(q)'
  <1>1. AtHome(q.from) => q.from \in OrphanNames' \/ AtHome(q.from)'  BY DEF AtHome
  <1>2. Moved(q.from, q.to) => q.from \in OrphanNames' \/ Moved(q.from, q.to)'  BY DEF Moved
  <1>3. Keyless(q.from) => q.from \in OrphanNames' \/ Keyless(q.from)'  BY DEF Keyless
  <1> QED  BY <1>1, <1>2, <1>3 DEF UnderWay, AtHome, Moved, Keyless

LEMMA RequestUnderWay ==
  ASSUME TypeOK, RequestsRight, NEW r \in Active
  PROVE  request[r] \in RequestRecords /\ UnderWay(request[r])
  BY ActiveRecord DEF RequestsRight, Active

\* A running poll that does not see the name a journal leads from sees the
\* session its keys are for under the name it leads to.
LEMMA JournalTells ==
  ASSUME TypeOK, RequestsRight, JournalRight, poll.held, journal # NoJournal,
         poll.view[journal.from] = Nobody, NEW s \in Sessions, KeyOf(journal.from, s)
  PROVE  \/ journal.from \in OrphanNames
         \/ tmux[journal.to] = s /\ poll.view[journal.to] # Nobody
  <1>1. s # Nobody /\ journal.from \in Names  BY DEF TypeOK, Pair, NoJournal
  <1>2. CASE Owned
    <2>1. PICK r \in Active : /\ journal.from = request[r].from
                              /\ journal.to = request[r].to \/ journal.from \in OrphanNames
      BY <1>2 DEF Owned
    <2>2. UnderWay(request[r])  BY RequestUnderWay
    <2> QED  BY <1>1, <2>1, <2>2 DEF UnderWay, AtHome, Moved, Keyless
  <1>3. CASE Interrupted
    <2>1. Halted(journal.from, journal.to)  BY <1>3 DEF Interrupted, TypeOK, Pair, NoJournal
    <2> QED  BY <1>1, <2>1 DEF Halted, AtHome, HalfMoved
  <1> QED  BY <1>2, <1>3 DEF JournalRight

LEMMA InitSafe == Init => RInv
  <1> SUFFICES ASSUME Init PROVE RInv  OBVIOUS
  <1>1. TypeOK  BY InitType
  <1>2. Active = {}  BY DEF Init, Active, Idle
  <1>3. ~poll.held /\ journal = NoJournal  BY DEF Init, NoPoll
  <1>4. OneName  BY DEF Init, OneName, Empty
  <1>5. UnbornNowhere  BY DEF Init, UnbornNowhere, Empty, NoPoll
  <1>6. ASSUME NEW m \in Names, NEW s \in Sessions  PROVE ~KeyOf(m, s)
    BY DEF Init, KeyOf, Empty
  <1>7. KeysRight  BY <1>6 DEF KeysRight
  <1> QED
    BY <1>1, <1>2, <1>3, <1>4, <1>5, <1>7
    DEF RInv, Safe, WellFormed, RequestsRight, JournalRight, RoomAhead, SeenRight

-----------------------------------------------------------------------------
(* The requests *)

\* A request that is active has its own journal, or no restart was interrupted.
LEMMA OwnerRenames ==
  ASSUME TypeOK, JournalRight, journal # NoJournal, Active # {}
  PROVE  Owned /\ \E r \in Active : journal.from = request[r].from
  BY DEF JournalRight, Interrupted, Restarted, Owned

LEMMA BeginKeeps ==
  ASSUME RInv, TypeOK', NEW r \in Requests, NEW from \in Names, NEW to \in Names, BeginRename(r, from, to)
  PROVE  RInv'
  <1> USE DEF RInv, Safe
  <1>1. /\ request' = [request EXCEPT ![r] =
                [phase |-> "journaled", from |-> from, to |-> to, known |-> Used(cache)]]
        /\ request[r] = Idle /\ ~poll.held /\ ~poll'.held
        /\ cache[from] # Nobody /\ cache[to] = Nobody /\ queue[to] = Nobody /\ from # to
        /\ journal' = [from |-> from, to |-> to]
        /\ Orphaned(Lost(request), {})
        /\ UNCHANGED <<tmux, unborn, cache, queue, pins, poll>>
    BY DEF BeginRename, LockFree, MayRename, worldVars, stores
  <1>2. Active' = Active \cup {r} /\ request'[r].phase = "journaled"
        /\ request'[r].from = from /\ request'[r].to = to /\ request'[r].known = Used(cache)
        /\ \A x \in Active : x # r /\ request'[x] = request[x]
    BY <1>1 DEF Active, TypeOK, Idle
  <1>3. ASSUME NEW n \in OrphanNames  PROVE n \in OrphanNames'
    BY <1>1, OrphansKept
  <1>4. ASSUME journal # NoJournal  PROVE journal.from \in OrphanNames'
    <2>1. cache # Empty  BY <1>1 DEF Empty
    <2>2. ~Interrupted  BY <2>1 DEF Interrupted, Restarted
    <2>3. PICK x \in Active : journal.from = request[x].from  BY <1>4, <2>2 DEF JournalRight, Owned
    <2>4. journal.from \in Renaming(request)  BY <2>3, RenamingActive DEF Active
    <2>5. [name |-> journal.from, why |-> "journal"] \in Lost(request)  BY <2>4, LostNames
    <2> QED  BY <1>1, <2>5, OrphansMore
  <1>5. ASSUME NEW m \in Names, NEW s \in Sessions, KeyOf(m, s)  PROVE tmux[m] = s \/ m \in OrphanNames'
    BY <1>3, <1>4, <1>5 DEF KeysRight, NoJournal
  <1>6. ASSUME NEW m, NEW s  PROVE KeyOf(m, s)' = KeyOf(m, s)
    BY <1>1, SameKeys
  <1>7. OneName' /\ UnbornNowhere'  BY <1>1 DEF OneName, UnbornNowhere
  <1>8. WellFormed'  BY <1>1, <1>2 DEF WellFormed, Used
  <1>9. KeysRight'  BY <1>1, <1>5, <1>6 DEF KeysRight
  <1>10. RequestsRight'
    <2>1. ASSUME NEW x \in Active, NEW q \in RequestRecords, request'[x] = q  PROVE UnderWay(q)'
      <3>1. UnderWay(q)  BY <1>2, <2>1 DEF RequestsRight
      <3>2. journal.from = q.from => q.from \in OrphanNames'
        BY <1>4 DEF RequestRecords, NoJournal
      <3> QED  BY <1>1, <1>3, <1>6, <3>1, <3>2, UnderWayKept
    <2>2. ASSUME NEW q \in RequestRecords, request'[r] = q  PROVE UnderWay(q)'
      <3>1. from \in OrphanNames' \/ AtHome(from)'  BY <1>1, <1>5, <1>6 DEF AtHome
      <3> QED  BY <1>1, <1>2, <2>2, <3>1 DEF UnderWay
    <2> QED  BY <1>2, <2>1, <2>2 DEF RequestsRight
  <1>11. JournalRight'  BY <1>1, <1>2 DEF JournalRight, Owned
  <1>12. RoomAhead'  BY <1>1 DEF RoomAhead
  <1>13. SeenRight'  BY <1>1 DEF SeenRight
  <1> QED  BY <1>7, <1>8, <1>9, <1>10, <1>11, <1>12, <1>13

LEMMA TmuxRefuses ==
  ASSUME RInv, TypeOK', NEW r \in Requests, TmuxRenames(r),
         ~(tmux[request[r].from] # Nobody /\ tmux[request[r].to] = Nobody)
  PROVE  RInv'
  <1> USE DEF RInv, Safe
  <1>1. /\ request' = [request EXCEPT ![r].phase = "refused"]
        /\ request[r].phase = "journaled" /\ r \in Active
        /\ UNCHANGED <<tmux, unborn, cache, queue, pins, journal, poll, orphans>>
    BY DEF TmuxRenames, stores, Active
  <1>2. request[r] \in RequestRecords  BY <1>1, RequestUnderWay
  <1>3. Active' = Active /\ request'[r].phase = "refused"
        /\ \A x \in Active : /\ request'[x].from = request[x].from /\ request'[x].to = request[x].to
                             /\ request'[x].known = request[x].known
                             /\ x # r => request'[x] = request[x]
    BY <1>1, <1>2 DEF Active, TypeOK, RequestRecords
  <1>4. OrphanNames' = OrphanNames  BY <1>1 DEF OrphanNames
  <1>5. ASSUME NEW m, NEW s  PROVE KeyOf(m, s)' = KeyOf(m, s)
    BY <1>1, SameKeys
  <1>6. OneName' /\ UnbornNowhere'  BY <1>1 DEF OneName, UnbornNowhere
  <1>7. WellFormed'  BY <1>3 DEF WellFormed
  <1>8. KeysRight'  BY <1>1, <1>4, <1>5 DEF KeysRight
  <1>9. RequestsRight'
    <2>1. ASSUME NEW x \in Active, x # r, NEW q \in RequestRecords, request'[x] = q  PROVE UnderWay(q)'
      <3>1. UnderWay(q)  BY <1>3, <2>1 DEF RequestsRight
      <3> QED  BY <1>1, <1>4, <1>5, <3>1, UnderWayKept
    <2>2. ASSUME NEW q \in RequestRecords, request'[r] = q  PROVE UnderWay(q)'
      <3>1. UnderWay(request[r]) /\ q.from = request[r].from /\ q.phase = "refused"
        BY <1>1, <1>3, <2>2, RequestUnderWay
      <3>2. q.from \in OrphanNames \/ AtHome(q.from)  BY <1>1, <3>1 DEF UnderWay
      <3>3. AtHome(q.from) => AtHome(q.from)'  BY <1>1, <1>5 DEF AtHome
      <3> QED  BY <1>4, <3>1, <3>2, <3>3 DEF UnderWay
    <2> QED  BY <1>3, <2>1, <2>2 DEF RequestsRight
  <1>10. JournalRight'
    <2>1. journal # NoJournal => Owned  BY <1>1, OwnerRenames
    <2> QED  BY <1>1, <1>3, <1>4, <2>1 DEF JournalRight, Owned
  <1>11. RoomAhead'  BY <1>1, <1>3, <1>4 DEF RoomAhead, Restarted, IsLive
  <1>12. SeenRight'  BY <1>1, <1>4 DEF SeenRight, IsLive
  <1> QED  BY <1>6, <1>7, <1>8, <1>9, <1>10, <1>11, <1>12

LEMMA TmuxHonours ==
  ASSUME RInv, TypeOK', NEW r \in Requests, TmuxRenames(r),
         tmux[request[r].from] # Nobody, tmux[request[r].to] = Nobody
  PROVE  RInv'
  <1> USE DEF RInv, Safe
  <1> DEFINE from == request[r].from
             to == request[r].to
             others == Renames([request EXCEPT ![r] = Idle])
  <1>1. /\ request' = [request EXCEPT ![r].phase = "renamed"]
        /\ request[r].phase = "journaled" /\ r \in Active
        /\ tmux' = [tmux EXCEPT ![from] = Nobody, ![to] = tmux[from]]
        /\ orphans' = orphans \cup Reuse({from, to}, others)
        /\ UNCHANGED <<unborn, cache, queue, pins, journal, poll>>
    BY DEF TmuxRenames, stores, Active
  <1>2. request[r] \in RequestRecords /\ UnderWay(request[r]) /\ from \in Names /\ to \in Names /\ from # to
    BY <1>1, RequestUnderWay, ActiveRecord DEF WellFormed
  <1>3. Active' = Active /\ request'[r].phase = "renamed"
        /\ \A x \in Active : /\ request'[x].from = request[x].from /\ request'[x].to = request[x].to
                             /\ request'[x].known = request[x].known
                             /\ x # r => request'[x] = request[x]
    BY <1>1, <1>2 DEF Active, TypeOK, RequestRecords
  <1>4. ASSUME NEW n \in OrphanNames  PROVE n \in OrphanNames'
    BY <1>1, OrphansGrow
  <1>5. /\ tmux'[from] = Nobody /\ tmux'[to] = tmux[from]
        /\ \A n \in Names : n # from /\ n # to => tmux'[n] = tmux[n]
    BY <1>1, <1>2 DEF TypeOK
  <1>6. ASSUME NEW s \in Sessions  PROVE IsLive(s)' <=> IsLive(s)
    BY <1>2, <1>5 DEF IsLive
  <1>7. ASSUME NEW m \in Names, NEW s \in Sessions  PROVE KeyOf(m, s)' <=> KeyOf(m, s)
    BY <1>1, <1>6 DEF KeyOf
  <1>8. ASSUME NEW x \in Active, x # r, {from, to} \cap {request[x].from, request[x].to} # {}
        PROVE  request[x].from \in OrphanNames'
    <2>1. [from |-> request[x].from, to |-> request[x].to] \in others
      BY <1>8 DEF Renames, Active, TypeOK
    <2>2. Reuse({from, to}, others) \subseteq orphans'  BY <1>1
    <2>3. PICK p \in others : p = [from |-> request[x].from, to |-> request[x].to]  BY <2>1
    <2>4. p.from = request[x].from /\ {from, to} \cap {p.from, p.to} # {}  BY <1>8, <2>3
    <2> HIDE DEF others, from, to
    <2> QED  BY <2>2, <2>4, ReusedNames
  <1> HIDE DEF others
  <1>9. OneName' /\ UnbornNowhere'
    <2>1. tmux[from] \in Sessions  BY <1>2 DEF TypeOK, Occupant
    <2> HIDE DEF from, to
    <2>2. ASSUME NEW n \in Names, NEW m \in Names, tmux'[n] # Nobody, tmux'[n] = tmux'[m]  PROVE n = m
      BY <1>2, <1>5, <2>1, <2>2 DEF OneName
    <2>3. ASSUME NEW n \in Names, NEW s \in unborn  PROVE tmux'[n] # s
      BY <1>2, <1>5, <2>1 DEF UnbornNowhere, TypeOK
    <2> QED  BY <1>1, <2>2, <2>3 DEF OneName, UnbornNowhere
  <1>10. WellFormed'  BY <1>3 DEF WellFormed
  <1>11. KeysRight'
    <2> SUFFICES ASSUME NEW m \in Names, NEW s \in Sessions, KeyOf(m, s)
                 PROVE  tmux'[m] = s \/ journal.from = m \/ m \in OrphanNames'
      BY <1>1, <1>7 DEF KeysRight
    <2>1. CASE tmux[m] # s  BY <1>4, <2>1 DEF KeysRight
    <2>2. CASE tmux[m] = s /\ m = from
      BY <1>1, <1>2, <1>4, <2>2 DEF UnderWay
    <2> QED  BY <1>2, <1>5, <2>1, <2>2
  <1>12. RequestsRight'
    <2>1. ASSUME NEW x \in Active, x # r, NEW q \in RequestRecords, request'[x] = q  PROVE UnderWay(q)'
      <3>1. UnderWay(q) /\ q = request[x]  BY <1>3, <2>1 DEF RequestsRight
      <3>2. q.from \in Names /\ q.to \in Names  BY DEF RequestRecords
      <3>3. CASE {from, to} \cap {q.from, q.to} # {}
        BY <1>8, <2>1, <3>1, <3>3 DEF UnderWay
      <3>4. CASE {from, to} \cap {q.from, q.to} = {}
        <4>1. tmux'[q.from] = tmux[q.from] /\ tmux'[q.to] = tmux[q.to]  BY <1>5, <3>2, <3>4
        <4> QED  BY <1>1, <1>4, <1>7, <3>1, <3>2, <4>1, UnderWayKept
      <3> QED  BY <3>3, <3>4
    <2>2. ASSUME NEW q \in RequestRecords, request'[r] = q  PROVE UnderWay(q)'
      <3>1. q.from = from /\ q.to = to /\ q.phase = "renamed"
        BY <1>1, <1>3, <2>2
      <3>2. from \in OrphanNames \/ AtHome(from)  BY <1>1, <1>2 DEF UnderWay
      <3>3. AtHome(q.from) => Moved(q.from, q.to)'
        BY <1>1, <1>2, <1>5, <1>7, <3>1 DEF AtHome, Moved
      <3> QED  BY <1>4, <3>1, <3>2, <3>3 DEF UnderWay
    <2> QED  BY <1>3, <2>1, <2>2 DEF RequestsRight
  <1>13. JournalRight'
    <2>1. journal # NoJournal => Owned  BY <1>1, OwnerRenames
    <2> QED  BY <1>1, <1>3, <1>4, <2>1 DEF JournalRight, Owned
  <1>14. RoomAhead'
    <2>1. ~Restarted /\ ~Restarted'  BY <1>1, <1>3 DEF Restarted
    <2> QED  BY <1>1, <2>1 DEF RoomAhead
  <1>15. SeenRight'  BY <1>1, <1>4, <1>6 DEF SeenRight
  <1> QED  BY <1>9, <1>10, <1>11, <1>12, <1>13, <1>14, <1>15

LEMMA ObserveKeeps ==
  ASSUME RInv, TypeOK', NEW r \in Requests, Observe(r)
  PROVE  RInv'
  <1> USE DEF RInv, Safe
  <1> DEFINE from == request[r].from
             to == request[r].to
  <1>1. /\ request[r].phase = "renamed" /\ r \in Active
        /\ UNCHANGED <<tmux, unborn, cache, queue, pins, journal, poll>>
        /\ orphans \subseteq orphans'
    BY DEF Observe, worldVars, stores, Active
  <1>2. request[r] \in RequestRecords /\ UnderWay(request[r]) /\ from \in Names /\ to \in Names /\ from # to
    BY <1>1, RequestUnderWay, ActiveRecord DEF WellFormed
  <1>3. PICK n \in Names, ph \in {"migrate", "unknown"} :
           /\ request' = [request EXCEPT ![r].phase = ph, ![r].to = n]
           /\ n = to \/ (from \in OrphanNames' /\ n \notin request[r].known)
           /\ ph = "unknown" => n = to /\ (tmux[to] = Nobody \/ from \in OrphanNames')
    <2>1. CASE request' = [request EXCEPT ![r].phase = "migrate"]
      <3>1. request' = [request EXCEPT ![r].phase = "migrate", ![r].to = to]
        BY <2>1, <1>2 DEF TypeOK, RequestRecords
      <3> QED  BY <1>2, <3>1
    <2>2. CASE /\ request' = [request EXCEPT ![r].phase = "unknown"]
               /\ orphans' = orphans \cup Unseen(from, to)
      <3>1. request' = [request EXCEPT ![r].phase = "unknown", ![r].to = to]
        BY <2>2, <1>2 DEF TypeOK, RequestRecords
      <3>2. CASE to \notin Live
        <4>1. tmux[to] = Nobody  BY <1>2, <3>2 DEF Live, Used
        <4> QED  BY <1>2, <3>1, <4>1
      <3>3. CASE to \in Live
        <4>1. [name |-> from, why |-> "unseen"] \in orphans'  BY <2>2, <3>3 DEF Unseen
        <4>2. from \in OrphanNames'  BY <4>1 DEF OrphanNames
        <4> QED  BY <1>2, <3>1, <4>2
      <3> QED  BY <3>2, <3>3
    <2>3. CASE \E n \in Live \ request[r].known :
                  /\ request' = [request EXCEPT ![r].phase = "migrate", ![r].to = n]
                  /\ orphans' = orphans \cup Guess(from, n)
      <3>1. PICK n \in Names :
                  /\ n \notin request[r].known
                  /\ request' = [request EXCEPT ![r].phase = "migrate", ![r].to = n]
                  /\ orphans' = orphans \cup Guess(from, n)
        BY <2>3 DEF Live, Used
      <3>2. [name |-> from, why |-> "guessed"] \in orphans'  BY <3>1 DEF Guess
      <3>3. from \in OrphanNames'  BY <3>2 DEF OrphanNames
      <3> QED  BY <3>1, <3>3
    <2>4. PICK observed \in {Live, {}} :
             \/ request' = [request EXCEPT ![r].phase = "migrate"]
             \/ \E n \in observed \ request[r].known :
                   /\ request' = [request EXCEPT ![r].phase = "migrate", ![r].to = n]
                   /\ orphans' = orphans \cup Guess(from, n)
             \/ /\ request' = [request EXCEPT ![r].phase = "unknown"]
                /\ orphans' = orphans \cup Unseen(from, to)
      BY DEF Observe
    <2> QED  BY <2>1, <2>2, <2>3, <2>4
  <1>4. Active' = Active /\ request'[r].phase = ph /\ request'[r].to = n
        /\ request'[r].from = from /\ request'[r].known = request[r].known
        /\ \A x \in Active : x # r => request'[x] = request[x]
    BY <1>1, <1>2, <1>3 DEF Active, TypeOK, RequestRecords
  <1>5. ASSUME NEW k \in OrphanNames  PROVE k \in OrphanNames'
    BY <1>1, OrphansGrow
  <1>6. ASSUME NEW m, NEW s  PROVE KeyOf(m, s)' = KeyOf(m, s)
    BY <1>1, SameKeys
  <1>7. OneName' /\ UnbornNowhere'  BY <1>1 DEF OneName, UnbornNowhere
  <1>8. WellFormed'  BY <1>1, <1>2, <1>3, <1>4 DEF WellFormed
  <1>9. KeysRight'  BY <1>1, <1>5, <1>6 DEF KeysRight
  <1>10. RequestsRight'
    <2>1. ASSUME NEW x \in Active, x # r, NEW q \in RequestRecords, request'[x] = q  PROVE UnderWay(q)'
      <3>1. UnderWay(q)  BY <1>4, <2>1 DEF RequestsRight
      <3> QED  BY <1>1, <1>5, <1>6, <3>1, UnderWayKept
    <2>2. ASSUME NEW q \in RequestRecords, request'[r] = q  PROVE UnderWay(q)'
      <3>1. q.from = from /\ q.to = n /\ q.phase = ph
        BY <1>4, <2>2
      <3>2. from \in OrphanNames \/ Moved(from, to)  BY <1>1, <1>2 DEF UnderWay
      <3>3. CASE from \in OrphanNames'  BY <3>1, <3>3 DEF UnderWay
      <3>4. CASE from \notin OrphanNames'
        <4>1. n = to /\ Moved(q.from, q.to)  BY <1>3, <1>5, <3>1, <3>2, <3>4
        <4>2. Moved(q.from, q.to)'  BY <1>1, <1>6, <4>1 DEF Moved
        <4>3. tmux[to] = Nobody => Keyless(q.from)'
          BY <1>1, <1>6, <3>1, <4>1 DEF Moved, Keyless
        <4> QED  BY <1>3, <3>1, <4>2, <4>3 DEF UnderWay
      <3> QED  BY <3>3, <3>4
    <2> QED  BY <1>4, <2>1, <2>2 DEF RequestsRight
  <1>11. JournalRight'
    <2>1. ASSUME journal # NoJournal  PROVE Owned'
      <3>1. PICK x \in Active : /\ journal.from = request[x].from
                                /\ journal.to = request[x].to \/ journal.from \in OrphanNames
        BY <1>1, <2>1, OwnerRenames DEF Owned
      <3>2. x = r => journal.to = n \/ from \in OrphanNames'  BY <1>3, <1>5, <3>1
      <3> QED  BY <1>1, <1>4, <1>5, <3>1, <3>2 DEF Owned
    <2> QED  BY <1>1, <2>1 DEF JournalRight
  <1>12. RoomAhead'
    <2>1. ~Restarted /\ ~Restarted'  BY <1>1, <1>4 DEF Restarted
    <2> QED  BY <1>1, <2>1 DEF RoomAhead
  <1>13. SeenRight'  BY <1>1, <1>5 DEF SeenRight, IsLive
  <1> QED  BY <1>7, <1>8, <1>9, <1>10, <1>11, <1>12, <1>13

LEMMA GiveUpKeeps ==
  ASSUME RInv, TypeOK', NEW r \in Requests, GiveUp(r)
  PROVE  RInv'
  <1> USE DEF RInv, Safe
  <1> DEFINE from == request[r].from
  <1>1. /\ request[r].phase \in {"refused", "unknown"} /\ r \in Active
        /\ ~poll.held /\ ~poll'.held
        /\ request' = [request EXCEPT ![r] = Idle] /\ journal' = NoJournal
        /\ UNCHANGED <<tmux, unborn, cache, queue, pins, poll>>
    BY DEF GiveUp, LockFree, worldVars, stores, Active
  <1>2. UnderWay(request[r])  BY <1>1, RequestUnderWay
  <1>3. Active' = Active \ {r} /\ \A x \in Active' : request'[x] = request[x] /\ request'[x].phase # "idle"
    BY <1>1 DEF Active, TypeOK, Idle
  <1>4. PICK l : l = Lost(request')  OBVIOUS
  <1>5. Orphaned(l, {})  BY <1>4 DEF GiveUp
  <1>6. ASSUME NEW k \in OrphanNames  PROVE k \in OrphanNames'
    BY <1>5, OrphansKept
  <1>7. ASSUME NEW x \in Active', journal.from = request[x].from  PROVE journal.from \in OrphanNames'
    <2>1. PICK q : q = request'  OBVIOUS
    <2>2. journal.from \in Renaming(q)  BY <1>3, <1>7, <2>1, RenamingActive DEF Active
    <2>3. [name |-> journal.from, why |-> "journal"] \in Lost(q)  BY <2>2, LostNames
    <2>4. [name |-> journal.from, why |-> "journal"] \in l  BY <1>4, <2>1, <2>3
    <2> QED  BY <1>5, <2>4, OrphansMore
  <1>8. ASSUME NEW m, NEW s  PROVE KeyOf(m, s)' = KeyOf(m, s)
    BY <1>1, SameKeys
  <1>9. OneName' /\ UnbornNowhere'  BY <1>1 DEF OneName, UnbornNowhere
  <1>10. WellFormed'  BY <1>3 DEF WellFormed
  <1>11. KeysRight'
    <2> SUFFICES ASSUME NEW m \in Names, NEW s \in Sessions, KeyOf(m, s), tmux[m] # s, m \notin OrphanNames
                 PROVE  m \in OrphanNames'
      BY <1>1, <1>6, <1>8 DEF KeysRight
    <2>1. journal.from = m /\ journal # NoJournal  BY DEF KeysRight, NoJournal
    <2>2. PICK x \in Active : journal.from = request[x].from  BY <1>1, <2>1, OwnerRenames
    <2>3. x # r  BY <1>1, <1>2, <2>1, <2>2 DEF UnderWay, AtHome, Keyless
    <2> QED  BY <1>3, <1>7, <2>1, <2>2, <2>3
  <1>12. RequestsRight'
    <2>1. ASSUME NEW x \in Active', NEW q \in RequestRecords, request'[x] = q  PROVE UnderWay(q)'
      <3>1. UnderWay(q) /\ q = request[x]  BY <1>3, <2>1 DEF RequestsRight
      <3>2. journal.from = q.from => q.from \in OrphanNames'
        BY <1>7, <2>1, <3>1
      <3> QED  BY <1>1, <1>6, <1>8, <3>1, <3>2, UnderWayKept
    <2> QED  BY <2>1 DEF RequestsRight
  <1>13. JournalRight' /\ RoomAhead' /\ SeenRight'  BY <1>1 DEF JournalRight, RoomAhead, SeenRight
  <1> QED  BY <1>9, <1>10, <1>11, <1>12, <1>13

LEMMA EndKeeps ==
  ASSUME RInv, TypeOK', NEW r \in Requests, EndRename(r)
  PROVE  RInv'
  <1> USE DEF RInv, Safe
  <1> DEFINE from == request[r].from
             to == request[r].to
  <1>1. /\ request[r].phase = "migrate" /\ r \in Active
        /\ ~poll.held /\ ~poll'.held
        /\ request' = [request EXCEPT ![r] = Idle] /\ journal' = NoJournal
        /\ queue' = MovedQueue(from, to) /\ pins' = MovedPins(from, to)
        /\ UNCHANGED <<tmux, unborn, cache, poll>>
    BY DEF EndRename, Migrate, LockFree, worldVars, stores, Active
  <1>2. UnderWay(request[r]) /\ from \in Names /\ to \in Names /\ from # to
    BY <1>1, RequestUnderWay, ActiveRecord DEF WellFormed
  <1>3. Active' = Active \ {r} /\ \A x \in Active' : request'[x] = request[x] /\ request'[x].phase # "idle"
    BY <1>1 DEF Active, TypeOK, Idle
  <1>4. PICK l : l = Lost(request')  OBVIOUS
  <1>5. PICK moves : moves = {[from |-> from, to |-> to]}  OBVIOUS
  <1>6. Orphaned(l, moves)  BY <1>4, <1>5 DEF EndRename
  <1>7. ASSUME NEW x \in Active'  PROVE request[x].from \in Renaming(request')
    <2>1. PICK q : q = request'  OBVIOUS
    <2> QED  BY <1>3, <2>1, RenamingActive DEF Active
  <1>8. ASSUME NEW k \in OrphanNames, k # from \/ \E x \in Active' : k = request[x].from
        PROVE  k \in OrphanNames'
    BY <1>5, <1>6, <1>7, <1>8, OrphansKept
  <1>9. from \in OrphanNames => to \in OrphanNames'
    <2>1. PICK p \in moves : p = [from |-> from, to |-> to]  BY <1>5
    <2> QED  BY <1>6, <2>1, OrphansCarried
  <1>10. ASSUME NEW x \in Active', journal.from = request[x].from  PROVE journal.from \in OrphanNames'
    <2>1. PICK q : q = request'  OBVIOUS
    <2>2. journal.from \in Renaming(q)  BY <1>7, <1>10, <2>1
    <2>3. [name |-> journal.from, why |-> "journal"] \in Lost(q)  BY <2>2, LostNames
    <2>4. [name |-> journal.from, why |-> "journal"] \in l  BY <1>4, <2>1, <2>3
    <2> QED  BY <1>6, <2>1, <2>2, <2>4, OrphansMore
  <1>11. ASSUME NEW m \in Names, NEW s \in Sessions, KeyOf(m, s)'
         PROVE  /\ m # from
                /\ KeyOf(m, s) \/ (m = to /\ (tmux[to] = s \/ to \in OrphanNames'))
    <2>1. m # from /\ (KeyOf(m, s) \/ (m = to /\ KeyOf(from, s)))
      BY <1>1, <1>2, <1>11, KeysMoved
    <2>2. KeyOf(from, s) => tmux[to] = s \/ to \in OrphanNames'
      BY <1>1, <1>2, <1>9 DEF UnderWay, Moved
    <2> QED  BY <2>1, <2>2
  <1>12. OneName' /\ UnbornNowhere'
    <2>1. ASSUME NEW n \in Names, NEW s \in unborn  PROVE queue'[n] # s /\ s \notin pins'[n]
      BY <1>1, <1>2 DEF UnbornNowhere, MovedQueue, MovedPins, TypeOK
    <2> QED  BY <1>1, <2>1 DEF OneName, UnbornNowhere
  <1>13. WellFormed'  BY <1>3 DEF WellFormed
  <1>14. KeysRight'
    <2> SUFFICES ASSUME NEW m \in Names, NEW s \in Sessions, KeyOf(m, s)', tmux[m] # s, KeyOf(m, s), m # from
                 PROVE  m \in OrphanNames'
      BY <1>1, <1>11 DEF KeysRight
    <2>1. CASE m \in OrphanNames  BY <2>1, <1>8
    <2>2. CASE m \notin OrphanNames
      <3>1. journal.from = m /\ journal # NoJournal  BY <2>2 DEF KeysRight, NoJournal
      <3>2. PICK x \in Active : journal.from = request[x].from  BY <1>1, <3>1, OwnerRenames
      <3> QED  BY <1>3, <1>10, <3>1, <3>2
    <2> QED  BY <2>1, <2>2
  <1>15. RequestsRight'
    <2>1. ASSUME NEW x \in Active', NEW q \in RequestRecords, request'[x] = q  PROVE UnderWay(q)'
      <3>1. UnderWay(q) /\ q = request[x] /\ q.from \in Names
        BY <1>3, <2>1 DEF RequestsRight, RequestRecords
      <3>2. journal.from = q.from => q.from \in OrphanNames'
        BY <1>10, <2>1, <3>1
      <3>3. q.from \in OrphanNames => q.from \in OrphanNames'
        BY <1>8, <2>1, <3>1
      <3>4. ASSUME NEW s \in Sessions, KeyOf(q.from, s)'
            PROVE  q.from \in OrphanNames' \/ tmux[q.from] = s \/ KeyOf(q.from, s)
        BY <1>11, <3>1, <3>4
      <3> QED  BY <1>1, <3>1, <3>2, <3>3, <3>4, UnderWayKept
    <2> QED  BY <2>1 DEF RequestsRight
  <1>16. JournalRight' /\ RoomAhead' /\ SeenRight'  BY <1>1 DEF JournalRight, RoomAhead, SeenRight
  <1> QED  BY <1>12, <1>13, <1>14, <1>15, <1>16

-----------------------------------------------------------------------------
(* The poll *)

LEMMA EnumerateKeeps ==
  ASSUME RInv, TypeOK', PollEnumerate
  PROVE  RInv'
  <1> USE DEF RInv, Safe
  <1>1. /\ ~poll.held /\ poll'.held /\ poll'.view = tmux
        /\ \A r \in Active : request[r].phase \notin {"refused", "unknown", "migrate"}
        /\ UNCHANGED <<tmux, unborn, cache, queue, pins, journal, request, orphans>>
    BY DEF PollEnumerate, LockFree, worldVars, stores, Waiting, Active
  <1>2. OrphanNames' = OrphanNames /\ Active' = Active  BY <1>1 DEF OrphanNames, Active
  <1>3. ASSUME NEW m, NEW s  PROVE KeyOf(m, s)' = KeyOf(m, s)
    BY <1>1, SameKeys
  <1>4. OneName' /\ UnbornNowhere'  BY <1>1 DEF OneName, UnbornNowhere
  <1>5. WellFormed'  BY <1>1, <1>2 DEF WellFormed
  <1>6. KeysRight'  BY <1>1, <1>2, <1>3 DEF KeysRight
  <1>7. ASSUME NEW f \in Names, AtHome(f)  PROVE AtHome(f)'
    BY <1>1, <1>3, <1>7 DEF AtHome
  <1>8. ASSUME NEW f \in Names, NEW t \in Names, Moved(f, t)  PROVE Moved(f, t)'
    BY <1>1, <1>3, <1>8 DEF Moved
  <1>9. ASSUME NEW f \in Names, NEW t \in Names, HalfMoved(f, t)  PROVE HalfMoved(f, t)'
    BY <1>1, <1>3, <1>9 DEF HalfMoved
  <1>10. RequestsRight'
    <2>1. ASSUME NEW x \in Active, NEW q \in RequestRecords, request[x] = q  PROVE UnderWay(q)'
      <3>1. UnderWay(q) /\ q.from \in Names /\ q.to \in Names
            /\ q.phase \notin {"refused", "unknown", "migrate"}
        BY <1>1, <2>1 DEF RequestsRight, RequestRecords
      <3>2. CASE q.from \in OrphanNames  BY <1>2, <3>2 DEF UnderWay
      <3>3. CASE q.phase = "journaled" /\ AtHome(q.from) /\ (journal.from = q.from \/ tmux[q.from] = Nobody)
        <4>1. AtHome(q.from)'  BY <1>7, <3>1, <3>3
        <4> QED  BY <1>1, <3>3, <4>1 DEF UnderWay
      <3>4. CASE q.phase = "renamed" /\ Moved(q.from, q.to)
        <4>1. Moved(q.from, q.to)'  BY <1>8, <3>1, <3>4
        <4> QED  BY <1>1, <3>4, <4>1 DEF UnderWay
      <3> QED  BY <3>1, <3>2, <3>3, <3>4 DEF UnderWay
    <2> QED  BY <1>1, <1>2, <2>1 DEF RequestsRight
  <1>11. JournalRight'
    <2>1. Owned => Owned'  BY <1>1, <1>2 DEF Owned
    <2>2. ASSUME NEW f \in Names, NEW t \in Names, Halted(f, t)  PROVE Halted(f, t)'
      BY <1>2, <1>7, <1>9, <2>2 DEF Halted
    <2>3. Interrupted => Interrupted'  BY <1>1, <1>2, <2>2 DEF Interrupted, Restarted
    <2> QED  BY <1>1, <2>1, <2>3 DEF JournalRight
  <1>12. RoomAhead'  BY <1>1, <1>2 DEF RoomAhead, Restarted, IsLive
  <1>13. SeenRight'
    <2> SUFFICES ASSUME NEW m \in Names, NEW s \in Sessions, queue[m] = s
                 PROVE  /\ IsLive(s) => \E k \in Names : tmux[k] = s
                        /\ \A k \in Names : k # m /\ tmux[k] = s => journal.from = m \/ m \in OrphanNames
      BY <1>1, <1>2 DEF SeenRight, IsLive
    <2>1. IsLive(s) => \E k \in Names : tmux[k] = s  BY DEF IsLive
    <2>2. ASSUME NEW k \in Names, k # m, tmux[k] = s  PROVE journal.from = m \/ m \in OrphanNames
      <3>1. KeyOf(m, s) /\ tmux[m] # s  BY <2>2 DEF KeyOf, IsLive, OneName
      <3> QED  BY <3>1 DEF KeysRight
    <2> QED  BY <2>1, <2>2
  <1> QED  BY <1>4, <1>5, <1>6, <1>10, <1>11, <1>12, <1>13

LEMMA ApplyKeeps ==
  ASSUME RInv, TypeOK', PollApply
  PROVE  RInv'
  <1> USE DEF RInv, Safe
  <1> DEFINE from == journal.from
             to == journal.to
  <1>1. /\ poll.held /\ ~poll'.held /\ poll'.view = Empty
        /\ queue' \in {Honored.queue, Reaped(Honored.queue)} /\ pins' = Honored.pins
        /\ journal' = NoJournal /\ cache' = poll.view
        /\ UNCHANGED <<tmux, unborn, request>>
    BY DEF PollApply, JournalAfterPoll, NoPoll, worldVars
  <1>2. Active' = Active  BY <1>1 DEF Active
  <1>3. RenameSeen => /\ from \in Names /\ to \in Names /\ from # to /\ journal # NoJournal
                      /\ poll.view[from] = Nobody /\ journal \in Pair /\ poll.view[to] # Nobody
    BY DEF RenameSeen, Pair, TypeOK, NoJournal
  <1>4. ~RenameSeen => Honored = [queue |-> queue, pins |-> pins, moves |-> {}]  BY DEF Honored
  <1>5. RenameSeen => Honored = [queue |-> MovedQueue(from, to), pins |-> MovedPins(from, to), moves |-> {journal}]
    BY DEF Honored
  <1>6. ASSUME NEW m \in Names, NEW s \in Sessions, KeyOf(m, s)', ~RenameSeen  PROVE KeyOf(m, s)
    BY <1>1, <1>4, <1>6 DEF KeyOf, IsLive, Reaped
  <1>7. ASSUME NEW m \in Names, NEW s \in Sessions, KeyOf(m, s)', RenameSeen
        PROVE  /\ m # from
               /\ KeyOf(m, s) \/ (m = to /\ KeyOf(from, s))
    BY <1>1, <1>3, <1>5, <1>7 DEF KeyOf, IsLive, Reaped, MovedQueue, MovedPins, TypeOK
  <1>8. PICK l : l = IF RenameSeen THEN {} ELSE Lost(request)  OBVIOUS
  <1>9. PICK moves : moves = Honored.moves  OBVIOUS
  <1>10. Orphaned(l, moves)  BY <1>8, <1>9 DEF PollApply
  <1>11. moves = IF RenameSeen THEN {journal} ELSE {}  BY <1>4, <1>5, <1>9
  <1>12. ASSUME NEW x \in Active  PROVE request[x].from \in Renaming(request')
    <2>1. PICK q : q = request'  OBVIOUS
    <2> QED  BY <1>1, <2>1, RenamingActive DEF Active
  <1>13. ASSUME NEW k \in OrphanNames, ~RenameSeen \/ k # from \/ \E x \in Active : k = request[x].from
         PROVE  k \in OrphanNames'
    BY <1>10, <1>11, <1>12, <1>13, OrphansKept
  <1>14. RenameSeen /\ from \in OrphanNames => to \in OrphanNames'
    BY <1>10, <1>11, OrphansCarried
  <1>15. ASSUME NEW x \in Active, ~RenameSeen, from = request[x].from  PROVE from \in OrphanNames'
    <2>1. from \in Renaming(request)  BY <1>15, RenamingActive DEF Active
    <2>2. [name |-> from, why |-> "journal"] \in l  BY <1>8, <1>15, <2>1, LostNames
    <2> QED  BY <1>10, <1>11, <1>15, <2>2, OrphansMore
  <1>16. ASSUME NEW s \in Sessions, RenameSeen, KeyOf(from, s)
         PROVE  tmux[to] = s \/ to \in OrphanNames'
    BY <1>1, <1>3, <1>14, <1>16, JournalTells
  <1>17. OneName' /\ UnbornNowhere'
    <2>1. ASSUME NEW n \in Names, NEW s \in unborn  PROVE queue'[n] # s /\ s \notin pins'[n]
      <3>1. s # Nobody  BY DEF TypeOK
      <3>2. CASE RenameSeen
        BY <1>1, <1>3, <1>5, <3>1, <3>2 DEF UnbornNowhere, MovedQueue, MovedPins, Reaped, TypeOK
      <3>3. CASE ~RenameSeen
        BY <1>1, <1>4, <3>1, <3>3 DEF UnbornNowhere, Reaped, TypeOK
      <3> QED  BY <3>2, <3>3
    <2>2. ASSUME NEW n \in Names, NEW s \in unborn  PROVE poll'.view[n] # s
      BY <1>1 DEF Empty, TypeOK
    <2> QED  BY <1>1, <2>1, <2>2 DEF OneName, UnbornNowhere
  <1>18. WellFormed'  BY <1>1, <1>2 DEF WellFormed
  <1>19. KeysRight'
    <2> SUFFICES ASSUME NEW m \in Names, NEW s \in Sessions, KeyOf(m, s)', tmux[m] # s
                 PROVE  m \in OrphanNames'
      BY <1>1 DEF KeysRight
    <2>1. CASE RenameSeen
      <3>1. m # from /\ (KeyOf(m, s) \/ (m = to /\ KeyOf(from, s)))  BY <1>7, <2>1
      <3>2. CASE m = to /\ KeyOf(from, s)  BY <1>16, <2>1, <3>2
      <3>3. CASE KeyOf(m, s)
        <4>1. m \in OrphanNames  BY <3>1, <3>3 DEF KeysRight
        <4> QED  BY <1>13, <3>1, <4>1
      <3> QED  BY <3>1, <3>2, <3>3
    <2>2. CASE ~RenameSeen
      <3>1. KeyOf(m, s)  BY <1>6, <2>2
      <3>2. CASE m \in OrphanNames  BY <1>13, <2>2, <3>2
      <3>3. CASE m \notin OrphanNames
        <4>1. from = m /\ journal # NoJournal /\ to \in Names
          BY <3>1, <3>3 DEF KeysRight, NoJournal, TypeOK, Pair
        <4>2. CASE Owned
          <5>1. PICK x \in Active : from = request[x].from  BY <4>2 DEF Owned
          <5> QED  BY <1>15, <2>2, <4>1, <5>1
        <4>3. CASE Interrupted
          <5>1. Halted(m, to)  BY <4>1, <4>3 DEF Interrupted, TypeOK, Pair
          <5>2. HalfMoved(m, to)  BY <3>1, <3>3, <5>1 DEF Halted, AtHome
          <5> QED  BY <1>1, <2>2, <3>1, <4>1, <5>2 DEF HalfMoved, RenameSeen
        <4> QED  BY <4>1, <4>2, <4>3 DEF JournalRight
      <3> QED  BY <3>2, <3>3
    <2> QED  BY <2>1, <2>2
  <1>20. RequestsRight'
    <2>1. ASSUME NEW x \in Active, NEW q \in RequestRecords, request[x] = q  PROVE UnderWay(q)'
      <3>1. UnderWay(q) /\ q.from \in Names /\ q.to \in Names
        BY <2>1 DEF RequestsRight, RequestRecords
      <3>2. q.from \in OrphanNames => q.from \in OrphanNames'  BY <1>13, <2>1
      <3>3. ASSUME q.phase = "journaled", from = q.from
            PROVE  q.from \in OrphanNames' \/ tmux'[q.from] = Nobody
        <4>1. ~RenameSeen => q.from \in OrphanNames'  BY <1>15, <2>1, <3>3
        <4>2. RenameSeen /\ AtHome(q.from) => tmux[q.from] = Nobody  BY <1>1, <1>3, <3>3 DEF AtHome
        <4> QED  BY <1>1, <3>1, <3>2, <3>3, <4>1, <4>2 DEF UnderWay
      <3>4. ASSUME NEW s \in Sessions, KeyOf(q.from, s)'
            PROVE  q.from \in OrphanNames' \/ tmux[q.from] = s \/ KeyOf(q.from, s)
        BY <1>6, <1>7, <1>16, <3>1, <3>4
      <3> QED  BY <1>1, <3>1, <3>2, <3>3, <3>4, UnderWayKept
    <2> QED  BY <1>1, <1>2, <2>1 DEF RequestsRight
  <1>21. JournalRight' /\ RoomAhead' /\ SeenRight'  BY <1>1 DEF JournalRight, RoomAhead, SeenRight
  <1> QED  BY <1>17, <1>18, <1>19, <1>20, <1>21

-----------------------------------------------------------------------------
(* What else uses the names *)

\* A key is written for the session the cache shows under the name.
LEMMA WriteKeeps ==
  ASSUME RInv, TypeOK', NEW n \in Names, AppendFollowup(n) \/ Pin(n)
  PROVE  RInv'
  <1> USE DEF RInv, Safe
  <1>1. /\ cache[n] # Nobody
        /\ UNCHANGED <<tmux, unborn, cache, journal, request, poll>>
        /\ orphans' = orphans \cup StaleUse(n)
        /\ \/ ~poll.held /\ queue' = [queue EXCEPT ![n] = cache[n]] /\ pins' = pins
           \/ queue' = queue /\ pins' = [pins EXCEPT ![n] = @ \cup {cache[n]}]
    BY DEF AppendFollowup, Pin, LockFree, worldVars
  <1>2. Active' = Active /\ ~Restarted  BY <1>1 DEF Active, Restarted, Empty
  <1>3. ASSUME NEW k \in OrphanNames  PROVE k \in OrphanNames'
    BY <1>1, OrphansGrow
  <1>4. ASSUME NEW m \in Names, NEW s \in Sessions, KeyOf(m, s)'
        PROVE  KeyOf(m, s) \/ tmux[m] = s \/ m \in OrphanNames'
    <2>1. KeyOf(m, s) \/ (m = n /\ cache[n] = s)  BY <1>1, <1>4 DEF KeyOf, IsLive, TypeOK
    <2>2. cache[n] # tmux[n] => n \in OrphanNames'  BY <1>1, StaleNames
    <2> QED  BY <2>1, <2>2
  <1>5. OneName' /\ UnbornNowhere'
    <2>1. ASSUME NEW m \in Names, NEW s \in unborn  PROVE queue'[m] # s /\ s \notin pins'[m]
      BY <1>1 DEF UnbornNowhere, TypeOK
    <2> QED  BY <1>1, <2>1 DEF OneName, UnbornNowhere
  <1>6. WellFormed'  BY <1>1, <1>2 DEF WellFormed
  <1>7. KeysRight'  BY <1>1, <1>3, <1>4 DEF KeysRight
  <1>8. RequestsRight'
    <2>1. ASSUME NEW x \in Active, NEW q \in RequestRecords, request[x] = q  PROVE UnderWay(q)'
      <3>1. UnderWay(q) /\ q.from \in Names
        BY <2>1 DEF RequestsRight, RequestRecords
      <3> QED  BY <1>1, <1>3, <1>4, <3>1, UnderWayKept
    <2> QED  BY <1>1, <1>2, <2>1 DEF RequestsRight
  <1>9. JournalRight'
    <2>1. journal # NoJournal => Owned  BY <1>2 DEF JournalRight, Interrupted
    <2> QED  BY <1>1, <1>2, <1>3, <2>1 DEF JournalRight, Owned
  <1>10. RoomAhead'
    <2>1. ASSUME journal # NoJournal  PROVE cache[journal.to] = Nobody /\ queue'[journal.to] = Nobody
      <3>1. cache[journal.to] = Nobody /\ queue[journal.to] = Nobody /\ journal.to \in Names
        BY <1>2, <2>1 DEF RoomAhead, TypeOK, Pair
      <3> QED  BY <1>1, <3>1 DEF TypeOK
    <2> QED  BY <1>1, <2>1 DEF RoomAhead
  <1>11. SeenRight'
    BY <1>1, <1>3 DEF SeenRight, IsLive
  <1> QED  BY <1>5, <1>6, <1>7, <1>8, <1>9, <1>10, <1>11

LEMMA SendKeeps ==
  ASSUME RInv, TypeOK', NEW n \in Names, BeginSend(n) \/ FinishSend(n)
  PROVE  RInv'
  <1> USE DEF RInv, Safe
  <1>1. /\ UNCHANGED <<tmux, unborn, cache, pins, journal, request, poll, orphans>>
        /\ ~poll.held
        /\ queue' \in {queue, [queue EXCEPT ![n] = Nobody]}
    BY DEF BeginSend, FinishSend, LockFree, worldVars, stores
  <1>2. Active' = Active /\ OrphanNames' = OrphanNames /\ Restarted' = Restarted
    BY <1>1 DEF Active, OrphanNames, Restarted
  <1>3. ASSUME NEW m \in Names  PROVE queue'[m] = queue[m] \/ queue'[m] = Nobody
    BY <1>1 DEF TypeOK
  <1>4. ASSUME NEW m \in Names, NEW s \in Sessions, KeyOf(m, s)'  PROVE KeyOf(m, s)
    BY <1>1, <1>3, <1>4 DEF KeyOf, IsLive
  <1>5. OneName' /\ UnbornNowhere'
    <2>1. ASSUME NEW m \in Names, NEW s \in unborn  PROVE queue'[m] # s
      BY <1>3 DEF UnbornNowhere, TypeOK
    <2> QED  BY <1>1, <2>1 DEF OneName, UnbornNowhere
  <1>6. WellFormed'  BY <1>1, <1>2 DEF WellFormed
  <1>7. KeysRight'  BY <1>1, <1>2, <1>4 DEF KeysRight
  <1>8. RequestsRight'
    <2>1. ASSUME NEW x \in Active, NEW q \in RequestRecords, request[x] = q  PROVE UnderWay(q)'
      <3>1. UnderWay(q) /\ q.from \in Names
        BY <2>1 DEF RequestsRight, RequestRecords
      <3> QED  BY <1>1, <1>2, <1>4, <3>1, UnderWayKept
    <2> QED  BY <1>1, <1>2, <2>1 DEF RequestsRight
  <1>9. JournalRight'
    <2>1. ASSUME NEW f \in Names, NEW t \in Names, Halted(f, t)  PROVE Halted(f, t)'
      <3>1. AtHome(f) => AtHome(f)'  BY <1>1, <1>4 DEF AtHome
      <3>2. HalfMoved(f, t) => HalfMoved(f, t)'  BY <1>1, <1>4 DEF HalfMoved
      <3> QED  BY <1>2, <2>1, <3>1, <3>2 DEF Halted
    <2>2. Interrupted => Interrupted'  BY <1>1, <1>2, <2>1 DEF Interrupted
    <2>3. Owned => Owned'  BY <1>1, <1>2 DEF Owned
    <2> QED  BY <1>1, <2>2, <2>3 DEF JournalRight
  <1>10. RoomAhead'
    <2> SUFFICES ASSUME journal # NoJournal
                 PROVE  \/ queue'[journal.to] = Nobody
                        \/ /\ Restarted
                           /\ IsLive(queue'[journal.to]) /\ queue'[journal.from] # Nobody => journal.to \in OrphanNames
      BY <1>1, <1>2 DEF RoomAhead, IsLive
    <2>1. journal.from \in Names /\ journal.to \in Names  BY DEF TypeOK, Pair
    <2> QED  BY <1>3, <2>1 DEF RoomAhead
  <1>11. SeenRight'  BY <1>1 DEF SeenRight
  <1> QED  BY <1>5, <1>6, <1>7, <1>8, <1>9, <1>10, <1>11

LEMMA DeathKeeps ==
  ASSUME RInv, TypeOK', NEW n \in Names, SessionDies(n)
  PROVE  RInv'
  <1> USE DEF RInv, Safe
  <1>1. /\ tmux' = [tmux EXCEPT ![n] = Nobody] /\ tmux[n] # Nobody
        /\ UNCHANGED <<unborn, cache, queue, pins, journal, request, poll, orphans>>
    BY DEF SessionDies, stores
  <1>2. Active' = Active /\ OrphanNames' = OrphanNames /\ Restarted' = Restarted
    BY <1>1 DEF Active, OrphanNames, Restarted
  <1>3. tmux'[n] = Nobody /\ \A m \in Names : m # n => tmux'[m] = tmux[m]
    BY <1>1 DEF TypeOK
  <1>4. ASSUME NEW s, s # Nobody, IsLive(s)'
        PROVE  IsLive(s) /\ \A m \in Names : tmux[m] = s => tmux'[m] = s
    <2>1. PICK k \in Names : tmux'[k] = s  BY <1>4 DEF IsLive
    <2>2. k # n /\ tmux[k] = s  BY <1>3, <1>4, <2>1
    <2> QED  BY <1>3, <1>4, <2>2 DEF IsLive, OneName
  <1>5. ASSUME NEW m \in Names, NEW s \in Sessions, KeyOf(m, s)'
        PROVE  KeyOf(m, s) /\ \A k \in Names : tmux[k] = s => tmux'[k] = s
    BY <1>1, <1>4, <1>5 DEF KeyOf
  <1>6. OneName' /\ UnbornNowhere'
    <2>1. ASSUME NEW m \in Names, NEW s \in unborn  PROVE tmux'[m] # s
      BY <1>3 DEF UnbornNowhere, TypeOK
    <2> QED  BY <1>1, <1>3, <2>1 DEF OneName, UnbornNowhere
  <1>7. WellFormed'  BY <1>1, <1>2 DEF WellFormed
  <1>8. KeysRight'  BY <1>1, <1>2, <1>5 DEF KeysRight
  <1>9. RequestsRight'
    <2>1. ASSUME NEW x \in Active, NEW q \in RequestRecords, request[x] = q  PROVE UnderWay(q)'
      <3>1. UnderWay(q) /\ q.from \in Names /\ q.to \in Names
        BY <2>1 DEF RequestsRight, RequestRecords
      <3>2. tmux[q.from] = Nobody => tmux'[q.from] = Nobody  BY <1>3, <3>1
      <3> QED  BY <1>1, <1>2, <1>5, <3>1, <3>2, UnderWayKept
    <2> QED  BY <1>1, <1>2, <2>1 DEF RequestsRight
  <1>10. JournalRight'
    <2>1. ASSUME NEW f \in Names, NEW t \in Names, Halted(f, t)  PROVE Halted(f, t)'
      <3>1. AtHome(f) => AtHome(f)'  BY <1>1, <1>3, <1>5 DEF AtHome
      <3>2. HalfMoved(f, t) => HalfMoved(f, t)'  BY <1>1, <1>3, <1>5 DEF HalfMoved
      <3> QED  BY <1>2, <2>1, <3>1, <3>2 DEF Halted
    <2>2. Interrupted => Interrupted'  BY <1>1, <1>2, <2>1 DEF Interrupted
    <2>3. Owned => Owned'  BY <1>1, <1>2 DEF Owned
    <2> QED  BY <1>1, <2>2, <2>3 DEF JournalRight
  <1>11. RoomAhead'
    <2>1. queue[journal.to] # Nobody /\ IsLive(queue[journal.to])' => IsLive(queue[journal.to])
      BY <1>1, <1>4
    <2>2. queue[journal.to]' = queue[journal.to]  BY <1>1
    <2>3. PICK s : s = queue[journal.to]  OBVIOUS
    <2>4. s # Nobody /\ IsLive(s)' => IsLive(s)  BY <1>4
    <2> QED  BY <1>1, <1>2, <2>3, <2>4 DEF RoomAhead
  <1>12. SeenRight'
    <2>1. ASSUME NEW s \in Sessions, IsLive(s)'  PROVE IsLive(s)
      BY <1>4, <2>1
    <2> QED  BY <1>1, <1>2, <2>1 DEF SeenRight
  <1> QED  BY <1>6, <1>7, <1>8, <1>9, <1>10, <1>11, <1>12

LEMMA BirthKeeps ==
  ASSUME RInv, TypeOK', NEW n \in Names, NEW new \in Sessions, SessionCreated(n, new)
  PROVE  RInv'
  <1> USE DEF RInv, Safe
  <1> DEFINE ps == Renames(request) \cup {journal}
  <1>1. /\ tmux[n] = Nobody /\ new \in unborn /\ tmux' = [tmux EXCEPT ![n] = new]
        /\ unborn' = unborn \ {new}
        /\ orphans' = orphans \cup Reuse({n}, ps)
        /\ UNCHANGED <<cache, queue, pins, journal, request, poll>>
    BY DEF SessionCreated, stores
  <1>2. Active' = Active /\ Restarted' = Restarted  BY <1>1 DEF Active, Restarted
  <1>3. ASSUME NEW k \in OrphanNames  PROVE k \in OrphanNames'
    BY <1>1, OrphansGrow
  <1>4. tmux'[n] = new /\ \A m \in Names : m # n => tmux'[m] = tmux[m]
    BY <1>1 DEF TypeOK
  <1>5. ASSUME NEW s, s \notin unborn, s # Nobody
        PROVE  /\ IsLive(s)' <=> IsLive(s)
               /\ \A m \in Names : tmux'[m] = s <=> tmux[m] = s
    BY <1>1, <1>4, <1>5 DEF IsLive
  <1>6. ASSUME NEW m \in Names, NEW s \in Sessions, KeyOf(m, s)'
        PROVE  KeyOf(m, s) /\ \A k \in Names : tmux[k] = s => tmux'[k] = s
    <2>1. s \notin unborn  BY <1>1, <1>6 DEF UnbornNowhere, KeyOf
    <2> QED  BY <1>1, <1>5, <1>6, <2>1 DEF KeyOf
  <1>7. ASSUME NEW p \in ps, n \in {p.from, p.to}  PROVE p.from \in OrphanNames' /\ p.to \in OrphanNames'
    <2>1. Reuse({n}, ps) \subseteq orphans'  BY <1>1
    <2> HIDE DEF ps
    <2> QED  BY <1>7, <2>1, ReusedNames
  <1>8. OneName' /\ UnbornNowhere'
    <2>1. ASSUME NEW m \in Names, NEW s \in unborn'  PROVE tmux'[m] # s
      BY <1>1, <1>4 DEF UnbornNowhere
    <2>2. ASSUME NEW m \in Names, NEW k \in Names, tmux'[m] # Nobody, tmux'[m] = tmux'[k]  PROVE m = k
      BY <1>1, <1>4, <2>2 DEF UnbornNowhere, OneName
    <2>3. UnbornNowhere'  BY <1>1, <2>1 DEF UnbornNowhere
    <2> QED  BY <2>2, <2>3 DEF OneName
  <1>9. WellFormed'  BY <1>1, <1>2 DEF WellFormed
  <1>10. KeysRight'  BY <1>1, <1>3, <1>6 DEF KeysRight
  <1>11. RequestsRight'
    <2>1. ASSUME NEW x \in Active, NEW q \in RequestRecords, request[x] = q  PROVE UnderWay(q)'
      <3>1. UnderWay(q) /\ q.from \in Names /\ q.to \in Names
        BY <2>1 DEF RequestsRight, RequestRecords
      <3>2. CASE n \in {q.from, q.to}
        <4>1. [from |-> q.from, to |-> q.to] \in ps  BY <2>1, RenamingActive DEF Active
        <4>2. PICK p \in ps : p = [from |-> q.from, to |-> q.to]  BY <4>1
        <4>3. q.from \in OrphanNames'  BY <1>7, <3>2, <4>2
        <4> QED  BY <4>3 DEF UnderWay
      <3>3. CASE n \notin {q.from, q.to}
        <4>1. tmux'[q.from] = tmux[q.from]  BY <1>4, <3>1, <3>3
        <4> QED  BY <1>1, <1>3, <1>6, <3>1, <4>1, UnderWayKept
      <3> QED  BY <3>2, <3>3
    <2> QED  BY <1>1, <1>2, <2>1 DEF RequestsRight
  <1>12. JournalRight'
    <2>1. ASSUME NEW f \in Names, NEW t \in Names, journal = [from |-> f, to |-> t], Halted(f, t)
          PROVE  Halted(f, t)'
      <3>1. CASE n \in {f, t}
        <4>1. journal \in ps /\ journal.from = f /\ journal.to = t  BY <2>1
        <4>2. f \in OrphanNames'  BY <1>7, <3>1, <4>1
        <4> QED  BY <4>2 DEF Halted
      <3>2. CASE n \notin {f, t}
        <4>1. tmux'[f] = tmux[f] /\ tmux'[t] = tmux[t]  BY <1>4, <3>2
        <4>2. AtHome(f) => AtHome(f)'  BY <1>1, <1>6, <4>1 DEF AtHome
        <4>3. HalfMoved(f, t) => HalfMoved(f, t)'  BY <1>1, <1>6, <4>1 DEF HalfMoved
        <4> QED  BY <1>3, <2>1, <4>2, <4>3 DEF Halted
      <3> QED  BY <3>1, <3>2
    <2>2. Interrupted => Interrupted'  BY <1>1, <1>2, <2>1 DEF Interrupted
    <2>3. Owned => Owned'  BY <1>1, <1>2, <1>3 DEF Owned
    <2> QED  BY <1>1, <2>2, <2>3 DEF JournalRight
  <1>13. RoomAhead'
    <2>1. PICK s : s = queue[journal.to]  OBVIOUS
    <2>2. journal # NoJournal => s \notin unborn
      BY <2>1 DEF UnbornNowhere, TypeOK, Pair
    <2>3. journal # NoJournal /\ s # Nobody => (IsLive(s)' <=> IsLive(s))  BY <1>5, <2>2
    <2> QED  BY <1>1, <1>2, <1>3, <2>1, <2>3 DEF RoomAhead
  <1>14. SeenRight'
    <2>1. ASSUME NEW m \in Names, NEW s \in Sessions, queue[m] = s  PROVE IsLive(s)' => IsLive(s)
      <3>1. s \notin unborn /\ s # Nobody  BY <2>1 DEF UnbornNowhere
      <3> QED  BY <1>5, <3>1
    <2> QED  BY <1>1, <1>3, <2>1 DEF SeenRight
  <1> QED  BY <1>8, <1>9, <1>10, <1>11, <1>12, <1>13, <1>14

-----------------------------------------------------------------------------
(* Crashes *)

\* A process that dies between the saves of a migration leaves a journal that
\* still tells where the keys are.
LEMMA CrashFacts ==
  ASSUME RInv, TypeOK', Crash
  PROVE  /\ ~poll'.held /\ poll'.view = Empty /\ cache' = Empty /\ Active' = {}
         /\ UNCHANGED <<tmux, unborn, journal>>
         /\ \A n \in OrphanNames : n \in OrphanNames'
  <1>1. /\ poll' = NoPoll /\ cache' = Empty /\ UNCHANGED <<tmux, unborn, journal>>
        /\ request' = [r \in Requests |-> Idle] /\ orphans \subseteq orphans'
    BY DEF Crash, MigrateInPart, worldVars
  <1>2. Active' = {}  BY <1>1 DEF Active, Idle
  <1> QED  BY <1>1, <1>2, OrphansGrow DEF NoPoll

\* One clause for a crash of each kind: what the keys are then, and the journal.
LEMMA CrashLeaves ==
  ASSUME RInv, TypeOK', Crash,
         \A n \in Names, s \in unborn : queue'[n] # s /\ s \notin pins'[n],
         \A m \in Names, s \in Sessions : KeyOf(m, s)' => tmux[m] = s \/ journal.from = m \/ m \in OrphanNames',
         \A from, to \in Names : journal = [from |-> from, to |-> to] =>
            /\ Halted(from, to)'
            /\ \/ queue'[to] = Nobody
               \/ IsLive(queue'[to]) /\ queue'[from] # Nobody => to \in OrphanNames'
  PROVE  RInv'
  <1> USE DEF RInv, Safe
  <1>1. /\ ~poll'.held /\ poll'.view = Empty /\ cache' = Empty /\ Active' = {}
        /\ UNCHANGED <<tmux, unborn, journal>>
    BY CrashFacts
  <1>2. OneName' /\ UnbornNowhere'
    <2>1. ASSUME NEW n \in Names, NEW s \in unborn  PROVE cache'[n] # s /\ poll'.view[n] # s
      BY <1>1 DEF Empty, TypeOK
    <2> QED  BY <1>1, <2>1 DEF OneName, UnbornNowhere
  <1>3. WellFormed' /\ RequestsRight' /\ SeenRight'  BY <1>1 DEF WellFormed, RequestsRight, SeenRight
  <1>4. KeysRight'  BY <1>1 DEF KeysRight
  <1>5. Interrupted'  BY <1>1 DEF Interrupted, Restarted, Empty
  <1>6. JournalRight'  BY <1>1, <1>5 DEF JournalRight
  <1>7. RoomAhead'
    <2> SUFFICES ASSUME journal # NoJournal
                 PROVE  /\ cache'[journal.to] = Nobody
                        /\ \/ queue'[journal.to] = Nobody
                           \/ IsLive(queue'[journal.to]) /\ queue'[journal.from] # Nobody => journal.to \in OrphanNames'
      BY <1>1 DEF RoomAhead, Restarted, IsLive, Empty
    <2>1. PICK from \in Names, to \in Names : journal = [from |-> from, to |-> to]  BY DEF TypeOK, Pair
    <2> QED  BY <1>1, <2>1 DEF Empty
  <1> QED  BY <1>2, <1>3, <1>4, <1>6, <1>7

\* Where the journal stands at a crash that saves nothing, its keys are home,
\* or half moved.
LEMMA JournalHalts ==
  ASSUME RInv, NEW from \in Names, NEW to \in Names, journal = [from |-> from, to |-> to]
  PROVE  \/ from \in OrphanNames
         \/ \A s \in Sessions : KeyOf(from, s) => tmux[from] = s
         \/ tmux[from] = Nobody /\ \A s \in Sessions : KeyOf(from, s) => tmux[to] = s
  <1> USE DEF RInv, Safe
  <1>1. journal # NoJournal /\ journal.from = from /\ journal.to = to  BY DEF NoJournal
  <1>2. CASE Owned
    <2>1. PICK r \in Active : from = request[r].from /\ (to = request[r].to \/ from \in OrphanNames)
      BY <1>1, <1>2 DEF Owned
    <2>2. UnderWay(request[r])  BY RequestUnderWay
    <2> QED  BY <2>1, <2>2 DEF UnderWay, AtHome, Moved, Keyless
  <1>3. CASE Interrupted
    <2>1. Halted(from, to)  BY <1>1, <1>3 DEF Interrupted
    <2> QED  BY <2>1 DEF Halted, AtHome, HalfMoved
  <1> QED  BY <1>1, <1>2, <1>3 DEF JournalRight

LEMMA HaltedAfter ==
  ASSUME RInv, ~poll'.held, UNCHANGED tmux, NEW from \in Names, NEW to \in Names,
         journal = [from |-> from, to |-> to], from \in OrphanNames => from \in OrphanNames',
         \A s \in Sessions : KeyOf(from, s)' => KeyOf(from, s) \/ from \in OrphanNames' \/ tmux[from] = s
  PROVE  Halted(from, to)'
  <1>1. CASE from \in OrphanNames  BY <1>1 DEF Halted
  <1>2. CASE \A s \in Sessions : KeyOf(from, s) => tmux[from] = s
    <2>1. from \in OrphanNames' \/ AtHome(from)'  BY <1>2 DEF AtHome
    <2> QED  BY <2>1 DEF Halted
  <1>3. CASE tmux[from] = Nobody /\ \A s \in Sessions : KeyOf(from, s) => tmux[to] = s
    <2>1. from \in OrphanNames' \/ HalfMoved(from, to)'  BY <1>3 DEF HalfMoved
    <2> QED  BY <2>1 DEF Halted
  <1> QED  BY <1>1, <1>2, <1>3, JournalHalts

LEMMA CrashUnsaved ==
  ASSUME RInv, TypeOK', Crash, UNCHANGED <<stores, journal, orphans>>
  PROVE  RInv'
  <1> USE DEF RInv, Safe
  <1>1. UNCHANGED <<tmux, unborn, queue, pins>> /\ ~poll'.held /\ OrphanNames' = OrphanNames
    BY CrashFacts DEF stores, OrphanNames
  <1>2. ASSUME NEW m, NEW s  PROVE KeyOf(m, s)' = KeyOf(m, s)
    BY <1>1, SameKeys
  <1>3. ASSUME NEW from \in Names, NEW to \in Names, journal = [from |-> from, to |-> to]
        PROVE  /\ Halted(from, to)'
               /\ \/ queue'[to] = Nobody
                  \/ IsLive(queue'[to]) /\ queue'[from] # Nobody => to \in OrphanNames'
    <2>1. Halted(from, to)'  BY <1>1, <1>2, <1>3, HaltedAfter
    <2>2. journal # NoJournal  BY <1>3 DEF NoJournal
    <2> QED  BY <1>1, <1>3, <2>1, <2>2 DEF RoomAhead
  <1>4. \A n \in Names, s \in unborn : queue'[n] # s /\ s \notin pins'[n]
    BY <1>1 DEF UnbornNowhere
  <1>5. \A m \in Names, s \in Sessions : KeyOf(m, s)' => tmux[m] = s \/ journal.from = m \/ m \in OrphanNames'
    BY <1>1, <1>2 DEF KeysRight
  <1> QED  BY <1>3, <1>4, <1>5, CrashLeaves

LEMMA PartKeys ==
  ASSUME RInv, NEW from \in Names, NEW to \in Names, from # to, UNCHANGED tmux, MigrateInPart(from, to)
  PROVE  /\ \A n \in Names, s \in unborn : queue'[n] # s /\ s \notin pins'[n]
         /\ \A m \in Names, s \in Sessions : KeyOf(m, s)' => KeyOf(m, s) \/ (m = to /\ KeyOf(from, s))
         /\ queue'[from] = Nobody
         /\ \A m \in Names : m # to => queue'[m] \in {queue[m], Nobody}
         /\ queue'[to] = IF queue[from] = Nobody THEN queue[to] ELSE queue[from]
         /\ from \in OrphanNames => to \in OrphanNames'
  <1>1. /\ queue' = MovedQueue(from, to) /\ pins' \in {pins, MovedPins(from, to)}
        /\ Carried([from |-> from, to |-> to]) \subseteq orphans'
    BY DEF MigrateInPart
  <1>2. ASSUME NEW m \in Names, NEW s \in Sessions, KeyOf(m, s)'
        PROVE  KeyOf(m, s) \/ (m = to /\ KeyOf(from, s))
    BY <1>1, <1>2, KeysMoved DEF RInv
  <1>3. ASSUME NEW n \in Names, NEW s \in unborn  PROVE queue'[n] # s /\ s \notin pins'[n]
    BY <1>1 DEF RInv, Safe, UnbornNowhere, MovedQueue, MovedPins, TypeOK
  <1>4. from \in OrphanNames => to \in OrphanNames'
    <2>1. PICK p : p = [from |-> from, to |-> to]  OBVIOUS
    <2> QED  BY <1>1, <2>1, CarriedGrow
  <1>5. /\ queue'[from] = Nobody
        /\ \A m \in Names : m # to => queue'[m] \in {queue[m], Nobody}
        /\ queue'[to] = IF queue[from] = Nobody THEN queue[to] ELSE queue[from]
    BY <1>1 DEF MovedQueue, RInv, TypeOK
  <1> QED  BY <1>2, <1>3, <1>4, <1>5

\* A handler dies in its migration.
LEMMA CrashInRequest ==
  ASSUME RInv, TypeOK', Crash, NEW r \in Requests, request[r].phase = "migrate",
         MigrateInPart(request[r].from, request[r].to)
  PROVE  RInv'
  <1> USE DEF RInv, Safe
  <1> DEFINE f == request[r].from
             t == request[r].to
  <1>1. UNCHANGED <<tmux, unborn, journal>> /\ ~poll'.held /\ \A n \in OrphanNames : n \in OrphanNames'
    BY CrashFacts
  <1>2. r \in Active  BY DEF Active
  <1>3. UnderWay(request[r]) /\ f \in Names /\ t \in Names /\ f # t
    BY <1>2, RequestUnderWay, ActiveRecord DEF WellFormed
  <1>4. f \in OrphanNames \/ Moved(f, t)  BY <1>3 DEF UnderWay
  <1> HIDE DEF f, t
  <1>5. /\ \A n \in Names, s \in unborn : queue'[n] # s /\ s \notin pins'[n]
        /\ \A m \in Names, s \in Sessions : KeyOf(m, s)' => KeyOf(m, s) \/ (m = t /\ KeyOf(f, s))
        /\ queue'[f] = Nobody
        /\ \A m \in Names : m # t => queue'[m] \in {queue[m], Nobody}
        /\ queue'[t] = IF queue[f] = Nobody THEN queue[t] ELSE queue[f]
        /\ f \in OrphanNames => t \in OrphanNames'
    BY <1>1, <1>3, PartKeys DEF f, t
  <1>6. \A m \in Names, s \in Sessions : KeyOf(m, s)' => KeyOf(m, s) \/ (m = t /\ (tmux[t] = s \/ t \in OrphanNames'))
    BY <1>4, <1>5 DEF Moved
  <1>7. \A m \in Names, s \in Sessions : KeyOf(m, s)' => tmux[m] = s \/ journal.from = m \/ m \in OrphanNames'
    BY <1>1, <1>6 DEF KeysRight
  <1>8. ASSUME NEW from \in Names, NEW to \in Names, journal = [from |-> from, to |-> to]
        PROVE  /\ Halted(from, to)'
               /\ \/ queue'[to] = Nobody
                  \/ IsLive(queue'[to]) /\ queue'[from] # Nobody => to \in OrphanNames'
    <2>1. Halted(from, to)'  BY <1>1, <1>6, <1>8, HaltedAfter
    <2>2. journal # NoJournal /\ ~Restarted /\ journal.to = to /\ journal.from = from
      BY <1>2, <1>8 DEF NoJournal, Restarted
    <2>3. queue[to] = Nobody  BY <2>2 DEF RoomAhead
    <2>4. CASE to # t \/ queue[f] = Nobody  BY <1>5, <2>1, <2>3, <2>4
    <2>5. CASE to = t /\ queue[f] # Nobody /\ IsLive(queue[f])
      <3>1. queue[f] \in Sessions /\ KeyOf(f, queue[f])
        BY <1>3, <2>5 DEF TypeOK, Occupant, KeyOf
      <3>2. f \in OrphanNames \/ tmux[f] # queue[f]  BY <1>4, <2>5 DEF Moved
      <3>3. f \in OrphanNames \/ from = f  BY <1>3, <2>2, <3>1, <3>2 DEF KeysRight
      <3> QED  BY <1>5, <2>1, <2>5, <3>3
    <2>6. CASE to = t /\ queue[f] # Nobody /\ ~IsLive(queue[f])
      <3>1. queue'[to] = queue[f]  BY <1>5, <2>6
      <3> QED  BY <2>1, <2>6, <3>1
    <2> QED  BY <2>1, <2>4, <2>5, <2>6
  <1> QED  BY <1>5, <1>7, <1>8, CrashLeaves

\* A poll dies in the migration of a journal it honours.
LEMMA CrashInPoll ==
  ASSUME RInv, TypeOK', Crash, poll.held, RenameSeen, MigrateInPart(journal.from, journal.to)
  PROVE  RInv'
  <1> USE DEF RInv, Safe
  <1>1. UNCHANGED <<tmux, unborn, journal>> /\ ~poll'.held /\ \A n \in OrphanNames : n \in OrphanNames'
    BY CrashFacts
  <1>2. journal # NoJournal /\ poll.view[journal.from] = Nobody /\ poll.view[journal.to] # Nobody
    BY DEF RenameSeen
  <1>3. PICK f \in Names, t \in Names : journal = [from |-> f, to |-> t]
    BY <1>2 DEF TypeOK, Pair
  <1>4. f # t /\ journal.from = f /\ journal.to = t  BY <1>2, <1>3
  <1>5. /\ \A n \in Names, s \in unborn : queue'[n] # s /\ s \notin pins'[n]
        /\ \A m \in Names, s \in Sessions : KeyOf(m, s)' => KeyOf(m, s) \/ (m = t /\ KeyOf(f, s))
        /\ queue'[f] = Nobody
        /\ f \in OrphanNames => t \in OrphanNames'
    BY <1>1, <1>4, PartKeys
  <1>6. ASSUME NEW s \in Sessions, KeyOf(f, s)  PROVE tmux[t] = s \/ t \in OrphanNames'
    BY <1>2, <1>4, <1>5, <1>6, JournalTells
  <1>7. \A m \in Names, s \in Sessions : KeyOf(m, s)' => tmux[m] = s \/ journal.from = m \/ m \in OrphanNames'
    BY <1>1, <1>5, <1>6 DEF KeysRight
  <1>8. ASSUME NEW from \in Names, NEW to \in Names, journal = [from |-> from, to |-> to]
        PROVE  /\ Halted(from, to)'
               /\ \/ queue'[to] = Nobody
                  \/ IsLive(queue'[to]) /\ queue'[from] # Nobody => to \in OrphanNames'
    <2>1. from = f /\ to = t  BY <1>3, <1>8
    <2>2. Halted(from, to)'  BY <1>1, <1>4, <1>5, <1>8, <2>1, HaltedAfter
    <2> QED  BY <1>5, <2>1, <2>2
  <1> QED  BY <1>5, <1>7, <1>8, CrashLeaves

-----------------------------------------------------------------------------
(* The invariant *)

LEMMA NextKeeps ==
  ASSUME RInv, [Next]_vars
  PROVE  RInv'
  <1>1. TypeOK'  BY NextTypes DEF RInv
  <1>2. CASE UNCHANGED vars
    BY <1>2 DEF vars, worldVars, stores, RInv, Safe, TypeOK, OneName, UnbornNowhere, WellFormed, KeysRight,
                RequestsRight, JournalRight, RoomAhead, SeenRight, Active, Owned, Interrupted, Halted,
                Restarted, UnderWay, AtHome, Moved, HalfMoved, Keyless, KeyOf, IsLive, OrphanNames
  <1>3. CASE RequestStep
    BY <1>1, <1>3, BeginKeeps, TmuxRefuses, TmuxHonours, ObserveKeeps, GiveUpKeeps, EndKeeps DEF RequestStep
  <1>4. CASE PollEnumerate \/ PollApply
    BY <1>1, <1>4, EnumerateKeeps, ApplyKeeps
  <1>5. CASE UserStep
    BY <1>1, <1>5, WriteKeeps, SendKeeps DEF UserStep
  <1>6. CASE WorldStep
    <2>1. ASSUME Crash  PROVE RInv'
      BY <1>1, <2>1, CrashUnsaved, CrashInRequest, CrashInPoll DEF Crash
    <2> QED  BY <1>1, <1>6, <2>1, DeathKeeps, BirthKeeps DEF WorldStep
  <1> QED  BY <1>2, <1>3, <1>4, <1>5, <1>6 DEF Next

\* Any names, sessions, requests that overlap, polls, sends, deaths and crashes
\* between two saves: all parts of the invariant hold.
THEOREM RenameInvariance == Spec => []RInv
  <1>1. Init => RInv  BY InitSafe
  <1>2. RInv /\ [Next]_vars => RInv'  BY NextKeeps
  <1> QED  BY <1>1, <1>2, PTL DEF Spec

\* The types, for any names, sessions and requests.
THEOREM RenameTypes == Spec => []TypeOK
  <1>1. RInv => TypeOK  BY DEF RInv
  <1> QED  BY <1>1, RenameInvariance, PTL

\* Wherever the process dies, whatever requests overlap: the keys of a live
\* session are under its name, or a journal stands that brings them there, but
\* for the names the history excepts.
THEOREM KeysAlwaysFollow == Spec => []KeysFollowSession
  <1>1. ASSUME RInv  PROVE KeysFollowSession
    <2> SUFFICES ASSUME NEW n \in Names, NEW m \in Names, tmux[n] # Nobody, m # n,
                        queue[m] = tmux[n] \/ tmux[n] \in pins[m]
                 PROVE  journal.from = m \/ m \in OrphanNames
      BY DEF KeysFollowSession
    <2>1. tmux[n] \in Sessions /\ KeyOf(m, tmux[n])  BY <1>1 DEF RInv, TypeOK, Occupant, KeyOf, IsLive
    <2>2. tmux[m] # tmux[n]  BY <1>1 DEF RInv, Safe, OneName
    <2> QED  BY <1>1, <2>1, <2>2 DEF RInv, Safe, KeysRight
  <1> QED  BY <1>1, RenameInvariance, PTL

-----------------------------------------------------------------------------
(* What a poll drops *)

\* A migration overwrites a queue only where the history says so.
LEMMA OverwrittenQueue ==
  ASSUME RInv, poll.held, RenameSeen, NEW s \in Sessions, IsLive(s), NEW n \in Names, queue[n] = s,
         \A m \in Names : MovedQueue(journal.from, journal.to)[m] # s
  PROVE  n \in OrphanNames
  <1> USE DEF RInv, Safe
  <1>1. journal # NoJournal /\ poll.view[journal.from] = Nobody /\ poll.view[journal.to] # Nobody
    BY DEF RenameSeen
  <1>2. journal.from \in Names /\ journal.to \in Names /\ journal.from # journal.to
    BY <1>1 DEF TypeOK, Pair
  <1>3. n = journal.to /\ queue[journal.from] # Nobody  BY <1>2 DEF MovedQueue, TypeOK
  <1> QED  BY <1>1, <1>3 DEF RoomAhead

LEMMA PollDropsOrphans ==
  ASSUME RInv, PollApply, NEW s \in Sessions, IsLive(s), NEW n \in Names, queue[n] = s,
         \A m \in Names : queue'[m] # s
  PROVE  n \in OrphanNames
  <1> USE DEF RInv, Safe
  <1>1. poll.held /\ queue' \in {Honored.queue, Reaped(Honored.queue)}  BY DEF PollApply
  <1>2. s # Nobody  OBVIOUS
  <1>3. CASE RenameSeen
    <2> DEFINE from == journal.from
               to == journal.to
    <2>1. Honored.queue = MovedQueue(from, to)  BY <1>3 DEF Honored
    <2>2. /\ from \in Names /\ to \in Names /\ from # to
          /\ poll.view[from] = Nobody /\ poll.view[to] # Nobody
      BY <1>3 DEF RenameSeen, TypeOK, Pair
    <2>3. CASE \A m \in Names : MovedQueue(from, to)[m] # s
      BY <1>1, <1>3, <2>3, OverwrittenQueue
    <2>4. CASE \E m \in Names : MovedQueue(from, to)[m] = s
      <3>1. PICK m \in Names : MovedQueue(from, to)[m] = s  BY <2>4
      <3>2. poll.view[m] = Nobody  BY <1>1, <2>1, <3>1 DEF Reaped
      <3>3. m # to /\ m # from /\ queue[m] = s
        BY <1>2, <2>2, <3>1, <3>2 DEF MovedQueue, TypeOK
      <3>4. PICK k \in Names : poll.view[k] = s  BY <1>1, <3>3 DEF SeenRight
      <3>5. m \in OrphanNames  BY <1>1, <1>2, <3>2, <3>3, <3>4 DEF SeenRight
      <3>6. CASE n = m  BY <3>5, <3>6
      <3>7. CASE n # m /\ n = to
        <4>1. queue'[to] # s /\ MovedQueue(from, to)[to] # s
          BY <1>1, <2>1, <2>2 DEF Reaped
        <4>2. queue[from] # Nobody /\ queue[to] = s  BY <2>2, <3>7, <4>1 DEF MovedQueue, TypeOK
        <4>3. journal # NoJournal  BY <1>3 DEF RenameSeen
        <4> QED  BY <3>7, <4>2, <4>3 DEF RoomAhead
      <3>8. CASE n # m /\ n # to
        <4>1. n # from
          <5>1. ASSUME n = from  PROVE FALSE
            <6>1. MovedQueue(from, to)[to] = s  BY <1>2, <2>2, <5>1 DEF MovedQueue, TypeOK
            <6> QED  BY <1>1, <2>1, <2>2, <6>1 DEF Reaped
          <5> QED  BY <5>1
        <4>2. MovedQueue(from, to)[n] = s  BY <2>2, <3>8, <4>1 DEF MovedQueue, TypeOK
        <4>3. poll.view[n] = Nobody  BY <1>1, <2>1, <4>2 DEF Reaped
        <4> QED  BY <1>1, <1>2, <3>4, <4>1, <4>3 DEF SeenRight
      <3> QED  BY <3>6, <3>7, <3>8
    <2> QED  BY <2>3, <2>4
  <1>4. CASE ~RenameSeen
    <2>1. Honored.queue = queue  BY <1>4 DEF Honored
    <2>2. poll.view[n] = Nobody  BY <1>1, <2>1 DEF Reaped
    <2>3. PICK k \in Names : poll.view[k] = s  BY <1>1 DEF SeenRight
    <2>4. journal.from = n \/ n \in OrphanNames  BY <1>1, <1>2, <2>2, <2>3 DEF SeenRight
    <2>5. ASSUME journal.from = n, n \notin OrphanNames  PROVE FALSE
      <3>1. journal # NoJournal  BY <2>5 DEF NoJournal
      <3>2. KeyOf(n, s)  BY DEF KeyOf
      <3>3. poll.view[journal.to] # Nobody  BY <1>1, <2>2, <2>5, <3>1, <3>2, JournalTells
      <3> QED  BY <1>4, <2>2, <2>5, <3>1, <3>3 DEF RenameSeen
    <2> QED  BY <2>4, <2>5
  <1> QED  BY <1>3, <1>4

\* The poll cycle, complete or cut short by a crash between its saves, never
\* drops the queue of a session that lives, but for the excepted names.
THEOREM LiveQueuesKept == Spec => LiveQueueKept
  <1> DEFINE Kept == \A s \in Sessions : poll.held /\ IsLive(s) /\ QueueGone(s) =>
                        \E o \in orphans : queue[o.name] = s
  <1>1. ASSUME RInv, [Next]_vars  PROVE Kept
    <2> SUFFICES ASSUME NEW s \in Sessions, poll.held, IsLive(s), NEW n \in Names, queue[n] = s,
                        \A m \in Names : queue'[m] # s
                 PROVE  n \in OrphanNames
      BY DEF QueueGone, OrphanNames
    <2>1. queue' # queue  OBVIOUS
    <2>2. PollApply \/ (Crash /\ RenameSeen /\ MigrateInPart(journal.from, journal.to))
      <3>1. CASE RequestStep
        BY <2>1, <3>1 DEF RequestStep, BeginRename, TmuxRenames, Observe, GiveUp, EndRename, LockFree, stores
      <3>2. CASE UserStep
        BY <2>1, <3>2 DEF UserStep, AppendFollowup, Pin, BeginSend, FinishSend, LockFree, stores
      <3>3. CASE WorldStep
        BY <2>1, <3>3 DEF WorldStep, SessionDies, SessionCreated, Crash, LockFree, stores
      <3>4. CASE PollEnumerate  BY <2>1, <3>4 DEF PollEnumerate, stores
      <3>5. CASE UNCHANGED vars  BY <2>1, <3>5 DEF vars, stores
      <3> QED  BY <1>1, <3>1, <3>2, <3>3, <3>4, <3>5 DEF Next
    <2>3. CASE PollApply  BY <1>1, <2>3, PollDropsOrphans
    <2>4. CASE RenameSeen /\ MigrateInPart(journal.from, journal.to)
      <3>1. queue' = MovedQueue(journal.from, journal.to)  BY <2>4 DEF MigrateInPart
      <3> QED  BY <1>1, <2>4, <3>1, OverwrittenQueue
    <2> QED  BY <2>2, <2>3, <2>4
  <1>2. RInv /\ [Next]_vars => [Kept]_vars  BY <1>1
  <1>3. Spec => []RInv /\ [][Next]_vars  BY RenameInvariance DEF Spec
  <1> QED  BY <1>2, <1>3, PTL DEF LiveQueueKept

=============================================================================
