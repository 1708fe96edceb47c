--------------------------- MODULE PresenceProofs ---------------------------
(***************************************************************************)
(* Whatever the sessions, pairs, polls, deaths of the tmux server and      *)
(* restores: what was lost is offered, what was closed is not, and the     *)
(* pair recorded for a session is the one that made it, but for the cases  *)
(* the properties name.                                                    *)
(***************************************************************************)
EXTENDS Presence, TLAPS

Makers   == Pairs \cup {"none", "hand"}
MaybePair == Pairs \cup {"none"}

Manifest == [epoch : Nat, sessions : SUBSET Names, renamed : SUBSET Names,
             pending : SUBSET Names, pendingRenamed : SUBSET Names,
             created_with : [Names -> MaybePair]]

History == [lost : SUBSET Names, raced : SUBSET Names, closing : SUBSET Names,
            closed : SUBSET Names, returned : SUBSET Names, mine : SUBSET Names,
            excused : SUBSET Names]

NothingRuns == [phase : {"idle"}]
Polling     == [phase : {"probe"}, names : SUBSET Names, under : Nat]
Updating    == [phase : {"update"}, names : SUBSET Names, under : Nat, epoch : Nat,
                read : Manifest]
Creating    == [phase : {"spawn", "observe"}, want : Names, pair : Pairs,
                before : SUBSET Names]
Recording   == [phase : {"record"}, name : Names, pair : Pairs]
Planning    == [phase : {"next"}, left : SUBSET Names, force : BOOLEAN]
Restoring   == [phase : {"spawn", "verify"}, left : SUBSET Names, name : Names,
                pair : Pairs, force : BOOLEAN]

Types ==
  /\ server \in Nat /\ servers \in Nat
  /\ made \in [Names -> Makers]
  /\ manifest \in Manifest /\ history \in History
  /\ cache \subseteq Names /\ late \subseteq Names \X Pairs
  /\ poll \in NothingRuns \cup Polling \cup Updating
  /\ create \in NothingRuns \cup Creating \cup Recording
  /\ restore \in NothingRuns \cup Planning \cup Restoring

\* The epochs: a server is never older than one that was, and a poll that probed
\* under the server it listed knows that server.
Epochs ==
  /\ server \in {0, servers} /\ manifest.epoch <= servers
  /\ manifest.epoch = 0 => manifest.sessions = {}
  /\ poll.phase # "idle" => poll.under \in 1..servers
  /\ poll.phase = "update" => /\ poll.epoch <= servers
                              /\ poll.epoch = server \/ poll.under # server

\* What was lost is not live, nor in a list of the server that runs; and as long as
\* it waits in the record only, the record is that of an earlier server.
Lost ==
  /\ history.lost \cap Live = {}
  /\ poll.phase # "idle" /\ poll.under = server => history.lost \cap poll.names = {}
  /\ \A n \in history.lost \ (manifest.pending \cup history.raced) :
       n \in manifest.sessions /\ manifest.epoch # server

\* What was closed is not live, and once a poll noticed, nowhere on record; what is
\* live or closed and still pending came back.
Closing ==
  /\ (history.closing \cup history.closed) \cap Live = {}
  /\ history.closed \cap manifest.sessions = {}
  /\ poll.phase # "idle" => history.closed \cap poll.names = {}
  /\ (Live \cup history.closing \cup history.closed) \cap manifest.pending
       \subseteq history.returned

\* What the running creation made is live and its pair's.
Mine ==
  /\ create.phase \in {"idle", "spawn"} => history.mine = {}
  /\ \A n \in history.mine : made[n] = create.pair

IInv == Types /\ Epochs /\ Lost /\ Closing /\ Mine /\ PairFitsSession

-----------------------------------------------------------------------------
(* What the operators do, field by field *)

LEMMA PairsAreReal == \A p \in Pairs : p # "none" /\ p # "hand"
  BY DefaultAssumption

LEMMA KeepType ==
    ASSUME NEW f \in [Names -> MaybePair], NEW names
    PROVE  /\ Keep(f, names) \in [Names -> MaybePair]
           /\ \A n \in Names : Keep(f, names)[n] = IF n \in names THEN f[n] ELSE "none"
  BY DEF Keep, MaybePair

LEMMA PairForType ==
    ASSUME Types, NEW n \in Names
    PROVE  /\ Recorded(n) \in MaybePair /\ PairFor(n) \in Pairs
           /\ Recorded(n) # "none" => PairFor(n) = Recorded(n)
           /\ Recorded(n) = "none" => PairFor(n) = DefaultPair
  BY DefaultAssumption DEF Types, Manifest, MaybePair, Recorded, PairFor

\* What an update leaves: nothing changes without an epoch; under a new epoch what
\* is missing becomes pending; the record of a live session is dropped only if the
\* list has not got it.
LEMMA UpdateFields ==
    ASSUME NEW m \in Manifest, NEW epoch \in Nat, NEW names \in SUBSET Names,
           NEW u, u = update_manifest(m, epoch, names)
    PROVE  /\ u \in Manifest
           /\ epoch = 0 => u = m
           /\ epoch # 0 => u.epoch = epoch /\ u.sessions = names
           /\ epoch = 0 \/ m.epoch = 0 \/ epoch = m.epoch => u.pending = m.pending
           /\ epoch # 0 /\ m.epoch # 0 /\ epoch # m.epoch
                => u.pending = m.pending \cup (m.sessions \ names)
           /\ \A n \in Names :
                \/ u.created_with[n] = m.created_with[n]
                \/ /\ epoch # 0 /\ n \notin names /\ m.created_with[n] # "none"
                   /\ n \in m.sessions \/ epoch # m.epoch
<1> DEFINE seen == Seen(m, epoch, names)
<1>1. /\ seen \in Manifest /\ seen.epoch = epoch /\ seen.sessions = names
      /\ seen.pending = m.pending /\ seen.created_with = m.created_with
      /\ seen.pendingRenamed = m.pendingRenamed
  BY DEF Seen, Manifest
<1>2. m.created_with \in [Names -> MaybePair]
  BY DEF Manifest
<1>3. CASE epoch = 0
  BY <1>3 DEF update_manifest
<1>4. CASE epoch # 0 /\ m.epoch = 0
  <2>1. u = seen
    BY <1>4 DEF update_manifest
  <2> HIDE DEF seen
  <2> QED
    BY <1>1, <1>4, <2>1
<1>5. CASE epoch # 0 /\ m.epoch # 0 /\ m.epoch = epoch
  <2> DEFINE kept == Closed(m, names)
  <2>1. u = [seen EXCEPT !.created_with = kept]
    BY <1>5 DEF update_manifest
  <2>2. /\ kept \in [Names -> MaybePair]
        /\ \A n \in Names : kept[n] = IF n \in Names \ (m.sessions \ names)
                                      THEN m.created_with[n] ELSE "none"
    BY <1>2, KeepType DEF Closed
  <2> HIDE DEF seen, kept
  <2>3. /\ u \in Manifest /\ u.epoch = epoch /\ u.sessions = names
        /\ u.pending = m.pending /\ u.created_with = kept
    BY <1>1, <2>1, <2>2 DEF Manifest
  <2> QED
    BY <1>5, <2>2, <2>3
<1>6. CASE epoch # 0 /\ m.epoch # 0 /\ m.epoch # epoch
  <2> DEFINE lost == m.sessions \ names
             pending == m.pending \cup lost
             kept == Keep(m.created_with, names \cup pending)
             renamed == seen.pendingRenamed \cup (m.renamed \cap lost)
  <2>1. u = [seen EXCEPT !.pending = pending, !.pendingRenamed = renamed,
                         !.created_with = kept]
    <3>1. u = ColdStart(m, epoch, names)
      BY <1>6 DEF update_manifest
    <3>2. seen.created_with = m.created_with
      BY <1>1
    <3> QED
      BY <3>1, <3>2 DEF ColdStart
  <2>2. /\ kept \in [Names -> MaybePair]
        /\ \A n \in Names : kept[n] = IF n \in names \cup pending
                                      THEN m.created_with[n] ELSE "none"
    BY <1>2, KeepType
  <2>3. pending \in SUBSET Names /\ renamed \in SUBSET Names
    BY <1>1 DEF Manifest
  <2> HIDE DEF seen, kept, pending, renamed
  <2>4. /\ u \in Manifest /\ u.epoch = epoch /\ u.sessions = names
        /\ u.pending = pending /\ u.created_with = kept
    BY <1>1, <2>1, <2>2, <2>3 DEF Manifest
  <2> QED
    BY <1>6, <2>2, <2>4 DEF pending
<1> QED
  BY <1>3, <1>4, <1>5, <1>6

LEMMA MineLives ==
    ASSUME IInv PROVE history.mine \subseteq Live
<1> SUFFICES ASSUME NEW n \in history.mine PROVE n \in Live
  OBVIOUS
<1>1. n \in Names /\ made[n] = create.pair /\ create.phase \in {"observe", "record"}
  BY DEF IInv, Types, History, Mine, NothingRuns, Creating, Recording
<1>2. create.pair \in Pairs
  BY <1>1 DEF IInv, Types, NothingRuns, Creating, Recording
<1> QED
  BY <1>1, <1>2, PairsAreReal DEF Live

-----------------------------------------------------------------------------
(* What happens to sessions *)

\* A session starts under a name that was not live.
LEMMA StartsFacts ==
    ASSUME Types, NEW n \in Names, NEW by \in Pairs \cup {"hand"}, Starts(n, by)
    PROVE  /\ server' \in Nat /\ servers' \in Nat /\ made' \in [Names -> Makers]
           /\ n \notin Live /\ Live' = Live \cup {n}
           /\ made'[n] = by /\ \A m \in Names \ {n} : made'[m] = made[m]
           /\ \/ UNCHANGED <<server, servers>>
              \/ server = 0 /\ servers' = servers + 1 /\ server' = servers'
<1>1. made' = [made EXCEPT ![n] = by] /\ made[n] = "none" /\ by \in Makers /\ by # "none"
  BY PairsAreReal DEF Starts, Makers
<1>2. made' \in [Names -> Makers] /\ made'[n] = by /\ \A m \in Names \ {n} : made'[m] = made[m]
  BY <1>1 DEF Types
<1>3. \/ UNCHANGED <<server, servers>>
      \/ server = 0 /\ servers' = servers + 1 /\ server' = servers'
  BY DEF Starts
<1>4. server' \in Nat /\ servers' \in Nat
  BY <1>3 DEF Types
<1>5. n \notin Live /\ Live' = Live \cup {n}
  BY <1>1, <1>2 DEF Live
<1> QED
  BY <1>2, <1>3, <1>4, <1>5

\* Its name is not lost or closed any more; if it was pending, it came back.
LEMMA BirthKept ==
    ASSUME IInv, NEW n \in Names, NEW by \in Pairs \cup {"hand"}, NEW b \in BOOLEAN,
           Starts(n, by), UNCHANGED <<manifest, poll>>,
           history'.lost = history.lost \ {n}, history'.raced = history.raced \ {n},
           history'.closing = history.closing \ {n}, history'.closed = history.closed \ {n},
           history'.returned = IF n \in manifest.pending THEN history.returned \cup {n}
                               ELSE history.returned,
           history'.excused = IF b THEN history.excused \cup {n} ELSE history.excused,
           b \/ PairFor(n) = IF by = "hand" THEN DefaultPair ELSE by
    PROVE  Epochs' /\ Lost' /\ Closing' /\ PairFitsSession'
<1>1. /\ server \in Nat /\ servers \in Nat
      /\ n \notin Live /\ Live' = Live \cup {n}
      /\ made'[n] = by /\ \A m \in Names \ {n} : made'[m] = made[m]
      /\ \/ UNCHANGED <<server, servers>>
         \/ server = 0 /\ servers' = servers + 1 /\ server' = servers'
  BY StartsFacts DEF IInv, Types
<1>2. Epochs'
  <2>1. Epochs /\ manifest \in Manifest
    BY DEF IInv, Types
  <2>2. CASE UNCHANGED <<server, servers>>
    BY <2>1, <2>2 DEF Epochs
  <2>3. CASE server = 0 /\ servers' = servers + 1 /\ server' = servers'
    <3>1. server' \in {0, servers'} /\ manifest'.epoch <= servers'
      BY <1>1, <2>1, <2>3 DEF Epochs, Manifest
    <3>2. manifest'.epoch = 0 => manifest'.sessions = {}
      BY <2>1 DEF Epochs
    <3>3. poll'.phase # "idle" => poll'.under \in 1..servers'
      BY <1>1, <2>1, <2>3 DEF Epochs
    <3>4. poll'.phase = "update" => /\ poll'.epoch <= servers'
                                    /\ poll'.epoch = server' \/ poll'.under # server'
      BY <1>1, <2>1, <2>3 DEF Epochs, IInv, Types, NothingRuns, Polling, Updating
    <3> QED
      BY <3>1, <3>2, <3>3, <3>4 DEF Epochs
  <2> QED
    BY <1>1, <2>2, <2>3
<1>3. \/ server' = server
      \/ /\ manifest'.epoch # server'
         /\ poll'.phase # "idle" => poll'.under # server'
  BY <1>1 DEF IInv, Epochs
<1>4. Lost'
  BY <1>1, <1>3 DEF IInv, Lost
<1>5. Closing'
  BY <1>1 DEF IInv, Closing
<1>6. ASSUME NEW m \in Live' PROVE Fits(m)' \/ m \in history'.excused
  <2>1. CASE m = n
    BY <1>1, <2>1 DEF Fits, PairFor, Recorded
  <2>2. CASE m # n
    <3>1. m \in Live /\ made'[m] = made[m]
      BY <1>1, <2>2 DEF Live
    <3>2. Fits(m) \/ m \in history.excused
      BY <3>1 DEF IInv, PairFitsSession
    <3> QED
      BY <3>1, <3>2 DEF Fits, PairFor, Recorded
  <2> QED
    BY <2>1, <2>2
<1> QED
  BY <1>2, <1>4, <1>5, <1>6 DEF PairFitsSession

\* Sessions end, and maybe the server with them.
LEMMA DeathKept ==
    ASSUME IInv, NEW gone \in SUBSET Names,
           made' \in [Names -> Makers], Live' = Live \ gone,
           \A m \in Names \ gone : made'[m] = made[m],
           UNCHANGED <<manifest, poll, servers>>, server' \in {0, server},
           history'.returned = history.returned,
           history'.raced = history.raced, history'.closed = history.closed,
           \A m \in history'.closing \ history.closing : m \in Live \cap gone,
           history'.excused = history.excused \ gone,
           \/ history'.lost = history.lost
           \/ /\ server' = 0
              /\ history'.lost = history.lost \cup (Live \cap gone \cap manifest.sessions)
    PROVE  Epochs' /\ Lost' /\ Closing' /\ PairFitsSession'
<1>1. server \in Nat /\ servers \in Nat /\ manifest \in Manifest
  BY DEF IInv, Types
<1>2. Epochs'
  BY <1>1 DEF IInv, Epochs
<1>3. Lost'
  <2>1. history'.lost \cap Live' = {}
    BY DEF IInv, Lost
  <2>2. poll'.phase # "idle" /\ poll'.under = server' => history'.lost \cap poll'.names = {}
    BY <1>1 DEF IInv, Lost, Epochs
  <2>3. ASSUME NEW m \in history'.lost \ (manifest.pending \cup history'.raced)
        PROVE  m \in manifest.sessions /\ manifest.epoch # server'
    <3>1. m \in manifest.sessions
      BY DEF IInv, Lost
    <3>2. manifest.epoch # 0
      BY <3>1 DEF IInv, Epochs
    <3> QED
      BY <3>1, <3>2 DEF IInv, Lost
  <2> QED
    BY <2>1, <2>2, <2>3 DEF Lost
<1>4. Closing'
  BY DEF IInv, Closing
<1>5. ASSUME NEW m \in Live' PROVE Fits(m)' \/ m \in history'.excused
  <2>1. m \in Live /\ m \notin gone /\ m \in Names
    BY DEF Live
  <2>2. Fits(m) \/ m \in history.excused
    BY <2>1 DEF IInv, PairFitsSession
  <2> QED
    BY <2>1, <2>2 DEF Fits, PairFor, Recorded
<1> QED
  BY <1>2, <1>3, <1>4, <1>5 DEF PairFitsSession

LEMMA StartByHandKept ==
    ASSUME IInv, NEW n \in Names, StartByHand(n) PROVE IInv'
<1> DEFINE b == Outlived(n)
<1>1. Starts(n, "hand") /\ history' = Reborn(history, n, b)
      /\ UNCHANGED <<manifest, cache, poll, create, restore, late>>
  BY DEF StartByHand, taskVars
<1>2. "hand" \in Pairs \cup {"hand"} /\ b \in BOOLEAN
  BY DEF Outlived
<1>3. b \/ PairFor(n) = DefaultPair
  BY DEF Outlived, PairFor
<1> HIDE DEF b
<1>4. /\ history' \in History
      /\ history'.lost = history.lost \ {n} /\ history'.raced = history.raced \ {n}
      /\ history'.closing = history.closing \ {n} /\ history'.closed = history.closed \ {n}
      /\ history'.returned = IF n \in manifest.pending THEN history.returned \cup {n}
                             ELSE history.returned
      /\ history'.mine = history.mine
      /\ history'.excused = IF b THEN history.excused \cup {n} ELSE history.excused
  <2>1. history \in History
    BY DEF IInv, Types
  <2> QED
    BY <1>1, <2>1 DEF Reborn, History
<1>5. /\ server' \in Nat /\ servers' \in Nat /\ made' \in [Names -> Makers]
      /\ n \notin Live /\ \A m \in Names \ {n} : made'[m] = made[m]
  BY <1>1, <1>2, StartsFacts DEF IInv, Types
<1>6. Types'
  BY <1>1, <1>4, <1>5 DEF IInv, Types
<1>7. Epochs' /\ Lost' /\ Closing' /\ PairFitsSession'
  BY <1>1, <1>2, <1>3, <1>4, BirthKept
<1>8. Mine'
  BY <1>1, <1>4, <1>5, MineLives DEF IInv, Mine, History, Types
<1> QED
  BY <1>6, <1>7, <1>8 DEF IInv

\* The phases of the three tasks.
LEMMA PhaseFacts ==
    ASSUME Types
    PROVE  /\ poll.phase \in {"idle", "probe", "update"}
           /\ poll.phase = "probe" => poll \in Polling
           /\ poll.phase = "update" => poll \in Updating
           /\ create.phase \in {"idle", "spawn", "observe", "record"}
           /\ create.phase \in {"spawn", "observe"} => create \in Creating
           /\ create.phase = "record" => create \in Recording
           /\ restore.phase \in {"idle", "next", "spawn", "verify"}
           /\ restore.phase = "next" => restore \in Planning
           /\ restore.phase \in {"spawn", "verify"} => restore \in Restoring
  BY DEF Types, NothingRuns, Polling, Updating, Creating, Recording, Planning, Restoring

LEMMA CloseKept ==
    ASSUME IInv, NEW n \in Names, EndSession(n),
           history' = [Ended(history, {n}) EXCEPT !.closing = @ \cup {n}],
           UNCHANGED <<manifest, cache, taskVars, servers, late>>
    PROVE  IInv'
<1>1. /\ history' \in History /\ history'.closing = history.closing \cup {n}
      /\ history'.mine = history.mine \ {n} /\ history'.excused = history.excused \ {n}
      /\ history'.lost = history.lost /\ history'.raced = history.raced
      /\ history'.closed = history.closed /\ history'.returned = history.returned
  <2>1. history \in History
    BY DEF IInv, Types
  <2> QED
    BY <2>1 DEF Ended, History
<1>2. /\ made' \in [Names -> Makers] /\ Live' = Live \ {n} /\ n \in Live
      /\ \A m \in Names \ {n} : made'[m] = made[m]
  <2>1. made \in [Names -> Makers] /\ made[n] # "none" /\ made' = [made EXCEPT ![n] = "none"]
    BY DEF IInv, Types, EndSession
  <2>2. made' \in [Names -> Makers] /\ made'[n] = "none"
        /\ \A m \in Names \ {n} : made'[m] = made[m]
    BY <2>1 DEF Makers
  <2>3. Live' = Live \ {n} /\ n \in Live
    BY <2>1, <2>2 DEF Live
  <2> QED
    BY <2>2, <2>3
<1>3. server' \in {0, server}
  BY DEF EndSession
<1>4. UNCHANGED <<manifest, cache, poll, create, restore, servers, late>>
  BY DEF taskVars
<1>5. Epochs' /\ Lost' /\ Closing' /\ PairFitsSession'
  BY <1>1, <1>2, <1>3, <1>4, DeathKept
<1>6. Types'
  BY <1>1, <1>2, <1>3, <1>4 DEF IInv, Types
<1>7. Mine'
  BY <1>1, <1>2, <1>4 DEF IInv, Mine, Types, History
<1> QED
  BY <1>5, <1>6, <1>7 DEF IInv

LEMMA ServerDiesKept == ASSUME IInv, ServerDies PROVE IInv'
<1>1. history \in History
  BY DEF IInv, Types
<1> DEFINE fell == Live \cap manifest.sessions
<1>2. /\ history' \in History /\ history'.lost = history.lost \cup fell
      /\ history'.mine = history.mine \ Names /\ history'.excused = history.excused \ Names
      /\ history'.closing = history.closing /\ history'.raced = history.raced
      /\ history'.closed = history.closed /\ history'.returned = history.returned
  <2>1. fell \subseteq Names
    BY DEF Live
  <2>2. history' = [Ended(history, Names) EXCEPT !.lost = @ \cup fell]
    BY DEF ServerDies
  <2> HIDE DEF fell
  <2> QED
    BY <1>1, <2>1, <2>2 DEF Ended, History
<1>3. made' \in [Names -> Makers] /\ Live' = Live \ Names
  BY DEF ServerDies, Makers, Live
<1>4. server' = 0 /\ server' \in Nat
      /\ UNCHANGED <<manifest, cache, poll, create, restore, servers, late>>
  BY DEF ServerDies, taskVars
<1>5. Epochs' /\ Lost' /\ Closing' /\ PairFitsSession'
  <2>1. history'.lost = history.lost \cup (Live \cap Names \cap manifest.sessions)
    BY <1>2 DEF Live
  <2> QED
    BY <1>2, <1>3, <1>4, <2>1, DeathKept
<1>6. Types'
  BY <1>2, <1>3, <1>4 DEF IInv, Types
<1>7. Mine'
  BY <1>1, <1>2 DEF Mine, History
<1> QED
  BY <1>5, <1>6, <1>7 DEF IInv

\* The creation's command, in time or late, and a restore's, make a session.
LEMMA CreateSpawnsKept == ASSUME IInv, NEW n \in Names, CreateSpawns(n) PROVE IInv'
<1>1. /\ create.phase = "spawn" /\ create \in Creating /\ history \in History
      /\ Starts(n, create.pair) /\ create' = [create EXCEPT !.phase = "observe"]
      /\ history' = [Reborn(history, n, TRUE) EXCEPT !.mine = {n}]
      /\ UNCHANGED <<manifest, cache, poll, restore, late>>
  BY PhaseFacts DEF CreateSpawns, IInv, Types
<1>2. /\ create.pair \in Pairs /\ create' \in Creating
      /\ create'.phase = "observe" /\ create'.pair = create.pair
  BY <1>1 DEF Creating
<1>3. /\ history' \in History
      /\ history'.lost = history.lost \ {n} /\ history'.raced = history.raced \ {n}
      /\ history'.closing = history.closing \ {n} /\ history'.closed = history.closed \ {n}
      /\ history'.returned = IF n \in manifest.pending THEN history.returned \cup {n}
                             ELSE history.returned
      /\ history'.mine = {n}
      /\ history'.excused = history.excused \cup {n}
  BY <1>1 DEF Reborn, History
<1>4. /\ server' \in Nat /\ servers' \in Nat /\ made' \in [Names -> Makers]
      /\ made'[n] = create.pair
  BY <1>1, <1>2, StartsFacts DEF IInv, Types
<1>5. Types'
  BY <1>1, <1>2, <1>3, <1>4 DEF IInv, Types
<1>6. Epochs' /\ Lost' /\ Closing' /\ PairFitsSession'
  BY <1>1, <1>2, <1>3, BirthKept
<1>7. Mine'
  BY <1>2, <1>3, <1>4 DEF Mine
<1> QED
  BY <1>5, <1>6, <1>7 DEF IInv

LEMMA LateStartKept == ASSUME IInv, NEW c \in late, LateStart(c) PROVE IInv'
<1> DEFINE n == c[1]
           by == c[2]
           b == Recorded(n) # by
<1>1. /\ n \in Names /\ by \in Pairs /\ history \in History
      /\ Starts(n, by) /\ history' = Reborn(history, n, b) /\ late' = late \ {c}
      /\ UNCHANGED <<manifest, cache, poll, create, restore>>
  BY DEF LateStart, IInv, Types, taskVars
<1>2. by # "none" /\ by # "hand"
  BY <1>1, PairsAreReal
<1>3. b \/ PairFor(n) = by
  BY <1>2 DEF PairFor
<1>b. b \in BOOLEAN
  OBVIOUS
<1> HIDE DEF n, by, b
<1>4. /\ history' \in History
      /\ history'.lost = history.lost \ {n} /\ history'.raced = history.raced \ {n}
      /\ history'.closing = history.closing \ {n} /\ history'.closed = history.closed \ {n}
      /\ history'.returned = IF n \in manifest.pending THEN history.returned \cup {n}
                             ELSE history.returned
      /\ history'.mine = history.mine
      /\ history'.excused = IF b THEN history.excused \cup {n} ELSE history.excused
  BY <1>1 DEF Reborn, History
<1>5. /\ server' \in Nat /\ servers' \in Nat /\ made' \in [Names -> Makers]
      /\ n \notin Live /\ \A m \in Names \ {n} : made'[m] = made[m]
  BY <1>1, StartsFacts DEF IInv, Types
<1>6. Types'
  BY <1>1, <1>4, <1>5 DEF IInv, Types
<1>7. Epochs' /\ Lost' /\ Closing' /\ PairFitsSession'
  BY <1>1, <1>2, <1>3, <1>b, <1>4, BirthKept
<1>8. Mine'
  BY <1>1, <1>4, <1>5, MineLives DEF IInv, Mine, History, Types
<1> QED
  BY <1>6, <1>7, <1>8 DEF IInv

LEMMA RestoreSpawnsKept == ASSUME IInv, RestoreSpawns PROVE IInv'
<1> DEFINE n == restore.name
           by == restore.pair
           b == PairFor(n) # by
<1>1. /\ restore \in Restoring /\ history \in History
      /\ n \in Names /\ by \in Pairs /\ restore' = [restore EXCEPT !.phase = "verify"]
      /\ UNCHANGED <<manifest, cache, poll, create, late>>
  BY PhaseFacts DEF RestoreSpawns, Restoring, IInv, Types
<1>2. restore' \in Restoring
  BY <1>1 DEF Restoring
<1>3. CASE n \in Live
  <2>1. UNCHANGED <<server, made, servers, history>>
    BY <1>3 DEF RestoreSpawns, tmuxVars
  <2> QED
    BY <1>1, <1>2, <2>1 DEF IInv, Types, Epochs, Lost, Closing, Mine, PairFitsSession, Live,
                            Fits, PairFor, Recorded
<1>4. CASE n \notin Live
  <2>1. Starts(n, by) /\ history' = Reborn(history, n, b)
    BY <1>4 DEF RestoreSpawns
  <2>2. by # "none" /\ by # "hand" /\ by \in Pairs \cup {"hand"}
    BY <1>1, PairsAreReal
  <2>3. b \in BOOLEAN /\ (b \/ PairFor(n) = IF by = "hand" THEN DefaultPair ELSE by)
    BY <2>2
  <2> HIDE DEF n, by, b
  <2>4. /\ history' \in History
        /\ history'.lost = history.lost \ {n} /\ history'.raced = history.raced \ {n}
        /\ history'.closing = history.closing \ {n} /\ history'.closed = history.closed \ {n}
        /\ history'.returned = IF n \in manifest.pending THEN history.returned \cup {n}
                               ELSE history.returned
        /\ history'.mine = history.mine
        /\ history'.excused = IF b THEN history.excused \cup {n} ELSE history.excused
    BY <1>1, <2>1 DEF Reborn, History
  <2>5. /\ server' \in Nat /\ servers' \in Nat /\ made' \in [Names -> Makers]
        /\ n \notin Live /\ \A m \in Names \ {n} : made'[m] = made[m]
    BY <1>1, <2>1, <2>2, StartsFacts DEF IInv, Types
  <2>6. Types'
    BY <1>1, <1>2, <2>4, <2>5 DEF IInv, Types
  <2>7. Epochs' /\ Lost' /\ Closing' /\ PairFitsSession'
    BY <1>1, <2>1, <2>2, <2>3, <2>4, BirthKept
  <2>8. Mine'
    BY <1>1, <2>4, <2>5, MineLives DEF IInv, Mine, History, Types
  <2> QED
    BY <2>6, <2>7, <2>8 DEF IInv
<1> QED
  BY <1>3, <1>4

-----------------------------------------------------------------------------
(* The tasks between their effects *)

\* Nothing happens to sessions, to the manifest or to the poll.
LEMMA NothingMoves ==
    ASSUME IInv, UNCHANGED <<server, made, manifest, poll, servers, history>>,
           cache' = cache, late' \subseteq Names \X Pairs,
           create' \in NothingRuns \cup Creating \cup Recording,
           restore' \in NothingRuns \cup Planning \cup Restoring,
           Mine'
    PROVE  IInv'
<1>1. Types'
  BY DEF IInv, Types
<1>2. Epochs' /\ Lost' /\ Closing' /\ PairFitsSession'
  BY DEF IInv, Epochs, Lost, Closing, PairFitsSession, Live, Fits, PairFor, Recorded
<1> QED
  BY <1>1, <1>2 DEF IInv

LEMMA RemainingType ==
    ASSUME restore \in Restoring PROVE Remaining \in NothingRuns \cup Planning
  BY DEF Restoring, Remaining, Idle, NothingRuns, Planning

LEMMA CreateMovesKept ==
    ASSUME IInv,
           \/ \E n \in Names, p \in Pairs : CreateBegins(n, p)
           \/ CreateFindsTaken \/ CreateIsSlow \/ CreateFails \/ CreateObserves
    PROVE  IInv'
<1>0. UNCHANGED <<server, made, manifest, cache, poll, servers, restore, history>>
  BY DEF CreateBegins, CreateFindsTaken, CreateIsSlow, CreateFails, CreateObserves, tmuxVars,
         boundVars
<1>1. ASSUME NEW n \in Names, NEW p \in Pairs, CreateBegins(n, p) PROVE IInv'
  <2>1. create' = [phase |-> "spawn", want |-> n, pair |-> p, before |-> Live]
        /\ create.phase = "idle" /\ late' = late
    BY <1>1 DEF CreateBegins
  <2>2. create' \in Creating /\ create'.phase = "spawn"
    BY <2>1 DEF Creating, Live
  <2>3. history.mine = {}
    BY <2>1 DEF IInv, Mine
  <2>4. Mine'
    BY <1>0, <2>3 DEF Mine
  <2> QED
    BY <1>0, <2>1, <2>2, <2>4, NothingMoves DEF IInv, Types
<1>2. CASE create.phase = "spawn" /\ create' = [create EXCEPT !.phase = "observe"]
           /\ late' \subseteq Names \X Pairs
  <2>1. create \in Creating /\ history.mine = {}
    BY <1>2, PhaseFacts DEF IInv, Mine
  <2>2. create' \in Creating
    BY <1>2, <2>1 DEF Creating
  <2>3. Mine'
    BY <1>0, <2>1 DEF Mine
  <2> QED
    BY <1>0, <1>2, <2>2, <2>3, NothingMoves DEF IInv, Types
<1>3. ASSUME CreateFindsTaken PROVE IInv'
  BY <1>2, <1>3 DEF CreateFindsTaken, IInv, Types
<1>4. ASSUME CreateIsSlow PROVE IInv'
  <2>1. create \in Creating
    BY <1>4, PhaseFacts DEF CreateIsSlow, IInv
  <2>2. late' \subseteq Names \X Pairs
    BY <1>4, <2>1 DEF CreateIsSlow, Creating, IInv, Types
  <2> QED
    BY <1>2, <1>4, <2>2 DEF CreateIsSlow
<1>5. ASSUME CreateFails PROVE IInv'
  <2>1. create.phase = "spawn" /\ create' = Idle /\ late' = late
    BY <1>5 DEF CreateFails
  <2>2. create' \in NothingRuns /\ history.mine = {}
    BY <2>1 DEF Idle, NothingRuns, IInv, Mine
  <2>3. Mine'
    BY <1>0, <2>2 DEF Mine
  <2> QED
    BY <1>0, <2>1, <2>2, <2>3, NothingMoves DEF IInv, Types
<1>6. ASSUME CreateObserves PROVE IInv'
  <2>1. create.phase = "observe" /\ create \in Creating /\ late' = late
    BY <1>6, PhaseFacts DEF CreateObserves, IInv
  <2>2. PICK n \in Candidates : create' = [phase |-> "record", name |-> n, pair |-> create.pair]
    BY <1>6 DEF CreateObserves
  <2>3. n \in Names
    BY <2>1 DEF Candidates, Arrivals, Live, Creating
  <2>4. create' \in Recording /\ create'.pair = create.pair /\ create'.phase = "record"
    BY <2>1, <2>2, <2>3 DEF Creating, Recording
  <2>5. Mine'
    BY <1>0, <2>4 DEF IInv, Mine
  <2> QED
    BY <1>0, <2>1, <2>4, <2>5, NothingMoves DEF IInv, Types
<1> QED
  BY <1>1, <1>3, <1>4, <1>5, <1>6

LEMMA RestoreMovesKept ==
    ASSUME IInv,
           \/ \E f \in BOOLEAN : RestorePlans(f)
           \/ \E n \in Names, f, r \in BOOLEAN : RestoreChooses(n, f, r)
           \/ RestoreFails \/ RestoreStops
    PROVE  IInv'
<1>0. UNCHANGED <<server, made, manifest, cache, poll, servers, create, late, history>>
  BY DEF RestorePlans, RestoreChooses, RestoreFails, RestoreStops, tmuxVars, boundVars
<1>1. Mine'
  BY <1>0 DEF IInv, Mine
<1>2. Idle \in NothingRuns
  BY DEF Idle, NothingRuns
<1>3. ASSUME NEW f \in BOOLEAN, RestorePlans(f)
      PROVE  restore' \in NothingRuns \cup Planning \cup Restoring
  <2>1. manifest.pending \subseteq Names
    BY DEF IInv, Types, Manifest
  <2> QED
    BY <1>3, <2>1 DEF RestorePlans, Planning
<1>4. ASSUME NEW n \in Names, NEW f \in BOOLEAN, NEW r \in BOOLEAN, RestoreChooses(n, f, r)
      PROVE  restore' \in NothingRuns \cup Planning \cup Restoring
  <2>1. restore \in Planning /\ PairFor(n) \in Pairs
    BY <1>4, PhaseFacts, PairForType DEF RestoreChooses, IInv
  <2> DEFINE left == restore.left \ {n}
             chosen == [phase |-> "spawn", left |-> left, name |-> n, pair |-> PairFor(n),
                        force |-> restore.force]
  <2>2. restore' \in {chosen, Idle, [restore EXCEPT !.left = left]}
    BY <1>4 DEF RestoreChooses
  <2>3. chosen \in Restoring /\ [restore EXCEPT !.left = left] \in Planning
    BY <2>1 DEF Planning, Restoring
  <2> QED
    BY <1>2, <2>2, <2>3
<1>5. ASSUME RestoreFails PROVE restore' \in NothingRuns \cup Planning \cup Restoring
  <2>1. restore \in Restoring
    BY <1>5, PhaseFacts DEF RestoreFails, IInv
  <2> QED
    BY <1>2, <1>5, <2>1, RemainingType DEF RestoreFails
<1>6. ASSUME RestoreStops PROVE restore' \in NothingRuns \cup Planning \cup Restoring
  BY <1>2, <1>6 DEF RestoreStops
<1>7. restore' \in NothingRuns \cup Planning \cup Restoring
  BY <1>3, <1>4, <1>5, <1>6
<1> QED
  BY <1>0, <1>1, <1>7, NothingMoves DEF IInv, Types

-----------------------------------------------------------------------------
(* The poll *)

\* The list and the probe: what they read of the server that runs is true of it.
LEMMA PollReadsKept == ASSUME IInv, PollEnumerates \/ PollProbes PROVE IInv'
<1>1. /\ UNCHANGED <<server, made, servers, manifest, create, restore, late, history>>
      /\ manifest \in Manifest /\ server \in Nat /\ servers \in Nat
  BY DEF PollEnumerates, PollProbes, tmuxVars, boundVars, IInv, Types
<1>2. Live' = Live
  BY <1>1 DEF Live
<1>3. Mine' /\ PairFitsSession'
  BY <1>1, <1>2 DEF IInv, Mine, PairFitsSession, Fits, PairFor, Recorded
<1>4. CASE PollEnumerates
  <2>1. /\ poll' = [phase |-> "probe", names |-> Live, under |-> server]
        /\ server # 0 /\ cache' = Live /\ Live \subseteq Names
    BY <1>4 DEF PollEnumerates, Live
  <2>2. poll' \in Polling /\ poll'.phase = "probe" /\ poll'.names = Live /\ poll'.under = server
    BY <1>1, <2>1 DEF Polling
  <2>3. Types'
    BY <1>1, <2>1, <2>2 DEF IInv, Types
  <2>4. Epochs'
    BY <1>1, <2>1, <2>2 DEF IInv, Epochs
  <2>5. Lost' /\ Closing'
    BY <1>1, <1>2, <2>2 DEF IInv, Lost, Closing
  <2> QED
    BY <1>3, <2>3, <2>4, <2>5 DEF IInv
<1>5. CASE PollProbes
  <2>1. /\ poll' = [phase |-> "update", names |-> poll.names, under |-> poll.under,
                    epoch |-> server, read |-> manifest]
        /\ poll.phase = "probe" /\ poll \in Polling /\ cache' = cache
    BY <1>5, PhaseFacts DEF PollProbes, IInv
  <2>2. /\ poll' \in Updating /\ poll'.phase = "update" /\ poll'.names = poll.names
        /\ poll'.under = poll.under /\ poll'.epoch = server
    BY <1>1, <2>1 DEF Polling, Updating
  <2>3. Types'
    BY <1>1, <2>1, <2>2 DEF IInv, Types
  <2>4. Epochs'
    BY <1>1, <2>1, <2>2 DEF IInv, Epochs
  <2>5. Lost' /\ Closing'
    BY <1>1, <1>2, <2>1, <2>2 DEF IInv, Lost, Closing
  <2> QED
    BY <1>3, <2>3, <2>4, <2>5 DEF IInv
<1> QED
  BY <1>4, <1>5

\* The update.  Judged by the list of the server that runs, what was lost becomes
\* pending; judged by an older list it is said to have raced.
LEMMA PollUpdatesKept == ASSUME IInv, PollUpdates PROVE IInv'
<1> DEFINE m == manifest
           u == manifest'
           h == history
           epoch == poll.epoch
           names == poll.names
           back == Live \cap (u.pending \ m.pending)
           dropped == {n \in Live \ names :
                         /\ epoch # 0 /\ Recorded(n) # "none"
                         /\ n \in m.sessions \/ epoch # m.epoch}
           raced == IF poll.under = server THEN h.raced ELSE h.raced \cup h.lost
           closed == IF epoch = m.epoch THEN h.closed \cup (h.closing \ names) ELSE h.closed
           closing == IF epoch # 0 THEN h.closing \cap names ELSE h.closing
<1>1. /\ poll \in Updating /\ poll.phase = "update" /\ m \in Manifest /\ h \in History
      /\ server \in Nat /\ servers \in Nat
      /\ epoch \in Nat /\ names \in SUBSET Names /\ Live \subseteq Names
  BY PhaseFacts DEF PollUpdates, IInv, Types, Updating, Live
<1>2. /\ UNCHANGED <<server, made, servers, cache, create, restore, late>> /\ poll' = Idle
      /\ u = update_manifest(m, epoch, names)
  BY DEF PollUpdates, ManifestRead, tmuxVars, boundVars
<1>3. Live' = Live
  BY <1>2 DEF Live
<1>4. /\ u \in Manifest
      /\ epoch = 0 => u = m
      /\ epoch # 0 => u.epoch = epoch /\ u.sessions = names
      /\ epoch = 0 \/ m.epoch = 0 \/ epoch = m.epoch => u.pending = m.pending
      /\ epoch # 0 /\ m.epoch # 0 /\ epoch # m.epoch
           => u.pending = m.pending \cup (m.sessions \ names)
  BY <1>1, <1>2, UpdateFields
<1>5. \A n \in Names :
        \/ u.created_with[n] = m.created_with[n]
        \/ /\ epoch # 0 /\ n \notin names /\ m.created_with[n] # "none"
           /\ n \in m.sessions \/ epoch # m.epoch
  BY <1>1, <1>2, UpdateFields
<1>6. history' = [h EXCEPT !.raced = raced, !.closed = closed, !.closing = closing,
                           !.returned = @ \cup back, !.excused = @ \cup dropped]
  BY <1>1 DEF PollUpdates, History
<1>7. dropped \subseteq Names /\ back \subseteq Names
  BY <1>1
<1>8. /\ history' \in History
      /\ history'.lost = h.lost /\ history'.raced = raced /\ history'.closing = closing
      /\ history'.closed = closed /\ history'.returned = h.returned \cup back
      /\ history'.mine = h.mine /\ history'.excused = h.excused \cup dropped
  <2>1. raced \subseteq Names /\ closed \subseteq Names /\ closing \subseteq Names
    BY <1>1 DEF History
  <2> HIDE DEF raced, closed, closing, back, dropped
  <2> QED
    BY <1>1, <1>6, <1>7, <2>1 DEF History
<1>9. poll' \in NothingRuns /\ poll'.phase = "idle"
  BY <1>2 DEF Idle, NothingRuns
<1>10. Types'
  BY <1>2, <1>4, <1>8, <1>9 DEF IInv, Types
<1>11. /\ server \in {0, servers} /\ m.epoch <= servers
       /\ m.epoch = 0 => m.sessions = {}
       /\ poll.under \in 1..servers /\ epoch <= servers
       /\ epoch = server \/ poll.under # server
  BY <1>1 DEF IInv, Epochs
<1>12. Epochs'
  <2>1. u.epoch <= servers /\ (u.epoch = 0 => u.sessions = {})
    BY <1>4, <1>11
  <2> QED
    BY <1>2, <1>9, <1>11, <2>1 DEF Epochs
<1>13. Lost'
  <2>1. h.lost \cap Live = {}
    BY DEF IInv, Lost
  <2>2. \A n \in h.lost \ (m.pending \cup h.raced) : n \in m.sessions /\ m.epoch # server
    BY DEF IInv, Lost
  <2>3. ASSUME NEW n \in h.lost, n \notin u.pending, n \notin raced PROVE FALSE
    <3>1. poll.under = server /\ n \notin h.raced
      BY <2>3
    <3>2. n \notin names
      BY <1>1, <3>1 DEF IInv, Lost
    <3>3. epoch = server /\ epoch # 0
      BY <1>11, <3>1
    <3>4. n \notin m.pending
      BY <1>4, <2>3
    <3>5. n \in m.sessions /\ m.epoch # server
      BY <2>2, <3>1, <3>4
    <3>6. m.epoch # 0
      BY <1>11, <3>5
    <3> QED
      BY <1>4, <2>3, <3>2, <3>3, <3>5, <3>6
  <2> HIDE DEF raced
  <2> QED
    BY <1>2, <1>3, <1>8, <1>9, <2>1, <2>3 DEF Lost
<1>14. Closing'
  <2>1. /\ (h.closing \cup h.closed) \cap Live = {}
        /\ h.closed \cap m.sessions = {}
        /\ h.closed \cap names = {}
        /\ (Live \cup h.closing \cup h.closed) \cap m.pending \subseteq h.returned
    BY <1>1 DEF IInv, Closing
  <2>2. (closing \cup closed) \cap Live = {}
    BY <2>1
  <2>3. closed \cap u.sessions = {}
    <3>1. CASE epoch = 0
      <4>1. u = m /\ (epoch = m.epoch => m.sessions = {})
        BY <1>4, <1>11, <3>1
      <4> QED
        BY <2>1, <4>1
    <3>2. CASE epoch # 0
      <4>1. u.sessions = names
        BY <1>4, <3>2
      <4> QED
        BY <2>1, <4>1
    <3> QED
      BY <3>1, <3>2
  <2>4. ASSUME NEW n \in u.pending, n \in Live \cup closing \cup closed
        PROVE  n \in h.returned \cup back
    <3>1. CASE n \in m.pending
      <4>1. n \in Live \cup h.closing \cup h.closed
        BY <2>4
      <4> QED
        BY <2>1, <3>1, <4>1
    <3>2. CASE n \notin m.pending
      <4>1. /\ epoch # 0 /\ epoch # m.epoch
            /\ n \in m.sessions /\ n \notin names
        BY <1>4, <3>2
      <4>2. n \notin closing /\ n \notin closed
        BY <2>1, <4>1
      <4> QED
        BY <2>4, <3>2, <4>2
    <3> QED
      BY <3>1, <3>2
  <2> HIDE DEF closing, closed, back
  <2> QED
    BY <1>3, <1>8, <1>9, <2>2, <2>3, <2>4 DEF Closing
<1>15. PairFitsSession'
  <2> SUFFICES ASSUME NEW n \in Live' PROVE Fits(n)' \/ n \in history'.excused
    BY DEF PairFitsSession
  <2>1. n \in Live /\ n \in Names /\ (Fits(n) \/ n \in h.excused)
    BY <1>1, <1>3 DEF IInv, PairFitsSession
  <2>2. CASE u.created_with[n] = m.created_with[n]
    BY <1>2, <1>8, <2>1, <2>2 DEF Fits, PairFor, Recorded
  <2>3. CASE /\ epoch # 0 /\ n \notin names /\ m.created_with[n] # "none"
             /\ n \in m.sessions \/ epoch # m.epoch
    BY <1>8, <2>1, <2>3 DEF Recorded
  <2> QED
    BY <1>5, <2>1, <2>2, <2>3
<1>16. Mine'
  BY <1>2, <1>8 DEF IInv, Mine
<1> QED
  BY <1>10, <1>12, <1>13, <1>14, <1>15, <1>16 DEF IInv

-----------------------------------------------------------------------------
(* What the handlers and `muxplex restore` write *)

LEMMA CreateRecordsKept == ASSUME IInv, CreateRecords PROVE IInv'
<1> DEFINE n == create.name
           h == history
           excused == IF n \in h.mine THEN h.excused \ {n}
                      ELSE h.excused \cup ({n} \cap Live)
           kept == [manifest.created_with EXCEPT ![n] = create.pair]
<1>1. /\ create.phase = "record" /\ create \in Recording
      /\ manifest \in Manifest /\ h \in History
      /\ n \in Names /\ create.pair \in Pairs
      /\ create.pair # "none" /\ create.pair # "hand"
  BY PhaseFacts, PairsAreReal DEF CreateRecords, IInv, Types, Recording
<1>2. /\ manifest' = [manifest EXCEPT !.created_with = kept]
      /\ create' = Idle /\ UNCHANGED <<server, made, cache, poll, restore, servers, late>>
      /\ history' = [h EXCEPT !.mine = {}, !.excused = excused]
  BY <1>1 DEF CreateRecords, tmuxVars, boundVars, History, Manifest
<1>3. excused \subseteq Names
  BY <1>1 DEF History
<1>4. /\ kept \in [Names -> MaybePair] /\ kept[n] = create.pair
      /\ \A m \in Names \ {n} : kept[m] = manifest.created_with[m]
  BY <1>1 DEF Manifest, MaybePair
<1>5. /\ history' \in History /\ history'.mine = {} /\ history'.excused = excused
      /\ history'.lost = h.lost /\ history'.raced = h.raced /\ history'.closing = h.closing
      /\ history'.closed = h.closed /\ history'.returned = h.returned
  <2> HIDE DEF excused
  <2> QED
    BY <1>1, <1>2, <1>3 DEF History
<1>6. /\ manifest' \in Manifest /\ manifest'.created_with = kept
      /\ manifest'.epoch = manifest.epoch /\ manifest'.sessions = manifest.sessions
      /\ manifest'.pending = manifest.pending
  <2> HIDE DEF kept
  <2> QED
    BY <1>1, <1>2, <1>4 DEF Manifest
<1>7. create' \in NothingRuns /\ Live' = Live
  BY <1>2 DEF Idle, NothingRuns, Live
<1>8. Types'
  BY <1>2, <1>5, <1>6, <1>7 DEF IInv, Types
<1>9. Epochs' /\ Lost' /\ Closing' /\ Mine'
  BY <1>2, <1>5, <1>6, <1>7 DEF IInv, Epochs, Lost, Closing, Mine
<1>10. ASSUME NEW m \in Live' PROVE Fits(m)' \/ m \in history'.excused
  <2>1. m \in Live /\ m \in Names /\ (Fits(m) \/ m \in h.excused)
    BY <1>7 DEF IInv, PairFitsSession, Live
  <2>2. CASE m # n
    BY <1>2, <1>4, <1>5, <1>6, <2>1, <2>2 DEF Fits, PairFor, Recorded
  <2>3. CASE m = n /\ n \notin h.mine
    BY <1>5, <2>1, <2>3
  <2>4. CASE m = n /\ n \in h.mine
    <3>1. made[m] = create.pair
      BY <2>4 DEF IInv, Mine
    <3>2. manifest'.created_with[m] = create.pair /\ made'[m] = create.pair
      BY <1>2, <1>4, <1>6, <2>4, <3>1
    <3> QED
      BY <1>1, <3>2 DEF Fits, PairFor, Recorded
  <2> QED
    BY <2>2, <2>3, <2>4
<1> QED
  BY <1>8, <1>9, <1>10 DEF IInv, PairFitsSession

LEMMA DeleteKept ==
    ASSUME IInv, NEW n \in Names, NEW r \in BOOLEAN, NEW f \in BOOLEAN, NEW w \in BOOLEAN,
           Delete(n, r, f, w)
    PROVE  IInv'
<1>1. CASE w /\ made[n] # "none"
  BY <1>1, CloseKept DEF Delete
<1>2. CASE ~(w /\ made[n] # "none")
  <2>1. UNCHANGED <<server, made, manifest, poll, servers, history, cache, create, restore, late>>
    BY <1>2 DEF Delete, tmuxVars, taskVars
  <2> QED
    BY <2>1, NothingMoves DEF IInv, Types, Mine
<1> QED
  BY <1>1, <1>2

LEMMA MovedType ==
    ASSUME NEW S \in SUBSET Names, NEW n \in Names, NEW to \in Names
    PROVE  /\ Moved(S, n, to) \subseteq Names /\ Marked(S, n, to) \subseteq Names
           /\ n \in S => to \in Moved(S, n, to)
           /\ \A m : m # n /\ m # to => (m \in Moved(S, n, to) <=> m \in S)
           /\ n # to => n \notin Moved(S, n, to)
           /\ n \notin S => Moved(S, n, to) = S
  BY DEF Moved, Marked

\* The session, its pair and what is said of it move to the new name, and what was
\* said of an earlier bearer of that name is not said of this one.
LEMMA RenameKept == ASSUME IInv, NEW n \in Names, NEW to \in Names, Rename(n, to) PROVE IInv'
<1> DEFINE h == history
           inherits == IF Recorded(n) = "none" /\ Recorded(to) # "none" THEN {to} ELSE {}
           excused == Moved(h.excused, n, to) \cup inherits
           mine == Moved(h.mine, n, to)
           sessions == Moved(manifest.sessions, n, to)
           renamed == Marked(manifest.renamed, n, to)
           pair == IF Recorded(n) = "none" THEN Recorded(to) ELSE Recorded(n)
           kept == [manifest.created_with EXCEPT ![n] = "none", ![to] = pair]
<1>1. /\ n \in Live /\ to \notin Live /\ n # to /\ to \notin manifest.pending
      /\ poll.phase = "idle" /\ manifest \in Manifest /\ h \in History
      /\ made \in [Names -> Makers] /\ manifest.created_with \in [Names -> MaybePair]
  BY DEF Rename, LockFree, IInv, Types, Manifest
<1>2. /\ UNCHANGED <<server, cache, poll, create, restore, servers, late>>
      /\ made' = [made EXCEPT ![to] = made[n], ![n] = "none"]
  BY DEF Rename, taskVars
<1>3. manifest' = [manifest EXCEPT !.sessions = sessions, !.renamed = renamed,
                                   !.created_with = kept]
  BY DEF Rename
<1>4. history' = [h EXCEPT !.lost = @ \ {to}, !.raced = @ \ {to}, !.closed = @ \ {to},
                           !.closing = @ \ {to}, !.mine = mine, !.excused = excused]
  BY DEF Rename
<1>5. mine \subseteq Names /\ excused \subseteq Names
  <2>1. h.mine \in SUBSET Names /\ h.excused \in SUBSET Names
    BY <1>1 DEF History
  <2>2. mine \subseteq Names /\ Moved(h.excused, n, to) \subseteq Names
    BY <2>1, MovedType
  <2> QED
    BY <2>2
<1>6. sessions \subseteq Names /\ renamed \subseteq Names
  <2>1. manifest.sessions \in SUBSET Names /\ manifest.renamed \in SUBSET Names
    BY <1>1 DEF Manifest
  <2> QED
    BY <2>1, MovedType
<1>7. pair \in MaybePair /\ kept \in [Names -> MaybePair] /\ kept[to] = pair
      /\ \A m \in Names \ {n, to} : kept[m] = manifest.created_with[m]
  BY <1>1 DEF Recorded, MaybePair
<1>8. /\ history' \in History
      /\ history'.lost = h.lost \ {to} /\ history'.raced = h.raced \ {to}
      /\ history'.closing = h.closing \ {to} /\ history'.closed = h.closed \ {to}
      /\ history'.returned = h.returned
      /\ history'.mine = mine /\ history'.excused = excused
  <2> HIDE DEF mine, excused
  <2> QED
    BY <1>1, <1>4, <1>5 DEF History
<1>9. /\ manifest' \in Manifest /\ manifest'.epoch = manifest.epoch
      /\ manifest'.sessions = sessions /\ manifest'.pending = manifest.pending
      /\ manifest'.created_with = kept
  <2> HIDE DEF sessions, renamed, kept
  <2> QED
    BY <1>1, <1>3, <1>6, <1>7 DEF Manifest
<1>10. /\ made' \in [Names -> Makers] /\ made'[to] = made[n]
       /\ \A m \in Names \ {n, to} : made'[m] = made[m]
       /\ Live' = (Live \ {n}) \cup {to}
  <2>1. /\ made' \in [Names -> Makers] /\ made'[to] = made[n] /\ made'[n] = "none"
        /\ \A m \in Names \ {n, to} : made'[m] = made[m]
    BY <1>1, <1>2 DEF Makers
  <2> QED
    BY <1>1, <2>1 DEF Live
<1>11. Types'
  BY <1>2, <1>8, <1>9, <1>10 DEF IInv, Types
<1>12. Epochs'
  <2>1. manifest.epoch = 0 => sessions = {}
    BY DEF IInv, Epochs, Moved
  <2> QED
    BY <1>1, <1>2, <1>9, <2>1 DEF IInv, Epochs
<1>13. Lost'
  <2>1. \A m \in h.lost \ (manifest.pending \cup h.raced) :
          m \in manifest.sessions /\ manifest.epoch # server
    BY DEF IInv, Lost
  <2>2. h.lost \cap Live = {}
    BY DEF IInv, Lost
  <2>3. ASSUME NEW m \in history'.lost \ (manifest'.pending \cup history'.raced)
        PROVE  m \in manifest'.sessions /\ manifest'.epoch # server'
    <3>1. m # to /\ m # n /\ m \in h.lost \ (manifest.pending \cup h.raced)
      BY <1>1, <1>8, <1>9, <2>2
    <3>2. m \in sessions
      BY <1>1, <2>1, <3>1, MovedType DEF Manifest
    <3> QED
      BY <1>2, <1>9, <2>1, <3>1, <3>2
  <2>4. history'.lost \cap Live' = {}
    BY <1>8, <1>10, <2>2
  <2> QED
    BY <1>1, <1>2, <2>3, <2>4 DEF Lost
<1>14. Closing'
  <2>1. /\ (h.closing \cup h.closed) \cap Live = {}
        /\ h.closed \cap manifest.sessions = {}
        /\ (Live \cup h.closing \cup h.closed) \cap manifest.pending \subseteq h.returned
    BY DEF IInv, Closing
  <2>2. history'.closed \cap manifest'.sessions = {}
    BY <1>8, <1>9, <2>1 DEF Moved
  <2>3. (history'.closing \cup history'.closed) \cap Live' = {}
    BY <1>8, <1>10, <2>1
  <2>4. (Live' \cup history'.closing \cup history'.closed) \cap manifest'.pending
          \subseteq history'.returned
    BY <1>1, <1>8, <1>9, <1>10, <2>1
  <2> QED
    BY <1>1, <1>2, <2>2, <2>3, <2>4 DEF Closing
<1>15. Mine'
  <2>1. create.phase \in {"idle", "spawn"} => mine = {}
    BY DEF IInv, Mine, Moved
  <2>2. ASSUME NEW m \in mine PROVE made'[m] = create.pair
    <3>1. h.mine \subseteq Live /\ \A k \in h.mine : made[k] = create.pair
      BY MineLives DEF IInv, Mine
    <3>2. CASE m = to
      <4>1. n \in h.mine
        BY <1>1, <3>1, <3>2 DEF Moved
      <4> QED
        BY <1>10, <3>1, <3>2, <4>1
    <3>3. CASE m # to
      <4>1. m \in h.mine /\ m # n /\ m \in Names
        BY <1>1, <1>5, <3>3 DEF Moved
      <4> QED
        BY <1>10, <3>1, <3>3, <4>1
    <3> QED
      BY <3>2, <3>3
  <2> QED
    BY <1>2, <1>8, <2>1, <2>2 DEF Mine
<1>16. ASSUME NEW m \in Live' PROVE Fits(m)' \/ m \in history'.excused
  <2>1. CASE m = to
    <3>1. Fits(n) \/ n \in h.excused
      BY <1>1 DEF IInv, PairFitsSession
    <3>2. n \in h.excused => m \in excused
      BY <1>1, <2>1, MovedType DEF History
    <3>3. Recorded(to)' = pair
      BY <1>7, <1>9 DEF Recorded
    <3>4. CASE Recorded(n) = "none" /\ Recorded(to) # "none"
      BY <1>8, <2>1, <3>4
    <3>5. CASE ~(Recorded(n) = "none" /\ Recorded(to) # "none")
      <4>1. PairFor(to)' = PairFor(n)
        BY <3>3, <3>5 DEF PairFor
      <4>2. Fits(n) => Fits(to)'
        BY <1>10, <4>1 DEF Fits
      <4> QED
        BY <1>8, <2>1, <3>1, <3>2, <4>2
    <3> QED
      BY <3>4, <3>5
  <2>2. CASE m # to
    <3>1. m \in Live /\ m # n /\ m \in Names
      BY <1>10, <2>2 DEF Live
    <3>2. Fits(m) \/ m \in h.excused
      BY <3>1 DEF IInv, PairFitsSession
    <3>3. m \in h.excused => m \in excused
      BY <1>1, <2>2, <3>1, MovedType DEF History
    <3>4. Recorded(m)' = Recorded(m) /\ made'[m] = made[m]
      BY <1>7, <1>9, <1>10, <2>2, <3>1 DEF Recorded
    <3>5. Fits(m) => Fits(m)'
      BY <3>4 DEF Fits, PairFor
    <3> QED
      BY <1>8, <3>2, <3>3, <3>5
  <2> QED
    BY <2>1, <2>2
<1> QED
  BY <1>11, <1>12, <1>13, <1>14, <1>15, <1>16 DEF IInv, PairFitsSession

\* Names leave pending_restore: verified ones, which live, or all by --forget, which
\* gives them up.
LEMMA ClearedKept ==
    ASSUME IInv, NEW names \in SUBSET Names, NEW forgotten \in SUBSET names,
           NEW returned \in SUBSET Names,
           history.returned \cap (manifest.pending \ names) \subseteq returned,
           manifest' = [manifest EXCEPT !.pending = @ \ names, !.pendingRenamed = @ \ names],
           names \ forgotten \subseteq Live,
           history' = [history EXCEPT !.lost = @ \ forgotten, !.returned = returned],
           restore' \in NothingRuns \cup Planning \cup Restoring,
           UNCHANGED <<server, made, cache, poll, create, servers, late>>
    PROVE  IInv'
<1>1. manifest \in Manifest /\ history \in History
  BY DEF IInv, Types
<1>2. /\ manifest' \in Manifest /\ manifest'.pending = manifest.pending \ names
      /\ manifest'.epoch = manifest.epoch /\ manifest'.sessions = manifest.sessions
      /\ manifest'.created_with = manifest.created_with
  BY <1>1 DEF Manifest
<1>3. /\ history' \in History /\ history'.lost = history.lost \ forgotten
      /\ history'.returned = returned
      /\ history'.raced = history.raced /\ history'.closing = history.closing
      /\ history'.closed = history.closed /\ history'.mine = history.mine
      /\ history'.excused = history.excused
  BY <1>1 DEF History
<1>4. Live' = Live
  BY DEF Live
<1>5. Types'
  BY <1>2, <1>3 DEF IInv, Types
<1>6. Epochs' /\ Mine'
  BY <1>2, <1>3 DEF IInv, Epochs, Mine
<1>7. Lost'
  BY <1>2, <1>3, <1>4 DEF IInv, Lost
<1>8. Closing'
  BY <1>2, <1>3, <1>4 DEF IInv, Closing
<1>9. PairFitsSession'
  BY <1>2, <1>3, <1>4 DEF IInv, PairFitsSession, Fits, PairFor, Recorded
<1> QED
  BY <1>5, <1>6, <1>7, <1>8, <1>9 DEF IInv

LEMMA RestoreVerifiesKept == ASSUME IInv, RestoreVerifies PROVE IInv'
<1> DEFINE names == {restore.name} \cap Live
           returned == history.returned \cap manifest'.pending
<1>1. /\ restore \in Restoring /\ manifest \in Manifest /\ history \in History
      /\ Live \subseteq Names
  BY PhaseFacts DEF RestoreVerifies, IInv, Types, Live
<1>2. /\ UNCHANGED <<server, made, cache, poll, create, servers, late>>
      /\ restore' \in NothingRuns \cup Planning \cup Restoring
  BY <1>1, RemainingType DEF RestoreVerifies, tmuxVars, boundVars
<1>3. manifest' = [manifest EXCEPT !.pending = @ \ names, !.pendingRenamed = @ \ names]
  <2>1. CASE restore.name \in Live
    <3>1. names = {restore.name}
      BY <2>1
    <3> HIDE DEF names
    <3> QED
      BY <2>1, <3>1 DEF RestoreVerifies
  <2>2. CASE restore.name \notin Live
    <3>1. names = {}
      BY <2>2
    <3> HIDE DEF names
    <3>2. manifest = [manifest EXCEPT !.pending = @ \ names, !.pendingRenamed = @ \ names]
      BY <1>1, <3>1 DEF Manifest
    <3> QED
      BY <2>2, <3>2 DEF RestoreVerifies
  <2> QED
    BY <2>1, <2>2
<1>4. names \in SUBSET Names /\ {} \in SUBSET names /\ names \ {} \subseteq Live
      /\ returned \in SUBSET Names
  BY <1>1 DEF History
<1>5. history.returned \cap (manifest.pending \ names) \subseteq returned
  <2> HIDE DEF names
  <2>1. manifest'.pending = manifest.pending \ names
    BY <1>1, <1>3 DEF Manifest
  <2> QED
    BY <2>1
<1>6. history' = [history EXCEPT !.lost = @ \ {}, !.returned = returned]
  <2>1. history' = [history EXCEPT !.returned = returned]
    BY DEF RestoreVerifies
  <2> HIDE DEF returned
  <2> QED
    BY <1>1, <2>1 DEF History
<1> HIDE DEF names, returned
<1> QED
  BY <1>2, <1>3, <1>4, <1>5, <1>6, ClearedKept

LEMMA ForgetKept == ASSUME IInv, Forget PROVE IInv'
<1> DEFINE names == manifest.pending
           returned == history.returned \ names
<1>1. /\ manifest \in Manifest /\ history \in History
      /\ manifest.pendingRenamed \subseteq Names
  BY DEF IInv, Types, Manifest
<1>2. /\ UNCHANGED <<server, made, cache, poll, create, restore, servers, late>>
      /\ manifest' = [manifest EXCEPT !.pending = {}, !.pendingRenamed = {}]
      /\ history' = [history EXCEPT !.lost = @ \ names, !.returned = returned]
  BY DEF Forget, tmuxVars, boundVars, taskVars
<1>3. names \in SUBSET Names /\ returned \in SUBSET Names
  BY <1>1 DEF Manifest, History
<1>4. /\ manifest' \in Manifest /\ manifest'.pending = {}
      /\ manifest'.epoch = manifest.epoch /\ manifest'.sessions = manifest.sessions
      /\ manifest'.created_with = manifest.created_with
  BY <1>1, <1>2 DEF Manifest
<1>5. /\ history' \in History /\ history'.lost = history.lost \ names
      /\ history'.raced = history.raced /\ history'.closing = history.closing
      /\ history'.closed = history.closed /\ history'.mine = history.mine
      /\ history'.excused = history.excused
  <2> HIDE DEF returned
  <2> QED
    BY <1>1, <1>2, <1>3 DEF History
<1>6. Live' = Live
  BY <1>2 DEF Live
<1>7. Types'
  BY <1>2, <1>4, <1>5 DEF IInv, Types
<1>8. Epochs' /\ Closing' /\ Mine'
  BY <1>2, <1>4, <1>5, <1>6 DEF IInv, Epochs, Closing, Mine
<1>9. Lost'
  BY <1>2, <1>4, <1>5, <1>6 DEF IInv, Lost
<1>10. PairFitsSession'
  BY <1>2, <1>4, <1>5, <1>6 DEF IInv, PairFitsSession, Fits, PairFor, Recorded
<1> QED
  BY <1>7, <1>8, <1>9, <1>10 DEF IInv

-----------------------------------------------------------------------------
(* The invariant, and what follows from it *)

LEMMA InitInv == Init => IInv
<1> SUFFICES ASSUME Init PROVE IInv
  OBVIOUS
<1>1. /\ made \in [Names -> {"none", "hand"}] /\ servers = 1 /\ server \in {0, 1}
      /\ manifest = EmptyManifest /\ cache = {} /\ late = {}
      /\ poll = Idle /\ create = Idle /\ restore = Idle
  BY DEF Init
<1>2. /\ history \in History /\ history.lost = {} /\ history.closing = {}
      /\ history.closed = {} /\ history.mine = {}
  BY DEF Init, History
<1>3. /\ manifest \in Manifest /\ manifest.epoch = 0 /\ manifest.sessions = {}
      /\ manifest.pending = {} /\ \A n \in Names : manifest.created_with[n] = "none"
  BY <1>1 DEF EmptyManifest, Manifest, MaybePair
<1>4. Idle \in NothingRuns /\ Idle.phase = "idle"
  BY DEF Idle, NothingRuns
<1>5. Types
  BY <1>1, <1>2, <1>3, <1>4 DEF Types, Makers
<1>6. Epochs /\ Lost /\ Closing /\ Mine
  BY <1>1, <1>2, <1>3, <1>4 DEF Epochs, Lost, Closing, Mine
<1>7. PairFitsSession
  BY <1>1, <1>3 DEF PairFitsSession, Fits, PairFor, Recorded, Live
<1> QED
  BY <1>5, <1>6, <1>7 DEF IInv

LEMMA NextInv == IInv /\ [Next]_vars => IInv'
<1> SUFFICES ASSUME IInv, [Next]_vars PROVE IInv'
  OBVIOUS
<1>1. CASE UNCHANGED vars
  <2>1. UNCHANGED <<server, made, manifest, poll, servers, history, cache, create, restore, late>>
    BY <1>1 DEF vars, tmuxVars, taskVars, boundVars
  <2> QED
    BY <2>1, NothingMoves DEF IInv, Types, Mine
<1>2. ASSUME NEW n \in Names, StartByHand(n) PROVE IInv'
  BY <1>2, StartByHandKept
<1>3. ASSUME NEW n \in Names, Close(n) PROVE IInv'
  BY <1>3, CloseKept DEF Close
<1>4. CASE ServerDies
  BY <1>4, ServerDiesKept
<1>5. CASE PollEnumerates \/ PollProbes
  BY <1>5, PollReadsKept
<1>6. CASE PollUpdates
  BY <1>6, PollUpdatesKept
<1>7. ASSUME NEW n \in Names, CreateSpawns(n) PROVE IInv'
  BY <1>7, CreateSpawnsKept
<1>8. ASSUME NEW c \in late, LateStart(c) PROVE IInv'
  BY <1>8, LateStartKept
<1>9. CASE \/ \E n \in Names, p \in Pairs : CreateBegins(n, p)
           \/ CreateFindsTaken \/ CreateIsSlow \/ CreateFails \/ CreateObserves
  BY <1>9, CreateMovesKept
<1>10. CASE CreateRecords
  BY <1>10, CreateRecordsKept
<1>11. ASSUME NEW n \in Names, NEW r \in BOOLEAN, NEW f \in BOOLEAN, NEW w \in BOOLEAN,
              Delete(n, r, f, w)
       PROVE  IInv'
  BY <1>11, DeleteKept
<1>12. ASSUME NEW n \in Names, NEW to \in Names, Rename(n, to) PROVE IInv'
  BY <1>12, RenameKept
<1>13. CASE \/ \E f \in BOOLEAN : RestorePlans(f)
            \/ \E n \in Names, f, r \in BOOLEAN : RestoreChooses(n, f, r)
            \/ RestoreFails \/ RestoreStops
  BY <1>13, RestoreMovesKept
<1>14. CASE RestoreSpawns
  BY <1>14, RestoreSpawnsKept
<1>15. CASE RestoreVerifies
  BY <1>15, RestoreVerifiesKept
<1>16. CASE Forget
  BY <1>16, ForgetKept
<1> QED
  BY <1>1, <1>2, <1>3, <1>4, <1>5, <1>6, <1>7, <1>8, <1>9, <1>10, <1>11, <1>12, <1>13, <1>14,
     <1>15, <1>16 DEF Next

THEOREM Invariance == Spec => []IInv
  BY InitInv, NextInv, PTL DEF Spec

\* update_manifest and `muxplex restore`: a session that died with its tmux server
\* waits in pending_restore, or in the record until the next poll meets the new server;
\* no later death, poll or restore of another one takes it out.
THEOREM LostAreOffered == Spec => []LostIsOffered
<1>1. IInv => LostIsOffered
  BY DEF IInv, Lost, LostIsOffered
<1> QED
  BY <1>1, Invariance, PTL

\* update_manifest: what its owner closed, and a poll under the same server saw gone,
\* never enters pending_restore, whatever servers die after.
THEOREM ClosedAreNotOffered == Spec => []ClosedIsNotOffered
<1>1. IInv => ClosedIsNotOffered
  BY DEF IInv, Closing, ClosedIsNotOffered
<1> QED
  BY <1>1, Invariance, PTL

\* create_session, delete_session and `muxplex restore`: the command pair used for a
\* live session is the one that made it, with the exceptions PairFitsSession names.
THEOREM PairsFitSessions == Spec => []PairFitsSession
<1>1. IInv => PairFitsSession
  BY DEF IInv
<1> QED
  BY <1>1, Invariance, PTL

LEMMA PendingOnlyByUpdate ==
    ASSUME IInv, [Next]_vars
    PROVE  manifest'.pending \ manifest.pending \subseteq manifest.sessions
<1> DEFINE Goal == manifest'.pending \ manifest.pending \subseteq manifest.sessions
<1> SUFFICES Goal
  OBVIOUS
<1>1. manifest \in Manifest
  BY DEF IInv, Types
<1>2. ASSUME manifest' = manifest PROVE Goal
  BY <1>2
<1>3. CASE PollUpdates
  <2>1. poll.epoch \in Nat /\ poll.names \in SUBSET Names
    BY <1>3, PhaseFacts DEF PollUpdates, IInv, Types, Updating
  <2>2. manifest' = update_manifest(manifest, poll.epoch, poll.names)
    BY <1>3 DEF PollUpdates, ManifestRead
  <2> QED
    BY <1>1, <2>1, <2>2, UpdateFields
<1>4. CASE CreateRecords
  BY <1>1, <1>4 DEF CreateRecords, Manifest
<1>5. ASSUME NEW n \in Names, NEW to \in Names, Rename(n, to) PROVE Goal
  <2>1. manifest'.pending = manifest.pending
    BY <1>1, <1>5 DEF Rename, Manifest
  <2> QED
    BY <2>1
<1>6. CASE RestoreVerifies
  BY <1>1, <1>6 DEF RestoreVerifies, Manifest
<1>7. CASE Forget
  BY <1>1, <1>7 DEF Forget, Manifest
<1>8. CASE \/ \E n \in Names : StartByHand(n) \/ Close(n) \/ CreateSpawns(n)
           \/ \E c \in late : LateStart(c)
           \/ \E n \in Names, r, f, w \in BOOLEAN : Delete(n, r, f, w)
           \/ ServerDies \/ RestoreSpawns
  BY <1>2, <1>8 DEF StartByHand, Close, CreateSpawns, LateStart, Delete, ServerDies, RestoreSpawns
<1>9. CASE PollEnumerates \/ PollProbes
  BY <1>2, <1>9 DEF PollEnumerates, PollProbes
<1>10. CASE \/ \E n \in Names, p \in Pairs : CreateBegins(n, p)
            \/ CreateFindsTaken \/ CreateIsSlow \/ CreateFails \/ CreateObserves
  BY <1>2, <1>10 DEF CreateBegins, CreateFindsTaken, CreateIsSlow, CreateFails, CreateObserves
<1>11. CASE \/ \E f \in BOOLEAN : RestorePlans(f)
            \/ \E n \in Names, f, r \in BOOLEAN : RestoreChooses(n, f, r)
            \/ RestoreFails \/ RestoreStops
  BY <1>2, <1>11 DEF RestorePlans, RestoreChooses, RestoreFails, RestoreStops
<1>12. CASE UNCHANGED vars
  BY <1>2, <1>12 DEF vars
<1> HIDE DEF Goal
<1> QED
  BY <1>3, <1>4, <1>5, <1>6, <1>7, <1>8, <1>9, <1>10, <1>11, <1>12 DEF Next

\* update_manifest under its file lock: pending_restore grows only by sessions of the
\* live record, and no poll writes back what a restore cleared after it read the file.
THEOREM PendingGrowsOnlyByLoss == Spec => PendingGrowsByLoss
<1>1. IInv /\ [Next]_vars
        => [manifest'.pending \ manifest.pending \subseteq manifest.sessions]_vars
  BY PendingOnlyByUpdate
<1> QED
  BY <1>1, Invariance, PTL DEF Spec, PendingGrowsByLoss

=============================================================================
