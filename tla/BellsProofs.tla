---------------------------- MODULE BellsProofs ----------------------------
(***************************************************************************)
(* Whatever the sessions, rings and restarts: the entries that ask for     *)
(* attention are those somebody is owed, and no others; and one ring is    *)
(* one bell, but for the reasons the property names.                       *)
(***************************************************************************)
EXTENDS Bells, TLAPS

Reasons == {"nothing", "clear rule", "failed read", "restart", "posted twice"}
Whats   == {"count", "advance"}
History == [done : SUBSET (Whats \X Nat \X Mechanism), twice : SUBSET Reasons,
            owed : SUBSET Names, unknown : SUBSET Nat, forgot : [Names -> Reasons]]

Candidates == Names \X Nat \X Reasons
Waiting    == [phase : {"idle", "lock"}]
Listing    == [phase : {"listed"}, names : SUBSET Names, young : SUBSET Names]
Flagging   == [phase : {"flags"}, names : SUBSET Names, left : SUBSET Names,
               wired : BOOLEAN, believed : BOOLEAN, candidates : SUBSET Candidates,
               bell : [Names -> Entry], owed : SUBSET Names]
Offering   == [phase : {"advance"}, candidates : SUBSET Candidates]

Types ==
  /\ young \subseteq alive /\ alive \subseteq Names
  /\ raised \in [Names -> Nat] /\ hooked \in BOOLEAN
  /\ posts \subseteq Names \X Nat /\ armed \in BOOLEAN /\ seen \subseteq Names
  /\ bell \in [Names -> Entry] /\ advancing \subseteq Names
  /\ poll \in Waiting \cup Listing \cup Flagging \cup Offering
  /\ rings \in Nat /\ upheavals \in Nat
  /\ history \in History

\* A name without an entry has nothing to say.
Silent(b) == \A s \in Names : ~b[s].there => ~needs_attention(b[s])

\* The names of a running cycle: what it has to say is about those it listed.
Cycle ==
  /\ poll.phase = "listed" => poll.young \subseteq poll.names
  /\ poll.phase = "flags" =>
       /\ poll.left \subseteq poll.names
       /\ poll.owed \subseteq poll.names
       /\ Silent(poll.bell)
       /\ \A s \in Names \ poll.names : ~needs_attention(poll.bell[s])

\* In state.json, the entries that need attention are those that are owed ...
Settled == \A s \in Names : needs_attention(bell[s]) <=> s \in history.owed

\* ... and in what a cycle is about to save, those it will leave owed.
AboutToSettle ==
  poll.phase = "flags" =>
    \A s \in poll.names : needs_attention(poll.bell[s]) <=> s \in history.owed \cup poll.owed

IInv == Types /\ Silent(bell) /\ Cycle /\ Settled /\ AboutToSettle

-----------------------------------------------------------------------------
LEMMA EntryFacts ==
    /\ NoEntry \in Entry /\ ~NoEntry.there /\ ~needs_attention(NoEntry)
    /\ empty_bell \in Entry /\ empty_bell.there /\ ~needs_attention(empty_bell)
    /\ \A e : Fired(e) \in Entry /\ Fired(e).there /\ needs_attention(Fired(e))
    /\ \A e \in Entry : /\ Acknowledged(e) \in Entry /\ Acknowledged(e).there = e.there
                        /\ ~needs_attention(Acknowledged(e))
                        /\ e.unseen = FALSE => ~needs_attention(e)
  BY DEF NoEntry, empty_bell, Fired, Acknowledged, Entry, needs_attention

LEMMA ObserveFacts ==
    ASSUME NEW h \in History, NEW what \in Whats, NEW r \in Nat, NEW via \in Mechanism,
           NEW why \in Reasons
    PROVE  Observe(h, what, r, via, why) \in History
           /\ Observe(h, what, r, via, why).owed = h.owed
<1> DEFINE o == <<what, r, via>>
<1>1. CASE o \in h.done
  BY <1>1 DEF Observe, History
<1>2. CASE o \notin h.done
  BY <1>2 DEF Observe, History
<1> QED
  BY <1>1, <1>2

LEMMA ForgetFacts ==
    ASSUME NEW h \in History, NEW names, NEW why \in Reasons
    PROVE  Forget(h, names, why) \in History /\ Forget(h, names, why).owed = h.owed
<1>1. [s \in Names |-> IF s \in names THEN why ELSE h.forgot[s]] \in [Names -> Reasons]
  BY DEF History
<1> QED
  BY <1>1 DEF Forget, History

\* To forget a flag changes only what is known of it.
LEMMA ForgetLeaves ==
    ASSUME NEW h \in History, NEW names, NEW why
    PROVE  /\ Forget(h, names, why).done = h.done /\ Forget(h, names, why).twice = h.twice
           /\ Forget(h, names, why).unknown = h.unknown
           /\ \A s \in Names : Forget(h, names, why).forgot[s] =
                                 IF s \in names THEN why ELSE h.forgot[s]
  BY DEF Forget, History

\* The phases, and which cycles hold the lock.
LEMMA PhaseFacts ==
    ASSUME Types
    PROVE  /\ poll.phase \in {"idle", "lock", "listed", "flags", "advance"}
           /\ poll.phase = "listed" => poll \in Listing
           /\ poll.phase = "flags" => poll \in Flagging
           /\ poll.phase = "advance" => poll \in Offering
           /\ poll.phase \in {"idle", "lock"} => poll \in Waiting
  BY DEF Types, Waiting, Listing, Flagging, Offering

LEMMA InitInv == Init => IInv
<1> SUFFICES ASSUME Init PROVE IInv
  OBVIOUS
<1>1. NoPoll \in Waiting
  BY DEF NoPoll, Waiting
<1>2. history \in History /\ history.owed = {}
  BY DEF Init, History, Reasons
<1>3. bell = [s \in Names |-> NoEntry] /\ bell \in [Names -> Entry]
  BY EntryFacts DEF Init
<1>4. Types
  BY <1>1, <1>2, <1>3 DEF Init, Types
<1>5. poll.phase = "idle"
  BY DEF Init, NoPoll
<1> QED
  BY <1>2, <1>3, <1>4, <1>5, EntryFacts DEF IInv, Silent, Cycle, Settled, AboutToSettle

\* A step that changes no entry, and no cycle under way.
LEMMA NothingSaid ==
    ASSUME IInv, Types', UNCHANGED <<bell, poll>>, history'.owed = history.owed
    PROVE  IInv'
  BY DEF IInv, Silent, Cycle, Settled, AboutToSettle

\* A step of the cycle that leaves the entries of state.json alone, and has none
\* of its own.
LEMMA CycleMoves ==
    ASSUME IInv, Types', UNCHANGED bell, history'.owed = history.owed,
           poll'.phase \in {"idle", "lock", "advance"}
    PROVE  IInv'
  BY DEF IInv, Silent, Cycle, Settled, AboutToSettle

\* A handler that writes s's entry: no cycle holds the lock.
LEMMA EntryWritten ==
    ASSUME IInv, Types', LockFree, UNCHANGED poll, NEW s \in Names, NEW e \in Entry,
           bell' = [bell EXCEPT ![s] = e], e.there,
           \/ needs_attention(e) /\ history'.owed = history.owed \cup {s}
           \/ ~needs_attention(e) /\ history'.owed = history.owed \ {s}
    PROVE  IInv'
<1>1. poll'.phase \notin {"listed", "flags"}
  BY DEF LockFree
<1>2. \A t \in Names : bell'[t] = IF t = s THEN e ELSE bell[t]
  BY DEF IInv, Types
<1>3. Silent(bell)'
  BY <1>2 DEF IInv, Silent
<1>4. Settled'
  BY <1>2 DEF IInv, Settled
<1> QED
  BY <1>1, <1>3, <1>4 DEF IInv, Cycle, AboutToSettle

-----------------------------------------------------------------------------
\* tmux, its users, and the handlers.
LEMMA WorldKept ==
    ASSUME IInv,
           \/ \E s \in Names : Start(s) \/ End(s) \/ Visit(s)
           \/ \E s \in Names, watched \in BOOLEAN : Ring(s, watched)
           \/ \E p \in posts : PostLost(p)
           \/ \E ok \in BOOLEAN : SetupHooks(ok)
           \/ \E s \in Names : AdvanceEnds(s)
    PROVE  IInv'
<1>1. ASSUME NEW s \in Names, Start(s) \/ End(s) \/ Visit(s) PROVE IInv'
  <2>2. history' \in History /\ history'.owed = history.owed
    <3>1. CASE Start(s)
      BY <3>1 DEF Start, IInv, Types
    <3>2. CASE End(s) \/ Visit(s)
      <4>1. history' = Forget(history, {s}, "nothing")
        BY <3>2 DEF End, Visit
      <4>2. history \in History
        BY DEF IInv, Types
      <4> QED
        BY <4>1, <4>2, ForgetFacts DEF Reasons
    <3> QED
      BY <1>1, <3>1, <3>2
  <2>1. Types'
    <3>1. CASE Start(s)
      BY <3>1 DEF IInv, Types, Start, serverVars
    <3>2. CASE End(s)
      <4>1. hooked' \in BOOLEAN
        BY <3>2 DEF End
      <4> QED
        BY <2>2, <3>2, <4>1 DEF IInv, Types, End, serverVars, boundVars
    <3>3. CASE Visit(s)
      BY <2>2, <3>3 DEF IInv, Types, Visit, serverVars, boundVars
    <3> QED
      BY <1>1, <3>1, <3>2, <3>3
  <2> QED
    BY <1>1, <2>1, <2>2, NothingSaid DEF Start, End, Visit, serverVars, boundVars
<1>2. ASSUME NEW s \in Names, NEW watched \in BOOLEAN, Ring(s, watched) PROVE IInv'
  <2>1. rings' \in Nat /\ raised' \in [Names -> Nat]
    BY <1>2 DEF IInv, Types, Ring
  <2>2. posts' \subseteq Names \X Nat
    BY <1>2, <2>1 DEF IInv, Types, Ring
  <2>3. Types'
    BY <1>2, <2>1, <2>2 DEF IInv, Types, Ring, serverVars
  <2> QED
    BY <1>2, <2>3, NothingSaid DEF Ring, serverVars
<1>3. ASSUME NEW p \in posts, PostLost(p) PROVE IInv'
  <2>1. Types'
    BY <1>3 DEF IInv, Types, PostLost, tmuxVars, serverVars, boundVars
  <2> QED
    BY <1>3, <2>1, NothingSaid DEF PostLost, tmuxVars, serverVars, boundVars
<1>4. ASSUME NEW ok \in BOOLEAN, SetupHooks(ok) PROVE IInv'
  <2>1. hooked' \in BOOLEAN /\ armed' \in BOOLEAN
    BY <1>4 DEF SetupHooks, ArmBellHook, IInv, Types
  <2>2. Types'
    BY <1>4, <2>1 DEF IInv, Types, SetupHooks, boundVars
  <2> QED
    BY <1>4, <2>2, NothingSaid DEF SetupHooks
<1>5. ASSUME NEW s \in Names, AdvanceEnds(s) PROVE IInv'
  <2>1. Types'
    BY <1>5 DEF IInv, Types, AdvanceEnds, tmuxVars, boundVars
  <2> QED
    BY <1>5, <2>1, NothingSaid DEF AdvanceEnds
<1> QED
  BY <1>1, <1>2, <1>3, <1>4, <1>5

LEMMA ReceiveBellKept ==
    ASSUME IInv, NEW p \in posts, ReceiveBell(p) PROVE IInv'
<1> DEFINE observed == Observe(history, "advance", p[2], "hook", "posted twice")
<1>1. p[1] \in Names /\ p[2] \in Nat
  BY DEF IInv, Types
<1>2. observed \in History /\ observed.owed = history.owed
  BY <1>1, ObserveFacts DEF IInv, Types, Whats, Mechanism, Reasons
<1>3. history' = [observed EXCEPT !.owed = @ \cup {p[1]}]
  BY DEF ReceiveBell
<1> HIDE DEF observed
<1>4. history' \in History /\ history'.owed = history.owed \cup {p[1]}
  BY <1>1, <1>2, <1>3 DEF History
<1>5. bell' = [bell EXCEPT ![p[1]] = Fired(bell[p[1]])] /\ Fired(bell[p[1]]) \in Entry
  BY EntryFacts DEF ReceiveBell
<1>6. Types'
  <2>1. bell' \in [Names -> Entry] /\ posts' \subseteq Names \X Nat /\ advancing' \subseteq Names
    BY <1>1, <1>5 DEF IInv, Types, ReceiveBell
  <2> QED
    BY <1>4, <2>1 DEF IInv, Types, ReceiveBell, tmuxVars, boundVars
<1>7. LockFree /\ UNCHANGED poll
  BY DEF ReceiveBell
<1> QED
  BY <1>1, <1>4, <1>5, <1>6, <1>7, EntryFacts, EntryWritten

LEMMA ClearBellKept ==
    ASSUME IInv, NEW s \in Names, ClearBell(s) PROVE IInv'
<1> DEFINE e == Acknowledged(bell[s])
<1>1. bell' = [bell EXCEPT ![s] = e] /\ e \in Entry /\ e.there /\ ~needs_attention(e)
  BY EntryFacts DEF ClearBell, IInv, Types
<1>2. history' \in History /\ history'.owed = history.owed \ {s}
  BY DEF ClearBell, History, IInv, Types
<1>3. Types'
  <2>1. bell' \in [Names -> Entry]
    BY <1>1 DEF IInv, Types
  <2> QED
    BY <1>2, <2>1 DEF IInv, Types, ClearBell, tmuxVars, boundVars
<1>4. LockFree /\ UNCHANGED poll
  BY DEF ClearBell
<1> QED
  BY <1>1, <1>2, <1>3, <1>4, EntryWritten

LEMMA AdvanceHaltsKept ==
    ASSUME IInv, NEW s \in Names, AdvanceHalts(s) PROVE IInv'
<1> DEFINE e == Fired(bell[s])
<1>1. bell' = [bell EXCEPT ![s] = e] /\ e \in Entry /\ e.there /\ needs_attention(e)
  BY EntryFacts DEF AdvanceHalts
<1>2. history' \in History /\ history'.owed = history.owed \cup {s}
  BY DEF AdvanceHalts, History, IInv, Types
<1>3. Types'
  <2>1. bell' \in [Names -> Entry] /\ advancing' \subseteq Names
    BY <1>1 DEF IInv, Types, AdvanceHalts
  <2> QED
    BY <1>2, <2>1 DEF IInv, Types, AdvanceHalts, tmuxVars, boundVars
<1>4. LockFree /\ UNCHANGED poll
  BY DEF AdvanceHalts
<1> QED
  BY <1>1, <1>2, <1>3, <1>4, EntryWritten

-----------------------------------------------------------------------------
\* The cycle up to the load.
LEMMA PollBeginsKept ==
    ASSUME IInv, NEW ok \in BOOLEAN, PollBegins(ok) PROVE IInv'
<1>1. poll' = [phase |-> "lock"] /\ poll' \in Waiting
  BY DEF PollBegins, Waiting
<1>2. armed' \in BOOLEAN /\ hooked' \in BOOLEAN
  BY DEF PollBegins, ArmBellHook, IInv, Types
<1>3. Types'
  BY <1>1, <1>2 DEF IInv, Types, PollBegins, boundVars
<1> QED
  BY <1>1, <1>3, CycleMoves DEF PollBegins

LEMMA PollFailsKept ==
    ASSUME IInv, PollFails PROVE IInv'
<1>1. poll' = NoPoll /\ poll' \in Waiting /\ poll'.phase = "idle"
  BY DEF PollFails, NoPoll, Waiting
<1>2. Types'
  BY <1>1 DEF IInv, Types, PollFails, tmuxVars, boundVars
<1> QED
  BY <1>1, <1>2, CycleMoves DEF PollFails

LEMMA PollEnumeratesKept ==
    ASSUME IInv, PollEnumerates PROVE IInv'
<1>1. poll' = [phase |-> "listed", names |-> alive, young |-> young]
  BY DEF PollEnumerates
<1>2. poll' \in Listing /\ poll'.phase = "listed" /\ poll'.young \subseteq poll'.names
  BY <1>1 DEF Listing, IInv, Types
<1>3. Types'
  BY <1>2 DEF IInv, Types, PollEnumerates, tmuxVars, boundVars
<1> QED
  BY <1>2, <1>3 DEF IInv, Silent, Cycle, Settled, AboutToSettle, PollEnumerates

LEMMA PollLoadsKept ==
    ASSUME IInv, PollLoads PROVE IInv'
<1> DEFINE loaded == [s \in Names |-> IF s \notin poll.names THEN NoEntry
                                      ELSE IF bell[s].there THEN bell[s] ELSE Seeded(s)]
<1> DEFINE owed == {s \in poll.young : ~bell[s].there}
<1>1. poll \in Listing /\ poll.young \subseteq poll.names /\ poll.names \subseteq Names
  BY PhaseFacts DEF PollLoads, IInv, Cycle, Listing
<1>2. ASSUME NEW s \in Names
      PROVE  /\ loaded[s] \in Entry
             /\ ~loaded[s].there => ~needs_attention(loaded[s])
             /\ s \notin poll.names => ~needs_attention(loaded[s])
             /\ s \in poll.names =>
                  (needs_attention(loaded[s]) <=> s \in history.owed \cup owed)
  <2>1. CASE s \notin poll.names
    BY <2>1, EntryFacts
  <2>2. CASE s \in poll.names /\ bell[s].there
    <3>1. loaded[s] = bell[s] /\ s \notin owed
      BY <2>2
    <3> QED
      BY <2>2, <3>1 DEF IInv, Types, Settled
  <2>3. CASE s \in poll.names /\ ~bell[s].there
    <3>1. s \notin history.owed
      BY <2>3 DEF IInv, Settled, Silent
    <3>2. loaded[s] = Seeded(s) /\ (s \in owed <=> s \in poll.young)
      BY <2>3
    <3> QED
      BY <2>3, <3>1, <3>2, EntryFacts DEF Seeded
  <2> QED
    BY <2>1, <2>2, <2>3
<1>3. /\ poll' = [phase |-> "flags", names |-> poll.names, left |-> poll.names,
                  wired |-> ~armed, believed |-> armed, candidates |-> {},
                  bell |-> loaded, owed |-> owed]
      /\ UNCHANGED <<tmuxVars, posts, armed, seen, bell, advancing, boundVars, history>>
  BY DEF PollLoads, Polled, OnTransition
<1>4. loaded \in [Names -> Entry] /\ owed \subseteq poll.names
  BY <1>1, <1>2
<1> HIDE DEF loaded, owed
<1>5. /\ poll' \in Flagging /\ poll'.phase = "flags" /\ poll'.names = poll.names
      /\ poll'.left = poll.names /\ poll'.bell = loaded /\ poll'.owed = owed
  BY <1>1, <1>3, <1>4 DEF Flagging, IInv, Types
<1>6. Types'
  BY <1>3, <1>5 DEF IInv, Types, tmuxVars, boundVars
<1>7. Cycle' /\ AboutToSettle'
  BY <1>1, <1>2, <1>3, <1>4, <1>5 DEF Cycle, AboutToSettle, Silent
<1> QED
  BY <1>3, <1>6, <1>7 DEF IInv, Silent, Settled

\* One flag read: a new one is a bell of its own, and owed.
LEMMA PollFlagKept ==
    ASSUME IInv, NEW s \in Names, NEW told \in BOOLEAN, PollFlag(s, told) PROVE IInv'
<1>1. /\ poll \in Flagging /\ poll.phase = "flags" /\ s \in poll.left
      /\ poll.left \subseteq poll.names /\ poll.owed \subseteq poll.names
  BY PhaseFacts DEF PollFlag, IInv, Cycle
<1>2. /\ raised \in [Names -> Nat] /\ history \in History
      /\ history.forgot[s] \in Reasons
  BY DEF IInv, Types, History
<1>3. history' \in History /\ history'.owed = history.owed
  <2>1. CASE NewFlag(s, told)
    <3> DEFINE observed == Observe(history, "count", raised[s], "poll", history.forgot[s])
    <3> DEFINE forgotten == Forget(observed, {s}, "nothing")
    <3>1. observed \in History /\ observed.owed = history.owed
      BY <1>2, ObserveFacts DEF Whats, Mechanism
    <3>2. forgotten \in History /\ forgotten.owed = history.owed
      BY <3>1, ForgetFacts DEF Reasons
    <3>3. history' = [forgotten EXCEPT !.unknown = IF hooked /\ ~poll.believed
                                                   THEN @ \cup {raised[s]} ELSE @]
      BY <2>1 DEF PollFlag
    <3> HIDE DEF observed, forgotten
    <3> QED
      BY <1>2, <3>2, <3>3 DEF History
  <2>2. CASE ~NewFlag(s, told)
    BY <1>2, <2>2, ForgetFacts DEF PollFlag, Reasons
  <2> QED
    BY <2>1, <2>2
<1>4. seen' \subseteq Names
  BY DEF PollFlag, IInv, Types
<1> DEFINE marked == IF NewFlag(s, told) THEN Fired(poll.bell[s]) ELSE poll.bell[s]
<1> DEFINE owed == IF NewFlag(s, told) THEN poll.owed \cup {s} ELSE poll.owed
<1> DEFINE more == IF NewFlag(s, told) /\ poll.wired
                   THEN poll.candidates \cup {<<s, raised[s], history.forgot[s]>>}
                   ELSE poll.candidates
<1>5. /\ poll' = [poll EXCEPT !.left = poll.left \ {s}, !.bell[s] = marked,
                              !.owed = owed, !.candidates = more]
      /\ UNCHANGED <<tmuxVars, posts, armed, bell, advancing, boundVars>>
  BY DEF PollFlag
<1>6. marked \in Entry /\ owed \subseteq poll.names /\ more \subseteq Candidates
  BY <1>1, <1>2, EntryFacts DEF Flagging, Candidates
<1>7. /\ needs_attention(marked) <=> NewFlag(s, told) \/ needs_attention(poll.bell[s])
      /\ ~marked.there => ~needs_attention(marked)
  BY EntryFacts DEF IInv, Cycle, Silent, PollFlag
<1> HIDE DEF marked, more
<1>8. poll' \in Flagging
  BY <1>1, <1>5, <1>6 DEF Flagging
<1>9. /\ poll'.phase = "flags" /\ poll'.names = poll.names
      /\ poll'.left = poll.left \ {s} /\ poll'.owed = owed
  BY <1>1, <1>5 DEF Flagging
<1>10. poll'.bell = [poll.bell EXCEPT ![s] = marked]
  BY <1>1, <1>5 DEF Flagging
<1>11. \A t \in Names : poll'.bell[t] = IF t = s THEN marked ELSE poll.bell[t]
  BY <1>1, <1>10 DEF Flagging
<1>12. Types'
  BY <1>3, <1>4, <1>5, <1>8 DEF IInv, Types, tmuxVars, boundVars
<1>13. Cycle'
  BY <1>1, <1>6, <1>7, <1>9, <1>11 DEF IInv, Cycle, Silent
<1>14. AboutToSettle'
  <2>1. poll.names \subseteq Names
    BY <1>1 DEF Flagging
  <2>2. ASSUME NEW t \in poll.names
        PROVE  needs_attention(poll'.bell[t]) <=> t \in history.owed \cup owed
    <3>1. needs_attention(poll.bell[t]) <=> t \in history.owed \cup poll.owed
      BY <1>1 DEF IInv, AboutToSettle
    <3> QED
      BY <1>7, <1>11, <2>1, <3>1
  <2> QED
    BY <1>3, <1>9, <2>2 DEF AboutToSettle
<1> QED
  BY <1>3, <1>5, <1>12, <1>13, <1>14 DEF IInv, Silent, Settled

LEMMA AdvancingFacts ==
    ASSUME NEW candidates \in SUBSET Candidates
    PROVE  /\ Advancing(candidates) \in Waiting \cup Offering
           /\ Advancing(candidates).phase \in {"idle", "advance"}
  BY DEF Advancing, NoPoll, Waiting, Offering

\* The save: what the cycle loaded and changed, less what is being looked at.
LEMMA PollSavesKept ==
    ASSUME IInv, NEW viewed \in SUBSET Names, PollSaves(viewed) PROVE IInv'
<1> DEFINE cleared == ClearRule(viewed)
<1> DEFINE forgotten == Forget(history, Up(cleared \cap seen), "clear rule")
<1>1. /\ poll \in Flagging /\ poll.phase = "flags" /\ viewed \subseteq poll.names
      /\ poll.names \subseteq Names /\ poll.owed \subseteq poll.names
      /\ poll.bell \in [Names -> Entry] /\ poll.candidates \subseteq Candidates
  BY PhaseFacts DEF PollSaves, IInv, Cycle, Flagging
<1>2. cleared \subseteq viewed /\ \A s \in viewed \ cleared : ~needs_attention(poll.bell[s])
  BY <1>1, EntryFacts DEF ClearRule, needs_attention
<1>3. forgotten \in History /\ forgotten.owed = history.owed
  BY ForgetFacts DEF IInv, Types, Reasons
<1>4. /\ bell' = [s \in Names |-> IF s \in cleared THEN Acknowledged(poll.bell[s])
                                  ELSE poll.bell[s]]
      /\ seen' = seen \ cleared
      /\ poll' = Advancing(poll.candidates)
      /\ history' = [forgotten EXCEPT !.owed = ((@ \cap poll.names) \cup poll.owed) \ cleared]
      /\ UNCHANGED <<tmuxVars, posts, armed, advancing, boundVars>>
  BY DEF PollSaves
<1> HIDE DEF cleared, forgotten
<1>5. /\ history' \in History
      /\ history'.owed = ((history.owed \cap poll.names) \cup poll.owed) \ cleared
  BY <1>1, <1>3, <1>4 DEF History
<1>6. ASSUME NEW s \in Names
      PROVE  /\ bell'[s] \in Entry
             /\ ~bell'[s].there => ~needs_attention(bell'[s])
             /\ needs_attention(bell'[s]) <=> s \in history'.owed
  <2>1. poll.bell[s] \in Entry
    BY <1>1
  <2>2. CASE s \in cleared
    BY <1>4, <1>5, <2>1, <2>2, EntryFacts
  <2>3. CASE s \notin cleared
    <3>1. bell'[s] = poll.bell[s]
      BY <1>4, <2>3
    <3>2. CASE s \in poll.names
      BY <1>1, <1>5, <2>1, <2>3, <3>1, <3>2 DEF IInv, AboutToSettle, Cycle, Silent
    <3>3. CASE s \notin poll.names
      BY <1>1, <1>5, <2>1, <3>1, <3>3 DEF IInv, Cycle, Silent
    <3> QED
      BY <3>2, <3>3
  <2> QED
    BY <2>2, <2>3
<1>7. bell' \in [Names -> Entry]
  BY <1>4, <1>6
<1>8. poll' \in Waiting \cup Offering /\ poll'.phase \in {"idle", "advance"}
  BY <1>1, <1>4, AdvancingFacts
<1>9. Types'
  BY <1>4, <1>5, <1>7, <1>8 DEF IInv, Types, tmuxVars, boundVars
<1> QED
  BY <1>6, <1>8, <1>9 DEF IInv, Silent, Cycle, Settled, AboutToSettle

LEMMA PollAdvancesKept ==
    ASSUME IInv, poll.phase = "advance", NEW c \in poll.candidates, PollAdvances(c)
    PROVE  IInv'
<1>1. poll.candidates \subseteq Candidates
  BY PhaseFacts DEF IInv, Offering
<1>2. c[1] \in Names /\ c[2] \in Nat /\ c[3] \in Reasons
  BY <1>1 DEF Candidates
<1>3. history' \in History /\ history'.owed = history.owed
  BY <1>2, ObserveFacts DEF PollAdvances, IInv, Types, Whats, Mechanism
<1>4. poll' \in Waiting \cup Offering /\ poll'.phase \in {"idle", "advance"}
  <2>1. poll.candidates \ {c} \in SUBSET Candidates
    BY <1>1
  <2> QED
    BY <2>1, AdvancingFacts DEF PollAdvances
<1>5. Types'
  BY <1>2, <1>3, <1>4 DEF IInv, Types, PollAdvances, tmuxVars, boundVars
<1> QED
  BY <1>3, <1>4, <1>5, CycleMoves DEF PollAdvances

LEMMA RestartKept ==
    ASSUME IInv, Restart PROVE IInv'
<1>1. poll' = NoPoll /\ poll' \in Waiting /\ poll'.phase = "idle"
  BY DEF Restart, NoPoll, Waiting
<1>2. history' \in History /\ history'.owed = history.owed
  BY ForgetFacts DEF Restart, IInv, Types, Reasons
<1>3. Types'
  <2>1. /\ young' \subseteq alive' /\ alive' \subseteq Names /\ seen' \subseteq Names
        /\ advancing' \subseteq Names /\ armed' \in BOOLEAN
    <3>1. young' = {} /\ seen' = {} /\ advancing' = {} /\ armed' = FALSE /\ alive' = alive
      BY DEF Restart
    <3>2. alive \subseteq Names
      BY DEF IInv, Types
    <3> QED
      BY <3>1, <3>2
  <2>2. UNCHANGED <<alive, raised, hooked, posts, bell, rings>>
    BY DEF Restart
  <2>3. Types
    BY DEF IInv
  <2>4. /\ raised' \in [Names -> Nat] /\ hooked' \in BOOLEAN /\ posts' \subseteq Names \X Nat
        /\ bell' \in [Names -> Entry] /\ rings' \in Nat
    BY <2>2, <2>3 DEF Types
  <2>5. upheavals' \in Nat
    BY <2>3 DEF Types, Restart
  <2> QED
    BY <1>1, <1>2, <2>1, <2>4, <2>5 DEF Types
<1> QED
  BY <1>1, <1>2, <1>3, CycleMoves DEF Restart

LEMMA NextInv == IInv /\ [Next]_vars => IInv'
<1> SUFFICES ASSUME IInv, [Next]_vars PROVE IInv'
  OBVIOUS
<1>1. CASE Poll
  BY <1>1, PollBeginsKept, PollEnumeratesKept, PollLoadsKept, PollFlagKept, PollSavesKept,
     PollAdvancesKept DEF Poll
<1>2. CASE UNCHANGED vars
  <2>1. UNCHANGED <<alive, young, raised, hooked, posts, armed, seen, bell, poll, advancing,
                    rings, upheavals, history>>
    BY <1>2 DEF vars, tmuxVars, serverVars, boundVars
  <2>2. Types'
    BY <2>1 DEF IInv, Types
  <2> QED
    BY <2>1, <2>2, NothingSaid
<1> QED
  BY <1>1, <1>2, WorldKept, ReceiveBellKept, ClearBellKept, AdvanceHaltsKept,
     PollFailsKept, RestartKept DEF Next

\* No ring the server was told of is lost to the interleaving of the handlers with
\* a poll cycle that saves what it loaded (_run_poll_cycle in main.py).
THEOREM OwedAlwaysAsks == Spec => []OwedAsksForAttention
<1>1. IInv => OwedAsksForAttention
  BY DEF IInv, Types, History, Settled, OwedAsksForAttention
<1> QED
  BY <1>1, InitInv, NextInv, PTL DEF Spec

\* And an acknowledged bell does not come back by itself (needs_attention,
\* apply_bell_clear_rule in bells.py).
THEOREM NeverIdleAlarm == Spec => []NoIdleAlarm
<1>1. IInv => NoIdleAlarm
  BY DEF IInv, Settled, NoIdleAlarm
<1> QED
  BY <1>1, InitInv, NextInv, PTL DEF Spec
-----------------------------------------------------------------------------
(* One ring is one bell.  A ring has a number of its own, and belongs to the *)
(* session whose flag it raised and to the request its hook posts.           *)

Counted(r)  == <<"count", r, "poll">> \in history.done
Offered(r)  == <<"advance", r, "poll">> \in history.done
Received(r) == <<"advance", r, "hook">> \in history.done
Reported(r) == Received(r) \/ \E p \in posts : p[2] = r

\* Why the server may not remember a flag.
Causes == {"nothing"} \cup Excused

\* The transitions the running cycle is to offer to the queue.
Waits == IF poll.phase \in {"flags", "advance"} THEN poll.candidates ELSE {}

\* A ring is at one flag and in one request, and is received once.
RingsApart ==
  /\ \A o \in history.done : o[2] \in 1..rings
  /\ \A s \in Names : raised[s] # 0 => raised[s] \in 1..rings /\ s \in alive
  /\ \A s, t \in Names : raised[s] # 0 /\ raised[s] = raised[t] => s = t
  /\ \A p \in posts : p[2] \in 1..rings /\ ~Received(p[2])
  /\ \A p, q \in posts : p[2] = q[2] => p = q

\* A flag that is up, was counted and is not remembered was forgotten for a reason.
FlagsRemembered ==
  \A s \in Names :
    /\ history.forgot[s] \in Causes
    /\ raised[s] # 0 /\ Counted(raised[s]) /\ s \notin seen => history.forgot[s] \in Excused

\* A ring waits to be offered at most once, for the session it belongs to, and was
\* counted; it was offered before only if its flag was forgotten.
WaitsOnce ==
  /\ \A r : Offered(r) => Counted(r)
  /\ \A c \in Waits : /\ c[2] \in 1..rings /\ Counted(c[2]) /\ c[3] \in Causes
                      /\ c[3] \notin Excused => ~Offered(c[2])
  /\ \A c, d \in Waits : c[2] = d[2] => c = d
  /\ \A c \in Waits, s \in Names : raised[s] = c[2] => c[1] = s
  /\ poll.phase = "flags" => \A c \in Waits : c[1] \notin poll.left

\* A ring that was reported was so by a hook that is still set while its flag is
\* up; one that the poll offers as well was read beside a hook not known of.
HookNoted ==
  /\ \A s \in Names : raised[s] # 0 /\ Reported(raised[s]) => hooked
  /\ \A c \in Waits : Reported(c[2]) => c[2] \in history.unknown
  /\ \A r : Offered(r) /\ Reported(r) => r \in history.unknown
  /\ poll.phase = "flags" => (poll.wired => ~poll.believed)

Once == RingsApart /\ FlagsRemembered /\ WaitsOnce /\ HookNoted
        /\ history.twice = {}

\* A step that counts, offers and reports nothing: flags may fall and requests be
\* lost, what is seen of a flag that is up stays seen, and the hook stays set.
LEMMA NothingObserved ==
    ASSUME IInv, Once, rings' = rings,
           \A s \in Names : raised'[s] = 0
                            \/ (raised'[s] = raised[s] /\ (s \in alive => s \in alive')),
           (\E s \in Names : raised'[s] # 0) /\ hooked => hooked',
           posts' \subseteq posts,
           \A s \in seen : raised'[s] # 0 => s \in seen',
           history'.done = history.done, history'.twice = history.twice,
           history'.unknown = history.unknown,
           \A s \in Names : \/ history'.forgot[s] = history.forgot[s]
                            \/ raised'[s] = 0 /\ history'.forgot[s] \in Causes,
           Waits' \subseteq Waits,
           poll'.phase = "flags" => /\ poll'.wired => ~poll'.believed
                                    /\ \A c \in Waits' : c[1] \notin poll'.left
    PROVE  Once'
<1>1. \A r : /\ Counted(r)' <=> Counted(r)
             /\ Offered(r)' <=> Offered(r)
             /\ Received(r)' <=> Received(r)
             /\ Reported(r)' => Reported(r)
  BY DEF Counted, Offered, Received, Reported
<1>2. RingsApart'
  BY <1>1 DEF Once, RingsApart
<1>3. FlagsRemembered'
  BY <1>1 DEF Once, FlagsRemembered
<1>4. WaitsOnce'
  <2>1. /\ \A r : Offered(r)' => Counted(r)'
        /\ \A c \in Waits' : /\ c[2] \in 1..rings' /\ Counted(c[2])' /\ c[3] \in Causes
                             /\ c[3] \notin Excused => ~Offered(c[2])'
    BY <1>1 DEF Once, WaitsOnce
  <2>2. \A c, d \in Waits' : c[2] = d[2] => c = d
    BY DEF Once, WaitsOnce
  <2>3. ASSUME NEW c \in Waits', NEW s \in Names, raised'[s] = c[2] PROVE c[1] = s
    <3>1. c \in Waits /\ c[2] # 0
      BY DEF Once, WaitsOnce
    <3> QED
      BY <2>3, <3>1 DEF Once, WaitsOnce
  <2> QED
    BY <2>1, <2>2, <2>3 DEF WaitsOnce
<1>5. HookNoted'
  BY <1>1 DEF Once, HookNoted
<1> QED
  BY <1>2, <1>3, <1>4, <1>5 DEF Once

LEMMA RingOnce ==
    ASSUME IInv, Once, NEW s \in Names, NEW watched \in BOOLEAN, Ring(s, watched)
    PROVE  Once'
<1> DEFINE r == rings + 1
<1>1. /\ rings \in Nat /\ rings' = r /\ s \in alive
      /\ UNCHANGED <<alive, hooked, seen, poll, history>>
      /\ posts' = IF hooked THEN posts \cup {<<s, r>>} ELSE posts
      /\ raised \in [Names -> Nat]
  BY DEF Ring, IInv, Types, serverVars
<1>2. \A t \in Names : \/ raised'[t] = raised[t]
                       \/ t = s /\ raised[t] = 0 /\ raised'[t] = r
  BY <1>1 DEF Ring
<1>3. Waits' = Waits
  BY <1>1 DEF Waits
<1>4. /\ \A o \in history.done : o[2] # r
      /\ \A p \in posts : p[2] # r
      /\ \A c \in Waits : c[2] # r
      /\ \A t \in Names : raised[t] # r
  BY <1>1 DEF Once, RingsApart, WaitsOnce
<1>5. /\ \A q : Counted(q)' <=> Counted(q)
      /\ \A q : Offered(q)' <=> Offered(q)
      /\ \A q : Reported(q)' => Reported(q) \/ (q = r /\ hooked)
      /\ \A q : Received(q)' <=> Received(q)
      /\ ~Counted(r) /\ ~Offered(r) /\ ~Received(r)
  <2>1. \A q : ~(<<"count", q, "poll">> \in history.done /\ q = r)
    BY <1>4
  <2>2. \A q : ~(<<"advance", q, "poll">> \in history.done /\ q = r)
    BY <1>4
  <2>3. \A q : ~(<<"advance", q, "hook">> \in history.done /\ q = r)
    BY <1>4
  <2>4. \A p \in posts' : p \in posts \/ (hooked /\ p = <<s, r>>)
    <3>1. CASE hooked
      BY <1>1, <3>1
    <3>2. CASE ~hooked
      BY <1>1, <3>2
    <3> QED
      BY <3>1, <3>2
  <2>5. \A q : /\ Counted(q)' <=> Counted(q)
               /\ Offered(q)' <=> Offered(q)
               /\ Received(q)' <=> Received(q)
    BY <1>1 DEF Counted, Offered, Received
  <2>6. ~Counted(r) /\ ~Offered(r) /\ ~Received(r)
    BY <2>1, <2>2, <2>3 DEF Counted, Offered, Received
  <2>7. ASSUME NEW q, Reported(q)' PROVE Reported(q) \/ (q = r /\ hooked)
    <3>1. CASE Received(q)'
      BY <2>5, <3>1 DEF Reported
    <3>2. CASE \E p \in posts' : p[2] = q
      <4>1. PICK p \in posts' : p[2] = q
        BY <3>2
      <4>2. CASE p \in posts
        BY <4>1, <4>2 DEF Reported
      <4>3. CASE hooked /\ p = <<s, r>>
        BY <4>1, <4>3
      <4> QED
        BY <2>4, <4>2, <4>3
    <3> QED
      BY <2>7, <3>1, <3>2 DEF Reported
  <2> QED
    BY <2>5, <2>6, <2>7
<1>6. RingsApart'
  <2>1. \A o \in history'.done : o[2] \in 1..rings'
    BY <1>1 DEF Once, RingsApart
  <2>2. /\ \A t \in Names : raised'[t] # 0 => raised'[t] \in 1..rings' /\ t \in alive'
        /\ \A t, u \in Names : raised'[t] # 0 /\ raised'[t] = raised'[u] => t = u
    BY <1>1, <1>2, <1>4 DEF Once, RingsApart
  <2>3. \A p \in posts' : p \in posts \/ p = <<s, r>>
    BY <1>1
  <2>4. \A p \in posts' : p[2] \in 1..rings' /\ ~Received(p[2])'
    BY <1>1, <1>5, <2>3 DEF Once, RingsApart
  <2>5. \A p, q \in posts' : p[2] = q[2] => p = q
    BY <1>4, <2>3 DEF Once, RingsApart
  <2> QED
    BY <2>1, <2>2, <2>4, <2>5 DEF RingsApart
<1>7. FlagsRemembered'
  BY <1>1, <1>2, <1>5 DEF Once, FlagsRemembered
<1>8. WaitsOnce'
  <2>1. \A q : Offered(q)' => Counted(q)'
    BY <1>1, <1>5 DEF Once, WaitsOnce
  <2>2. /\ \A c \in Waits : /\ c[2] \in 1..rings' /\ Counted(c[2])' /\ c[3] \in Causes
                            /\ c[3] \notin Excused => ~Offered(c[2])'
        /\ \A c, d \in Waits : c[2] = d[2] => c = d
    BY <1>1, <1>5 DEF Once, WaitsOnce
  <2>3. \A c \in Waits, t \in Names : raised'[t] = c[2] => c[1] = t
    BY <1>2, <1>4 DEF Once, WaitsOnce
  <2>4. poll'.phase = "flags" => \A c \in Waits : c[1] \notin poll'.left
    BY <1>1 DEF Once, WaitsOnce
  <2> QED
    BY <1>3, <2>1, <2>2, <2>3, <2>4 DEF WaitsOnce
<1>9. HookNoted'
  <2>1. ASSUME NEW t \in Names, raised'[t] # 0, Reported(raised[t])' PROVE hooked'
    <3>1. PICK v : v = raised'[t]
      OBVIOUS
    <3>2. Reported(v)'
      BY <2>1, <3>1 DEF Reported
    <3>3. ~Reported(r)
      BY <1>4, <1>5 DEF Reported
    <3>4. CASE v = r
      BY <1>1, <1>5, <3>2, <3>3, <3>4
    <3>5. CASE v # r
      <4>1. raised[t] = v /\ Reported(v) /\ v # 0
        BY <1>2, <1>5, <2>1, <3>1, <3>2, <3>5
      <4>2. hooked
        BY <4>1 DEF Once, HookNoted
      <4> QED
        BY <1>1, <4>2
    <3> QED
      BY <3>4, <3>5
  <2>2. \A c \in Waits : Reported(c[2])' => c[2] \in history'.unknown
    BY <1>1, <1>4, <1>5 DEF Once, HookNoted
  <2>3. \A q : Offered(q)' /\ Reported(q)' => q \in history'.unknown
    BY <1>1, <1>5 DEF Once, HookNoted
  <2>4. poll'.phase = "flags" => (poll'.wired => ~poll'.believed)
    BY <1>1 DEF Once, HookNoted
  <2> QED
    BY <1>3, <2>1, <2>2, <2>3, <2>4 DEF HookNoted
<1> QED
  BY <1>1, <1>6, <1>7, <1>8, <1>9 DEF Once

LEMMA ReceiveBellOnce ==
    ASSUME IInv, Once, NEW p \in posts, ReceiveBell(p) PROVE Once'
<1> DEFINE o == <<"advance", p[2], "hook">>
<1>1. /\ ~Received(p[2]) /\ p[2] \in 1..rings /\ history \in History
      /\ UNCHANGED <<alive, raised, hooked, seen, poll, rings>> /\ posts' = posts \ {p}
  BY DEF Once, RingsApart, ReceiveBell, IInv, Types, tmuxVars, boundVars
<1>2. /\ history'.done = history.done \cup {o} /\ history'.twice = history.twice
      /\ history'.unknown = history.unknown /\ history'.forgot = history.forgot
  <2> DEFINE g == Observe(history, "advance", p[2], "hook", "posted twice")
  <2>1. /\ g.done = history.done \cup {o} /\ g.twice = history.twice
        /\ g.unknown = history.unknown /\ g.forgot = history.forgot
    <3>1. o \notin history.done
      BY <1>1 DEF Received
    <3>2. g = [history EXCEPT !.done = @ \cup {o}]
      BY <3>1 DEF Observe
    <3>3. history \in History
      BY <1>1
    <3> HIDE DEF g, o
    <3> QED
      BY <3>2, <3>3 DEF History
  <2>2. history' = [g EXCEPT !.owed = @ \cup {p[1]}]
    BY DEF ReceiveBell
  <2>3. g \in History
    BY <1>1, ObserveFacts DEF IInv, Types, Whats, Mechanism, Reasons
  <2> HIDE DEF g
  <2> QED
    BY <2>1, <2>2, <2>3 DEF History
<1>3. Waits' = Waits
  BY <1>1 DEF Waits
<1>4. /\ \A r : Counted(r)' <=> Counted(r)
      /\ \A r : Offered(r)' <=> Offered(r)
      /\ \A r : Received(r)' <=> Received(r) \/ r = p[2]
      /\ \A r : Reported(r)' => Reported(r)
  BY <1>1, <1>2 DEF Counted, Offered, Received, Reported
<1>5. RingsApart'
  <2>1. \A e \in history'.done : e[2] \in 1..rings'
    BY <1>1, <1>2 DEF Once, RingsApart
  <2>2. ASSUME NEW q \in posts'
        PROVE  q[2] \in 1..rings' /\ ~Received(q[2])'
    <3>1. q \in posts /\ q # p
      BY <1>1
    <3>2. q[2] # p[2]
      BY <3>1 DEF Once, RingsApart
    <3> QED
      BY <1>1, <1>4, <3>1, <3>2 DEF Once, RingsApart
  <2> QED
    BY <1>1, <2>1, <2>2 DEF Once, RingsApart
<1>6. FlagsRemembered' /\ WaitsOnce' /\ HookNoted'
  BY <1>1, <1>2, <1>3, <1>4 DEF Once, FlagsRemembered, WaitsOnce, HookNoted
<1> QED
  BY <1>2, <1>5, <1>6 DEF Once

\* The server forgets flags, for a reason.
LEMMA FlagsForgotten ==
    ASSUME IInv, Once, UNCHANGED <<alive, raised, hooked, posts, rings>>,
           NEW gone, NEW why \in Excused, seen' = seen \ gone,
           Waits' \subseteq Waits,
           poll'.phase = "flags" => /\ poll'.wired => ~poll'.believed
                                    /\ \A c \in Waits' : c[1] \notin poll'.left,
           history'.done = history.done, history'.twice = history.twice,
           history'.unknown = history.unknown,
           \A t \in Names : history'.forgot[t] = IF t \in Up(gone \cap seen) THEN why
                                                 ELSE history.forgot[t]
    PROVE  Once'
<1>1. \A r : /\ Counted(r)' <=> Counted(r)
             /\ Offered(r)' <=> Offered(r)
             /\ Received(r)' <=> Received(r)
             /\ Reported(r)' <=> Reported(r)
  BY DEF Counted, Offered, Received, Reported
<1>2. RingsApart'
  BY <1>1 DEF Once, RingsApart
<1>3. why \in Causes
  BY DEF Causes
<1>4. FlagsRemembered'
  BY <1>1, <1>3 DEF Once, FlagsRemembered, Up
<1>5. WaitsOnce'
  <2>1. \A c \in Waits' : /\ c[2] \in 1..rings' /\ Counted(c[2])' /\ c[3] \in Causes
                          /\ c[3] \notin Excused => ~Offered(c[2])'
    BY <1>1 DEF Once, WaitsOnce
  <2> QED
    BY <1>1, <2>1 DEF Once, WaitsOnce
<1>6. HookNoted'
  <2>1. \A s \in Names : raised'[s] # 0 /\ Reported(raised[s])' => hooked'
    BY <1>1 DEF Once, HookNoted
  <2> QED
    BY <1>1, <2>1 DEF Once, HookNoted
<1> QED
  BY <1>2, <1>4, <1>5, <1>6 DEF Once

\* A flag is read: a new one is counted, and waits to be offered if no hook is
\* known of.
LEMMA PollFlagOnce ==
    ASSUME IInv, Once, NEW s \in Names, NEW told \in BOOLEAN, PollFlag(s, told) PROVE Once'
<1>1. /\ poll \in Flagging /\ poll.phase = "flags" /\ s \in poll.left
      /\ raised \in [Names -> Nat] /\ history \in History /\ rings \in Nat
      /\ seen \subseteq Names
      /\ UNCHANGED <<alive, raised, hooked, posts, rings>>
  BY PhaseFacts DEF PollFlag, IInv, Types, tmuxVars, boundVars
<1>2. /\ poll'.phase = "flags" /\ poll'.left = poll.left \ {s}
      /\ poll'.wired = poll.wired /\ poll'.believed = poll.believed
      /\ poll'.candidates = IF NewFlag(s, told) /\ poll.wired
                            THEN poll.candidates \cup {<<s, raised[s], history.forgot[s]>>}
                            ELSE poll.candidates
  BY <1>1 DEF PollFlag, Flagging
<1>3. Waits = poll.candidates /\ Waits' = poll'.candidates
  BY <1>1, <1>2 DEF Waits
<1>4. CASE ~NewFlag(s, told)
  <2>1. /\ poll'.wired => ~poll'.believed
        /\ \A c \in Waits' : c[1] \notin poll'.left
    BY <1>1, <1>2, <1>3, <1>4 DEF Once, HookNoted, WaitsOnce
  <2>2. Waits' = Waits
    BY <1>2, <1>3, <1>4
  <2>7. CASE told
    <3>1. history' = history /\ \A t \in seen : raised'[t] # 0 => t \in seen'
      BY <1>1, <1>4, <2>7 DEF PollFlag, FallenFlag
    <3> QED
      BY <1>1, <2>1, <2>2, <3>1, NothingObserved
  <2>8. CASE ~told
    <3>1. PICK why : why = "failed read"
      OBVIOUS
    <3>2. why \in Excused
      BY <3>1 DEF Excused
    <3>3. seen' = seen \ {s} /\ history' = Forget(history, Up({s} \cap seen), why)
      BY <1>4, <2>8, <3>1 DEF PollFlag, FallenFlag
    <3>4. /\ history'.done = history.done /\ history'.twice = history.twice
          /\ history'.unknown = history.unknown
          /\ \A t \in Names : history'.forgot[t] = IF t \in Up({s} \cap seen) THEN why
                                                   ELSE history.forgot[t]
      BY <1>1, <3>3, ForgetLeaves
    <3> QED
      BY <1>1, <2>1, <2>2, <3>2, <3>3, <3>4, FlagsForgotten
  <2> QED
    BY <2>7, <2>8
<1>5. CASE NewFlag(s, told)
  <2> DEFINE r == raised[s]
             why == history.forgot[s]
             o == <<"count", r, "poll">>
             g == Observe(history, "count", r, "poll", why)
             h == Forget(g, {s}, "nothing")
  <2>1. r \in 1..rings /\ r # 0 /\ s \notin seen /\ seen' = seen \cup {s} /\ why \in Reasons
    BY <1>1, <1>5 DEF NewFlag, Once, RingsApart, PollFlag, History
  <2>2. /\ g.done = history.done \cup {o}
        /\ g.twice = IF o \in history.done THEN history.twice \cup ({why} \ Excused)
                     ELSE history.twice
        /\ g.unknown = history.unknown /\ g.forgot = history.forgot
    <3> DEFINE two == {why} \ Excused
    <3>1. g = IF o \in history.done THEN [history EXCEPT !.twice = @ \cup two]
              ELSE [history EXCEPT !.done = @ \cup {o}]
      BY DEF Observe
    <3>2. history \in History
      BY <1>1
    <3> HIDE DEF g, o, two
    <3>3. /\ g.done = history.done \cup {o}
          /\ g.twice = IF o \in history.done THEN history.twice \cup two ELSE history.twice
          /\ g.unknown = history.unknown /\ g.forgot = history.forgot
      <4>1. CASE o \in history.done
        <5>1. history.done \cup {o} = history.done
          BY <4>1
        <5>2. g = [history EXCEPT !.twice = @ \cup two]
          BY <3>1, <4>1
        <5> QED
          BY <3>2, <4>1, <5>1, <5>2 DEF History
      <4>2. CASE o \notin history.done
        <5>1. g = [history EXCEPT !.done = @ \cup {o}]
          BY <3>1, <4>2
        <5> QED
          BY <3>2, <4>2, <5>1 DEF History
      <4> QED
        BY <4>1, <4>2
    <3> QED
      BY <3>3 DEF two
  <2>3. g \in History
    BY <1>1, <2>1, ObserveFacts DEF Whats, Mechanism
  <2>4. /\ h \in History /\ h.done = g.done /\ h.twice = g.twice /\ h.unknown = g.unknown
        /\ h.forgot = [t \in Names |-> IF t \in {s} THEN "nothing" ELSE g.forgot[t]]
    <3>1. h \in History
      BY <2>3, ForgetFacts DEF Reasons
    <3>2. /\ \A c : Forget(g, {s}, c) = [g EXCEPT !.forgot = [t \in Names |->
                                             IF t \in {s} THEN c ELSE @[t]]]
      BY DEF Forget
    <3>3. PICK c : c = "nothing"
      OBVIOUS
    <3>4. h = [g EXCEPT !.forgot = [t \in Names |-> IF t \in {s} THEN c ELSE @[t]]]
      BY <3>2, <3>3
    <3> HIDE DEF g, h
    <3>5. /\ h.done = g.done /\ h.twice = g.twice /\ h.unknown = g.unknown
          /\ h.forgot = [t \in Names |-> IF t \in {s} THEN c ELSE g.forgot[t]]
      BY <2>3, <3>4 DEF History
    <3> QED
      BY <3>1, <3>3, <3>5
  <2>5. history' = [h EXCEPT !.unknown = IF hooked /\ ~poll.believed
                                         THEN @ \cup {r} ELSE @]
    BY <1>5 DEF PollFlag
  <2> HIDE DEF g, h
  <2>6. /\ history'.done = history.done \cup {o}
        /\ history'.twice = IF o \in history.done THEN history.twice \cup ({why} \ Excused)
                            ELSE history.twice
        /\ history'.unknown = IF hooked /\ ~poll.believed THEN history.unknown \cup {r}
                              ELSE history.unknown
        /\ \A t \in Names : history'.forgot[t] = IF t = s THEN "nothing" ELSE history.forgot[t]
    BY <2>2, <2>4, <2>5 DEF History
  <2>7. /\ \A q : Counted(q)' <=> Counted(q) \/ q = r
        /\ \A q : Offered(q)' <=> Offered(q)
        /\ \A q : Reported(q)' <=> Reported(q)
        /\ \A q : Received(q)' <=> Received(q)
        /\ Counted(r) <=> o \in history.done
    BY <1>1, <2>6 DEF Counted, Offered, Received, Reported
  <2>8. /\ why \in Causes
        /\ Counted(r) => why \in Excused
        /\ \A t \in Names : t # s => raised[t] # r
    BY <1>1, <2>1 DEF Once, FlagsRemembered, RingsApart
  <2>9. history'.twice = {}
    BY <2>6, <2>7, <2>8 DEF Once
  <2>10. RingsApart'
    <3>1. \A e \in history'.done : e[2] \in 1..rings'
      BY <1>1, <2>1, <2>6 DEF Once, RingsApart
    <3> QED
      BY <1>1, <2>7, <3>1 DEF Once, RingsApart
  <2>11. FlagsRemembered'
    <3>1. "nothing" \in Causes
      BY DEF Causes
    <3>2. \A t \in Names : history'.forgot[t] \in Causes
      BY <2>6, <3>1 DEF Once, FlagsRemembered
    <3> QED
      BY <1>1, <2>1, <2>6, <2>7, <2>8, <3>2 DEF Once, FlagsRemembered
  <2> DEFINE new == <<s, r, why>>
  <2>12. /\ \A c \in Waits' : c \in Waits \/ (c = new /\ poll.wired)
         /\ \A c \in Waits : c[2] # r /\ c[1] # s
    <3>1. \A c \in Waits' : c \in Waits \/ (c = new /\ poll.wired)
      <4>1. CASE poll.wired
        BY <1>2, <1>3, <1>5, <4>1
      <4>2. CASE ~poll.wired
        BY <1>2, <1>3, <1>5, <4>2
      <4> QED
        BY <4>1, <4>2
    <3>2. \A c \in Waits : c[1] # s
      BY <1>1 DEF Once, WaitsOnce
    <3>3. \A c \in Waits : c[2] # r
      BY <3>2 DEF Once, WaitsOnce
    <3> QED
      BY <3>1, <3>2, <3>3
  <2>13. WaitsOnce'
    <3>1. \A q : Offered(q)' => Counted(q)'
      BY <1>1, <2>7 DEF Once, WaitsOnce
    <3>2. ASSUME NEW c \in Waits'
          PROVE  /\ c[2] \in 1..rings' /\ Counted(c[2])' /\ c[3] \in Causes
                 /\ c[3] \notin Excused => ~Offered(c[2])'
                 /\ c[1] \notin poll'.left
      <4>1. CASE c \in Waits
        BY <1>1, <1>2, <2>7, <4>1 DEF Once, WaitsOnce
      <4>2. CASE c = new
        <5>1. c[1] = s /\ c[2] = r /\ c[3] = why
          BY <4>2
        <5>2. Offered(r) => Counted(r)
          BY <2>1 DEF Once, WaitsOnce
        <5> QED
          BY <1>1, <1>2, <2>1, <2>7, <2>8, <5>1, <5>2
      <4> QED
        BY <2>12, <4>1, <4>2
    <3>3. \A c, d \in Waits' : c[2] = d[2] => c = d
      BY <2>12 DEF Once, WaitsOnce
    <3>4. \A c \in Waits', t \in Names : raised'[t] = c[2] => c[1] = t
      BY <1>1, <2>8, <2>12 DEF Once, WaitsOnce
    <3> QED
      BY <3>1, <3>2, <3>3, <3>4 DEF WaitsOnce
  <2>14. HookNoted'
    <3>1. Reported(r) => hooked
      BY <2>1 DEF Once, HookNoted
    <3>2. poll.wired => ~poll.believed
      BY <1>1 DEF Once, HookNoted
    <3>3. ASSUME NEW c \in Waits', Reported(c[2])' PROVE c[2] \in history'.unknown
      <4>1. CASE c \in Waits
        BY <2>6, <2>7, <3>3, <4>1 DEF Once, HookNoted
      <4>2. CASE c = new /\ poll.wired
        BY <2>6, <2>7, <3>1, <3>2, <3>3, <4>2
      <4> QED
        BY <2>12, <4>1, <4>2
    <3>4. \A q : Offered(q)' /\ Reported(q)' => q \in history'.unknown
      BY <1>1, <2>6, <2>7 DEF Once, HookNoted
    <3>5. ASSUME NEW t \in Names, raised'[t] # 0, Reported(raised[t])' PROVE hooked'
      <4>1. raised[t] # 0 /\ Reported(raised[t])
        BY <1>1, <2>7, <3>5
      <4>2. hooked
        BY <4>1 DEF Once, HookNoted
      <4> QED
        BY <1>1, <4>2
    <3>6. poll'.wired => ~poll'.believed
      BY <1>2, <3>2
    <3> QED
      BY <3>3, <3>4, <3>5, <3>6 DEF HookNoted
  <2> QED
    BY <2>9, <2>10, <2>11, <2>13, <2>14 DEF Once
<1> QED
  BY <1>4, <1>5

LEMMA PollSavesOnce ==
    ASSUME IInv, Once, NEW viewed \in SUBSET Names, PollSaves(viewed) PROVE Once'
<1> DEFINE cleared == ClearRule(viewed)
           h == Forget(history, Up(cleared \cap seen), "clear rule")
<1>1. /\ poll.phase = "flags" /\ history \in History /\ poll' = Advancing(poll.candidates)
      /\ UNCHANGED <<alive, raised, hooked, posts, rings>> /\ seen' = seen \ cleared
  BY DEF PollSaves, IInv, Types, tmuxVars, boundVars
<1>2. Waits' \subseteq Waits /\ poll'.phase # "flags"
  BY <1>1 DEF Waits, Advancing, NoPoll
<1>3. h \in History
  BY <1>1, ForgetFacts DEF Reasons
<1>4. history' = [h EXCEPT !.owed = ((@ \cap poll.names) \cup poll.owed) \ cleared]
  BY DEF PollSaves
<1>w. PICK why : why = "clear rule"
  OBVIOUS
<1>5. why \in Excused
  BY <1>w DEF Excused
<1>6. h = [history EXCEPT !.forgot = [t \in Names |-> IF t \in Up(cleared \cap seen)
                                      THEN why ELSE @[t]]]
  BY <1>w DEF Forget
<1> HIDE DEF h, cleared
<1>7. /\ history'.done = history.done /\ history'.twice = history.twice
      /\ history'.unknown = history.unknown
      /\ \A t \in Names : history'.forgot[t] = IF t \in Up(cleared \cap seen) THEN why
                                               ELSE history.forgot[t]
  BY <1>1, <1>3, <1>4, <1>6 DEF History
<1> QED
  BY <1>1, <1>2, <1>5, <1>7, FlagsForgotten

\* The next of those that wait is offered to the queue.
LEMMA PollAdvancesOnce ==
    ASSUME IInv, Once, poll.phase = "advance", NEW c \in poll.candidates, PollAdvances(c)
    PROVE  Once'
<1>1. /\ Waits = poll.candidates /\ Waits \subseteq Candidates /\ history \in History
      /\ UNCHANGED <<alive, raised, hooked, posts, seen, rings>>
      /\ poll' = Advancing(poll.candidates \ {c})
  BY PhaseFacts DEF Waits, Offering, PollAdvances, IInv, Types, tmuxVars, boundVars
<1> DEFINE r == c[2]
           why == c[3]
           o == <<"advance", r, "poll">>
           two == {why} \ Excused
<1>2. c \in Waits /\ Waits' = Waits \ {c} /\ poll'.phase # "flags"
  BY <1>1 DEF Waits, Advancing, NoPoll
<1>3. /\ r \in 1..rings /\ Counted(r)
      /\ why \notin Excused => ~Offered(r)
      /\ \A d \in Waits' : d[2] # r
  BY <1>2 DEF Once, WaitsOnce
<1>4. history' = IF o \in history.done THEN [history EXCEPT !.twice = @ \cup two]
                 ELSE [history EXCEPT !.done = @ \cup {o}]
  BY DEF PollAdvances, Observe
<1>5. why \in Excused => two = {}
  OBVIOUS
<1>6. o \in history.done <=> Offered(r)
  BY DEF Offered
<1>7. /\ \A q : <<"advance", q, "poll">> = o <=> q = r
      /\ \A q : <<"count", q, "poll">> # o /\ <<"advance", q, "hook">> # o
  OBVIOUS
<1>o. o[2] = r
  OBVIOUS
<1> HIDE DEF o, two
<1>8. /\ history'.done = history.done \cup {o}
      /\ history'.twice \subseteq history.twice \cup two
      /\ o \notin history.done => history'.twice = history.twice
      /\ history'.unknown = history.unknown /\ history'.forgot = history.forgot
  <2>1. CASE o \in history.done
    <3>1. history.done \cup {o} = history.done
      BY <2>1
    <3>2. history' = [history EXCEPT !.twice = @ \cup two]
      BY <1>4, <2>1
    <3> QED
      BY <1>1, <2>1, <3>1, <3>2 DEF History
  <2>2. CASE o \notin history.done
    <3>1. history' = [history EXCEPT !.done = @ \cup {o}]
      BY <1>4, <2>2
    <3> QED
      BY <1>1, <2>2, <3>1 DEF History
  <2> QED
    BY <2>1, <2>2
<1>9. /\ \A q : Counted(q)' <=> Counted(q)
      /\ \A q : Offered(q)' <=> (Offered(q) \/ q = r)
      /\ \A q : Received(q)' <=> Received(q)
      /\ \A q : Reported(q)' <=> Reported(q)
  BY <1>1, <1>7, <1>8 DEF Counted, Offered, Received, Reported
<1> HIDE DEF r, why
<1>10. history'.twice = {}
  BY <1>3, <1>5, <1>6, <1>8 DEF Once
<1>11. RingsApart'
  <2>1. \A e \in history'.done : e[2] \in 1..rings'
    <3>1. \A e \in history.done : e[2] \in 1..rings
      BY DEF Once, RingsApart
    <3>2. o[2] \in 1..rings
      BY <1>3, <1>o
    <3> QED
      BY <1>1, <1>8, <3>1, <3>2
  <2> QED
    BY <1>1, <1>9, <2>1 DEF Once, RingsApart
<1>12. FlagsRemembered'
  BY <1>1, <1>8, <1>9 DEF Once, FlagsRemembered
<1>13. WaitsOnce'
  <2>1. ASSUME NEW d \in Waits'
        PROVE  /\ d[2] \in 1..rings' /\ Counted(d[2])' /\ d[3] \in Causes
               /\ d[3] \notin Excused => ~Offered(d[2])'
    BY <1>1, <1>2, <1>3, <1>9 DEF Once, WaitsOnce
  <2>2. \A q : Offered(q)' => Counted(q)'
    <3>1. \A q : Offered(q) => Counted(q)
      BY DEF Once, WaitsOnce
    <3> QED
      BY <1>3, <1>9, <3>1
  <2>3. \A d, e \in Waits' : d[2] = e[2] => d = e
    BY <1>2 DEF Once, WaitsOnce
  <2>4. \A d \in Waits', s \in Names : raised'[s] = d[2] => d[1] = s
    BY <1>1, <1>2 DEF Once, WaitsOnce
  <2> QED
    BY <1>2, <2>1, <2>2, <2>3, <2>4 DEF WaitsOnce
<1>14. HookNoted'
  <2>1. Reported(r) => r \in history.unknown
    BY <1>2 DEF Once, HookNoted, r
  <2>2. \A s \in Names : raised'[s] # 0 /\ Reported(raised[s])' => hooked'
    BY <1>1, <1>9 DEF Once, HookNoted
  <2> QED
    BY <1>1, <1>2, <1>8, <1>9, <2>1, <2>2 DEF Once, HookNoted
<1> QED
  BY <1>10, <1>11, <1>12, <1>13, <1>14 DEF Once

LEMMA RestartOnce ==
    ASSUME IInv, Once, Restart PROVE Once'
<1>1. /\ history \in History /\ poll' = NoPoll /\ seen' = seen \ seen
      /\ UNCHANGED <<alive, raised, hooked, posts, rings>>
  BY DEF Restart, IInv, Types
<1>2. Waits' \subseteq Waits /\ poll'.phase # "flags"
  BY <1>1 DEF Waits, NoPoll
<1>3. history' = [history EXCEPT !.forgot = [t \in Names |-> IF t \in Up(seen)
                                             THEN "restart" ELSE @[t]]]
  BY DEF Restart, Forget
<1>w. PICK why : why = "restart"
  OBVIOUS
<1>4. why \in Excused
  BY <1>w DEF Excused
<1>5. history' = [history EXCEPT !.forgot = [t \in Names |-> IF t \in Up(seen)
                                             THEN why ELSE @[t]]]
  BY <1>3, <1>w
<1>6. /\ history'.done = history.done /\ history'.twice = history.twice
      /\ history'.unknown = history.unknown
      /\ \A t \in Names : history'.forgot[t] = IF t \in Up(seen \cap seen) THEN why
                                               ELSE history.forgot[t]
  BY <1>1, <1>5 DEF History
<1> QED
  BY <1>1, <1>2, <1>4, <1>6, FlagsForgotten

\* tmux, its users, and the handlers that observe nothing.
LEMMA QuietOnce ==
    ASSUME IInv, Once,
           \/ \E s \in Names : Start(s) \/ End(s) \/ Visit(s)
           \/ \E p \in posts : PostLost(p)
           \/ \E ok \in BOOLEAN : SetupHooks(ok) \/ PollBegins(ok)
           \/ \E s \in Names : ClearBell(s) \/ AdvanceEnds(s) \/ AdvanceHalts(s)
           \/ PollFails \/ PollEnumerates \/ PollLoads
    PROVE  Once'
<1>1. /\ raised \in [Names -> Nat] /\ history \in History
  BY DEF IInv, Types
<1>2. /\ rings' = rings
      /\ history'.done = history.done /\ history'.twice = history.twice
      /\ history'.unknown = history.unknown
      /\ \A s \in Names : \/ history'.forgot[s] = history.forgot[s]
                          \/ raised'[s] = 0 /\ history'.forgot[s] \in Causes
  <2>1. CASE \E t \in Names : End(t) \/ Visit(t)
    <3>1. PICK t \in Names : End(t) \/ Visit(t)
      BY <2>1
    <3>2. PICK why : why = "nothing"
      OBVIOUS
    <3>3. /\ raised' = [raised EXCEPT ![t] = 0] /\ rings' = rings
          /\ history' = Forget(history, {t}, "nothing")
      BY <3>1 DEF End, Visit, boundVars
    <3>5. raised'[t] = 0 /\ history' = Forget(history, {t}, why)
      BY <1>1, <3>2, <3>3
    <3>4. why \in Causes
      BY <3>2 DEF Causes
    <3> QED
      <4>1. /\ history'.done = history.done /\ history'.twice = history.twice
            /\ history'.unknown = history.unknown
            /\ \A s \in Names : history'.forgot[s] = IF s \in {t} THEN why ELSE history.forgot[s]
        BY <1>1, <3>5, ForgetLeaves
      <4>2. \A s \in Names : \/ history'.forgot[s] = history.forgot[s]
                             \/ raised'[s] = 0 /\ history'.forgot[s] \in Causes
        BY <3>4, <3>5, <4>1
      <4> QED
        BY <3>3, <4>1, <4>2
  <2>2. CASE ~\E t \in Names : End(t) \/ Visit(t)
    <3>1. CASE \E s \in Names : ClearBell(s) \/ AdvanceHalts(s)
      <4>1. PICK o : history' = [history EXCEPT !.owed = o]
        BY <3>1 DEF ClearBell, AdvanceHalts
      <4>2. rings' = rings
        BY <3>1 DEF ClearBell, AdvanceHalts, boundVars
      <4>3. /\ history'.done = history.done /\ history'.twice = history.twice
            /\ history'.unknown = history.unknown /\ history'.forgot = history.forgot
        BY <1>1, <4>1 DEF History
      <4> QED
        BY <4>2, <4>3
    <3>2. CASE UNCHANGED <<rings, history>>
      BY <3>2
    <3> QED
      BY <2>2, <3>1, <3>2 DEF Start, PostLost, SetupHooks, PollBegins, AdvanceEnds,
         PollFails, PollEnumerates, PollLoads, boundVars
  <2> QED
    BY <2>1, <2>2
<1>3. posts' \subseteq posts
  BY DEF Start, End, Visit, PostLost, SetupHooks, PollBegins, ClearBell, AdvanceEnds,
         AdvanceHalts, PollFails, PollEnumerates, PollLoads
<1>4. seen' = seen
  BY DEF Start, End, Visit, PostLost, SetupHooks, PollBegins, ClearBell, AdvanceEnds,
         AdvanceHalts, PollFails, PollEnumerates, PollLoads, serverVars
<1>5. ASSUME NEW s \in Names
      PROVE  \/ raised'[s] = 0
             \/ (raised'[s] = raised[s] /\ (s \in alive => s \in alive'))
  <2>1. CASE \E t \in Names : Start(t) \/ End(t) \/ Visit(t)
    BY <1>1, <2>1 DEF Start, End, Visit
  <2>2. CASE raised' = raised /\ alive' = alive
    BY <2>2
  <2> QED
    BY <2>1, <2>2 DEF PostLost, SetupHooks, PollBegins, ClearBell, AdvanceEnds,
         AdvanceHalts, PollFails, PollEnumerates, PollLoads, tmuxVars
<1>6. (\E s \in Names : raised'[s] # 0) /\ hooked => hooked'
  <2>1. CASE \E t \in Names : End(t)
    <3>1. PICK t \in Names : End(t)
      BY <2>1
    <3>2. ASSUME NEW s \in Names, raised'[s] # 0 PROVE alive' # {}
      <4>1. s # t /\ raised[s] # 0
        BY <1>1, <3>1, <3>2 DEF End
      <4>2. s \in alive
        BY <4>1 DEF Once, RingsApart
      <4> QED
        BY <3>1, <4>1, <4>2 DEF End
    <3> QED
      BY <3>1, <3>2 DEF End
  <2>2. CASE \E ok \in BOOLEAN : SetupHooks(ok)
    BY <2>2 DEF SetupHooks, ArmBellHook
  <2>3. CASE \E ok \in BOOLEAN : PollBegins(ok)
    BY <2>3 DEF PollBegins, ArmBellHook
  <2>4. CASE hooked' = hooked
    BY <2>4
  <2> QED
    BY <2>1, <2>2, <2>3, <2>4 DEF Start, Visit, PostLost, ClearBell, AdvanceEnds,
         AdvanceHalts, PollFails, PollEnumerates, PollLoads, tmuxVars
<1>7. CASE UNCHANGED poll
  <2>1. Waits' = Waits
    BY <1>7 DEF Waits
  <2>2. poll'.phase = "flags" => /\ poll'.wired => ~poll'.believed
                                 /\ \A c \in Waits' : c[1] \notin poll'.left
    BY <1>7, <2>1 DEF Once, HookNoted, WaitsOnce
  <2> QED
    BY <1>2, <1>3, <1>4, <1>5, <1>6, <2>1, <2>2, NothingObserved
<1>8. CASE poll'.phase \in {"idle", "lock", "listed"}
  <2>1. Waits' = {} /\ poll'.phase # "flags"
    BY <1>8 DEF Waits
  <2> QED
    BY <1>2, <1>3, <1>4, <1>5, <1>6, <2>1, NothingObserved
<1>9. CASE PollLoads
  <2>1. /\ poll'.phase = "flags" /\ poll'.candidates = {}
        /\ poll'.wired = ~armed /\ poll'.believed = armed
    BY <1>9 DEF PollLoads, OnTransition
  <2>2. Waits' = {}
    BY <2>1 DEF Waits
  <2>3. poll'.wired => ~poll'.believed
    BY <2>1
  <2> QED
    BY <1>2, <1>3, <1>4, <1>5, <1>6, <2>2, <2>3, NothingObserved
<1>10. CASE \E s \in Names : Start(s) \/ End(s) \/ Visit(s)
  BY <1>7, <1>10 DEF Start, End, Visit, serverVars
<1> QED
  BY <1>7, <1>8, <1>9, <1>10 DEF PostLost, SetupHooks, PollBegins, ClearBell,
     AdvanceEnds, AdvanceHalts, PollFails, PollEnumerates, serverVars, NoPoll

LEMMA InitOnce == Init => Once
<1> SUFFICES ASSUME Init PROVE Once
  OBVIOUS
<1>1. /\ history.done = {} /\ history.twice = {} /\ posts = {}
      /\ \A s \in Names : raised[s] = 0 /\ history.forgot[s] = "nothing"
  BY DEF Init
<1>2. poll.phase = "idle" /\ Waits = {}
  BY DEF Init, NoPoll, Waits
<1>3. "nothing" \in Causes
  BY DEF Causes
<1>4. RingsApart
  BY <1>1 DEF RingsApart
<1>5. FlagsRemembered
  BY <1>1, <1>3 DEF FlagsRemembered
<1>6. \A r : ~Offered(r)
  BY <1>1 DEF Offered
<1>7. WaitsOnce /\ HookNoted
  BY <1>1, <1>2, <1>6 DEF WaitsOnce, HookNoted
<1> QED
  BY <1>1, <1>4, <1>5, <1>7 DEF Once

LEMMA NextOnce == IInv /\ Once /\ [Next]_vars => Once'
<1> SUFFICES ASSUME IInv, Once, [Next]_vars PROVE Once'
  OBVIOUS
<1>1. CASE UNCHANGED vars
  <2>1. UNCHANGED <<alive, raised, hooked, posts, seen, poll, rings, history>>
    BY <1>1 DEF vars, tmuxVars, serverVars, boundVars
  <2>2. Waits' = Waits
    BY <2>1 DEF Waits
  <2>3. poll'.phase = "flags" => /\ poll'.wired => ~poll'.believed
                                 /\ \A c \in Waits' : c[1] \notin poll'.left
    BY <2>1, <2>2 DEF Once, HookNoted, WaitsOnce
  <2> QED
    BY <2>1, <2>2, <2>3, NothingObserved
<1>2. CASE Poll
  BY <1>2, QuietOnce, PollFlagOnce, PollSavesOnce, PollAdvancesOnce DEF Poll
<1> QED
  BY <1>1, <1>2, QuietOnce, RingOnce, ReceiveBellOnce, RestartOnce DEF Next

\* The poll counts a ring once, and offers it to the queue once, but for the three
\* ways to forget a flag (the clear rule, a read that fails, a restart); the hook and the poll advance the queue by it twice only
\* beside a hook not known of (process_bell_flags in bells.py, receive_bell and
\* _run_poll_cycle in main.py).
THEOREM RingsOnce == Spec => []OncePerRing
<1>1. Once => SeenOnce
  BY DEF Once, SeenOnce, Excused
<1>2. Once => AdvancedByOne
  <2> SUFFICES ASSUME Once, NEW r \in Rings,
                      {<<"advance", r, "hook">>, <<"advance", r, "poll">>} \subseteq history.done
               PROVE  r \in history.unknown
    BY DEF AdvancedByOne
  <2>1. Offered(r) /\ Reported(r)
    BY DEF Offered, Received, Reported
  <2> QED
    BY <2>1 DEF Once, HookNoted
<1> QED
  BY <1>1, <1>2, InitInv, InitOnce, NextInv, NextOnce, PTL DEF Spec, OncePerRing
=============================================================================
