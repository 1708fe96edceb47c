-------------------------- MODULE AgentChatProofs --------------------------
(***************************************************************************)
(* Whatever the runs and their calls: a running turn has its session's     *)
(* lock, and no turn follows one that is not in the session's history;     *)
(* what is reported of a call is so, and nothing is typed in a run after   *)
(* somebody said no to it.                                                 *)
(***************************************************************************)
EXTENDS AgentChat, TLAPS

Admitting == {"leased", "agent", "starting"}
RunRecord == [at : {"none", "prepared", "closed"} \cup Admitting, session : 0 .. MaxRuns,
              closing : BOOLEAN, turn : BOOLEAN, pumped : BOOLEAN, blocked : BOOLEAN,
              uncertain : BOOLEAN]
TabRecord == [at : {"none", "asking", "reading", "over"}, told : BOOLEAN, blocked : BOOLEAN]
Marker == [run : 0 .. MaxRuns + 1, turn : BOOLEAN]

Types ==
  /\ run \in [Runs -> RunRecord]
  /\ disk \in [Runs -> Marker]
  /\ lock \in [Runs -> 0 .. MaxRuns]
  /\ log \in [Runs -> Seq(Runs)]
  /\ sdk \in [Runs -> {"none", "running", "ended", "lost"}]
  /\ tab \in [Runs -> TabRecord]

\* A request names its session, and a session its first run.
Named ==
  \A r \in Runs :
    /\ run[r].at # "none" => Session(r) \in Runs /\ run[Session(r)].at # "none"
    /\ tab[r].told => run[r].at # "none"

\* The lease is taken first and goes last.
Leased ==
  \A r \in Runs :
    /\ run[r].at \in Admitting => lock[Session(r)] = r
    /\ sdk[r] = "running" => run[r].at \in {"starting", "prepared"} /\ lock[Session(r)] = r
    /\ run[r].at \in {"none", "leased", "agent"} => sdk[r] = "none"

Logged(r) == \E i \in DOMAIN log[Session(r)] : log[Session(r)][i] = r

\* Of a turn that was accepted the history or the marker knows; and the marker is
\* the run's from before it asks for its turn.
Known ==
  \A r \in Runs :
    /\ sdk[r] # "none" => Logged(r) \/ disk[Session(r)].run = r
    /\ run[r].at = "starting" => disk[Session(r)].run = r

IInv == Types /\ Named /\ Leased /\ Known

-----------------------------------------------------------------------------
LEMMA InitInv == Init => IInv
<1> SUFFICES ASSUME Init PROVE IInv
  OBVIOUS
<1>1. NewRun \in RunRecord /\ NewRun.at = "none"
  BY BoundsAssumption DEF NewRun, RunRecord, Nobody
<1>2. NewTab \in TabRecord /\ ~NewTab.told
  BY DEF NewTab, TabRecord
<1>3. NoRecord \in Marker
  BY BoundsAssumption DEF NoRecord, Marker
<1>4. <<>> \in Seq(Runs) /\ Nobody \in 0 .. MaxRuns
  BY BoundsAssumption DEF Nobody
<1>5. Types
  BY <1>1, <1>2, <1>3, <1>4 DEF Init, Types
<1> QED
  BY <1>1, <1>2, <1>5 DEF Init, IInv, Named, Leased, Known, Admitting

\* The runs, as far as the invariant looks at them, stay what they are.
LEMMA Frame ==
    ASSUME IInv, Types', UNCHANGED <<disk, lock, log, sdk>>,
           \A r \in Runs : run'[r].at = run[r].at /\ run'[r].session = run[r].session,
           \A r \in Runs : tab'[r].told = tab[r].told
    PROVE  IInv'
<1>1. \A r \in Runs : Session(r)' = Session(r) /\ Logged(r)' = Logged(r)
  BY DEF Session, Logged
<1> QED
  BY <1>1 DEF IInv, Named, Leased, Known

LEMMA OverFacts ==
    ASSUME Types, NEW r \in Runs
    PROVE  Over(r) \in [Runs -> TabRecord] /\ \A q \in Runs : Over(r)[q].told = tab[q].told
<1>1. [tab[r] EXCEPT !.at = "over", !.blocked = FALSE] \in TabRecord
      /\ [tab[r] EXCEPT !.at = "over", !.blocked = FALSE].told = tab[r].told
  BY DEF Types, TabRecord
<1> QED
  BY <1>1 DEF Over, Types

\* A step that leaves each run where it is, in its session.
LEMMA RunsStay ==
    ASSUME IInv, UNCHANGED <<disk, lock, log, sdk>>,
           run' \in [Runs -> RunRecord],
           \A q \in Runs : run'[q].at = run[q].at /\ run'[q].session = run[q].session,
           tab' = tab \/ \E r \in Runs : tab' = Over(r)
    PROVE  IInv'
<1>1. tab' \in [Runs -> TabRecord] /\ \A q \in Runs : tab'[q].told = tab[q].told
  BY OverFacts DEF IInv, Types
<1>2. Types'
  BY <1>1 DEF IInv, Types
<1> QED
  BY <1>1, <1>2, Frame

LEMMA BridgeKept ==
    ASSUME IInv, NEW r \in Runs, NEW c \in Calls, Handles(r, c) \/ ToolCalled(r, c)
    PROVE  IInv'
<1>1. run[r] \in RunRecord
  BY DEF IInv, Types
<1>2. CASE Dispatch(r, c) \/ ToolCalled(r, c)
  BY <1>2, RunsStay DEF Dispatch, ToolCalled, IInv, Types
<1>3. CASE Expire(r, c)
  <2>1. run' = [run EXCEPT ![r] = [run[r] EXCEPT !.uncertain = TRUE]]
    BY <1>3 DEF Expire
  <2>2. [run[r] EXCEPT !.uncertain = TRUE] \in RunRecord
        /\ [run[r] EXCEPT !.uncertain = TRUE].at = run[r].at
        /\ [run[r] EXCEPT !.uncertain = TRUE].session = run[r].session
    BY <1>1 DEF RunRecord
  <2>3. run' \in [Runs -> RunRecord]
        /\ \A q \in Runs : run'[q].at = run[q].at /\ run'[q].session = run[q].session
    BY <2>1, <2>2 DEF IInv, Types
  <2> QED
    BY <1>3, <2>3, RunsStay DEF Expire
<1>4. CASE Return(r, c)
  <2> DEFINE doubt == (run[r].uncertain \/ call[r][c].answer = "unknown")
             barred == (run[r].blocked \/ (call[r][c].answer = "failed" /\ call[r][c].typing))
             after == [run[r] EXCEPT !.uncertain = doubt, !.blocked = barred]
  <2>1. doubt \in BOOLEAN /\ barred \in BOOLEAN
    BY <1>1 DEF RunRecord
  <2>2. run' = [run EXCEPT ![r] = after]
    BY <1>4 DEF Return, IInv, Types, RunRecord
  <2>3. after \in RunRecord /\ after.at = run[r].at /\ after.session = run[r].session
    BY <1>1, <2>1 DEF RunRecord
  <2>4. run' \in [Runs -> RunRecord]
        /\ \A q \in Runs : run'[q].at = run[q].at /\ run'[q].session = run[q].session
    BY <2>2, <2>3 DEF IInv, Types
  <2> QED
    BY <1>4, <2>4, RunsStay DEF Return
<1> QED
  BY <1>2, <1>3, <1>4 DEF Handles

\* What the page does with a call: at most its own blocked flag, or its end.
LEMMA PageKept ==
    ASSUME IInv, NEW r \in Runs, NEW c \in Calls, Uses(r, c)
    PROVE  IInv'
<1>1. run[r] \in RunRecord /\ tab[r] \in TabRecord
  BY DEF IInv, Types
<1>2. CASE Take(r, c) \/ Issue(r, c) \/ EffectLands(r, c)
  BY <1>2, RunsStay DEF Take, Issue, EffectLands, IInv, Types
<1>3. ASSUME NEW b \in BOOLEAN, tab' = [tab EXCEPT ![r].blocked = b],
             UNCHANGED <<run, disk, lock, log, sdk>>
      PROVE  IInv'
  <2>1. [tab[r] EXCEPT !.blocked = b] \in TabRecord
        /\ [tab[r] EXCEPT !.blocked = b].told = tab[r].told
    BY <1>1 DEF TabRecord
  <2>2. tab' = [tab EXCEPT ![r] = [tab[r] EXCEPT !.blocked = b]]
    BY <1>3
  <2>3. tab' \in [Runs -> TabRecord] /\ \A q \in Runs : tab'[q].told = tab[q].told
    BY <2>1, <2>2 DEF IInv, Types
  <2>4. Types'
    BY <1>3, <2>3 DEF IInv, Types
  <2> QED
    BY <1>3, <2>3, <2>4, Frame
<1>4. CASE Decline(r, c)
  <2>1. CASE tab' = tab
    BY <1>4, <2>1, RunsStay DEF Decline, IInv, Types
  <2>2. CASE tab' = [tab EXCEPT ![r].blocked = TRUE]
    BY <1>3, <1>4, <2>2 DEF Decline
  <2> QED
    BY <1>4, <2>1, <2>2 DEF Decline
<1>5. CASE Respond(r, c)
  <2>1. PICK outcome : tab' = [tab EXCEPT ![r].blocked =
                                 @ \/ (call[r][c].typing /\ outcome # "completed")]
    BY <1>5 DEF Respond
  <2> DEFINE b == (tab[r].blocked \/ (call[r][c].typing /\ outcome # "completed"))
  <2>2. b \in BOOLEAN /\ tab' = [tab EXCEPT ![r].blocked = b]
    BY <2>1
  <2> QED
    BY <1>3, <1>5, <2>2 DEF Respond
<1>6. CASE Post(r, c)
  <2>1. CASE UNCHANGED run
    BY <1>6, <2>1, RunsStay DEF Post, IInv, Types
  <2>2. CASE Resolved(r, c, call[r][c].page)
    <3> DEFINE barred == (run[r].blocked \/ (call[r][c].page # "completed" /\ call[r][c].typing))
               doubt == (run[r].uncertain \/ call[r][c].page = "unknown")
               after == [run[r] EXCEPT !.blocked = barred, !.uncertain = doubt]
    <3>1. doubt \in BOOLEAN /\ barred \in BOOLEAN
      BY <1>1 DEF RunRecord
    <3>2. run' = [run EXCEPT ![r] = after]
      BY <2>2 DEF Resolved, IInv, Types, RunRecord
    <3>3. after \in RunRecord /\ after.at = run[r].at /\ after.session = run[r].session
      BY <1>1, <3>1 DEF RunRecord
    <3>4. run' \in [Runs -> RunRecord]
          /\ \A q \in Runs : run'[q].at = run[q].at /\ run'[q].session = run[q].session
      BY <3>2, <3>3 DEF IInv, Types
    <3> QED
      BY <1>6, <3>4, RunsStay DEF Post
  <2> QED
    BY <1>6, <2>1, <2>2 DEF Post
<1> QED
  BY <1>2, <1>4, <1>5, <1>6 DEF Uses

\* The pump, the stream's end, a page that stops, and the server that does.
LEMMA ClosingKept ==
    ASSUME IInv, Shutdown \/ \E r \in Runs : PumpEnds(r) \/ StreamEnds(r) \/ TabStops(r)
    PROVE  IInv'
<1>1. ASSUME NEW r \in Runs, PumpEnds(r) \/ StreamEnds(r) PROVE IInv'
  <2>1. PICK after \in {[run[r] EXCEPT !.pumped = TRUE], [run[r] EXCEPT !.closing = TRUE]} :
          run' = [run EXCEPT ![r] = after]
    BY <1>1 DEF PumpEnds, StreamEnds
  <2>2. after \in RunRecord /\ after.at = run[r].at /\ after.session = run[r].session
    BY DEF IInv, Types, RunRecord
  <2>3. run' \in [Runs -> RunRecord]
        /\ \A q \in Runs : run'[q].at = run[q].at /\ run'[q].session = run[q].session
    BY <2>1, <2>2 DEF IInv, Types
  <2> QED
    BY <1>1, <2>3, RunsStay DEF PumpEnds, StreamEnds
<1>2. ASSUME NEW r \in Runs, TabStops(r) PROVE IInv'
  BY <1>2, RunsStay DEF TabStops, IInv, Types
<1>3. ASSUME Shutdown PROVE IInv'
  <2>1. \A q \in Runs : /\ run'[q] \in RunRecord
                        /\ run'[q].at = run[q].at /\ run'[q].session = run[q].session
    <3> SUFFICES ASSUME NEW q \in Runs
                 PROVE  run'[q] \in RunRecord
                        /\ run'[q].at = run[q].at /\ run'[q].session = run[q].session
      OBVIOUS
    <3>1. run[q] \in RunRecord
      BY DEF IInv, Types
    <3>2. run'[q] = run[q] \/ run'[q] = [run[q] EXCEPT !.closing = TRUE]
      BY <1>3 DEF Shutdown
    <3> QED
      BY <3>1, <3>2 DEF RunRecord
  <2>2. run' \in [Runs -> RunRecord]
    BY <1>3, <2>1 DEF Shutdown
  <2> QED
    BY <1>3, <2>1, <2>2, RunsStay DEF Shutdown
<1> QED
  BY <1>1, <1>2, <1>3

-----------------------------------------------------------------------------
(* Admission: the run holds the lock, and alone writes its session's marker *)

\* Who else was in the session of a run that has the lease, is through with it.
LEMMA HolderIsAlone ==
    ASSUME IInv, NEW r \in Runs, run[r].at \in Admitting
    PROVE  /\ Session(r) \in Runs /\ lock[Session(r)] = r
           /\ \A q \in Runs \ {r} : Session(q) = Session(r) =>
                run[q].at \notin Admitting /\ sdk[q] # "running"
  BY DEF IInv, Named, Leased, Admitting

\* A marker that was proven, or is not there, leaves nothing unknown.
LEMMA FitsFacts ==
    ASSUME IInv, NEW s \in Runs, disk[s] = NoRun \/ Proven(s),
           NEW q \in Runs, Session(q) = s, sdk[q] # "none"
    PROVE  Logged(q)
<1>1. Logged(q) \/ disk[s].run = q
  BY DEF IInv, Known
<1>2. CASE disk[s] = NoRun
  <2>1. disk[s].run # q
    BY <1>2, BoundsAssumption DEF NoRun, Nobody, Runs
  <2> QED
    BY <1>1, <2>1
<1>3. CASE Proven(s) /\ disk[s].run = q
  <2>1. log[s] \in Seq(Runs) /\ log[s] # <<>>
    BY <1>3 DEF Proven, IInv, Types
  <2>2. Len(log[s]) \in DOMAIN log[s]
    BY <2>1
  <2> QED
    BY <1>3, <2>2 DEF Proven, Logged
<1> QED
  BY <1>1, <1>2, <1>3

\* A run that starts is the one its session's marker names: the others are known.
LEMMA StartingFacts ==
    ASSUME IInv, NEW r \in Runs, run[r].at = "starting",
           NEW q \in Runs \ {r}, Session(q) = Session(r), sdk[q] # "none"
    PROVE  Logged(q)
  BY DEF IInv, Known

\* A step of admission, or its end: r moves on, and may write the marker.
LEMMA AdmissionKept ==
    ASSUME IInv, NEW r \in Runs, run[r].at \in Admitting,
           NEW after \in RunRecord, run' = [run EXCEPT ![r] = after],
           after.at \in {"agent", "starting", "prepared"}, after.session = run[r].session,
           after.at = "agent" => sdk[r] = "none",
           NEW m \in Marker, disk' = [disk EXCEPT ![Session(r)] = m],
           \/ m.run = disk[Session(r)].run
           \/ \A q \in Runs \ {r} : Session(q) = Session(r) /\ sdk[q] # "none" => Logged(q),
           sdk[r] # "none" => Logged(r) \/ m.run = r,
           after.at = "starting" => m.run = r,
           tab' \in [Runs -> TabRecord],
           \A q \in Runs \ {r} : tab'[q].told = tab[q].told,
           UNCHANGED <<lock, log, sdk>>
    PROVE  IInv'
<1>1. Session(r) \in Runs /\ lock[Session(r)] = r
      /\ \A q \in Runs \ {r} : Session(q) = Session(r) => run[q].at \notin Admitting
  BY HolderIsAlone
<1>2. \A q \in Runs : run'[q] = IF q = r THEN after ELSE run[q]
  BY DEF IInv, Types
<1>3. \A q \in Runs : Session(q)' = Session(q) /\ Logged(q)' = Logged(q)
  BY <1>2 DEF Session, Logged
<1>4. \A t \in Runs : disk'[t] = IF t = Session(r) THEN m ELSE disk[t]
  BY DEF IInv, Types
<1>5. Types'
  <2>1. run' \in [Runs -> RunRecord] /\ disk' \in [Runs -> Marker]
    BY DEF IInv, Types
  <2> QED
    BY <2>1 DEF IInv, Types
<1>6. Named'
  BY <1>1, <1>2, <1>3 DEF IInv, Named, Admitting
<1>7. Leased'
  <2>1. ASSUME NEW q \in Runs
        PROVE  /\ run'[q].at \in Admitting => lock[Session(q)] = q
               /\ sdk[q] = "running" => run'[q].at \in {"starting", "prepared"}
                                        /\ lock[Session(q)] = q
               /\ run'[q].at \in {"none", "leased", "agent"} => sdk[q] = "none"
    <3>1. CASE q = r
      BY <1>1, <1>2, <3>1
    <3>2. CASE q # r
      BY <1>2, <3>2 DEF IInv, Leased
    <3> QED
      BY <3>1, <3>2
  <2> QED
    BY <1>3, <2>1 DEF Leased
<1>8. Known'
  <2>1. ASSUME NEW q \in Runs
        PROVE  /\ sdk[q] # "none" => Logged(q) \/ disk'[Session(q)].run = q
               /\ run'[q].at = "starting" => disk'[Session(q)].run = q
    <3>1. CASE q = r
      BY <1>1, <1>2, <1>4, <3>1
    <3>2. CASE q # r /\ Session(q) = Session(r)
      BY <1>1, <1>2, <1>4, <3>2 DEF IInv, Known, Admitting
    <3>3. CASE q # r /\ Session(q) # Session(r) /\ run[q].at # "none"
      <4>1. Session(q) \in Runs
        BY <3>3 DEF IInv, Named
      <4> QED
        BY <1>2, <1>4, <3>3, <4>1 DEF IInv, Known
    <3>4. CASE q # r /\ run[q].at = "none"
      BY <1>2, <3>4 DEF IInv, Leased
    <3> QED
      BY <3>1, <3>2, <3>3, <3>4
  <2> QED
    BY <1>3, <2>1 DEF Known
<1> QED
  BY <1>5, <1>6, <1>7, <1>8 DEF IInv

\* The last resort: as AdmissionKept, with the run closing.
LEMMA FailedKept ==
    ASSUME IInv, NEW r \in Runs, run[r].at \in Admitting,
           NEW changed \in RunRecord, changed.session = run[r].session, Failed(r, changed),
           NEW m \in Marker, disk' = [disk EXCEPT ![Session(r)] = m],
           \/ m.run = disk[Session(r)].run
           \/ \A q \in Runs \ {r} : Session(q) = Session(r) /\ sdk[q] # "none" => Logged(q),
           sdk[r] # "none" => Logged(r) \/ m.run = r,
           UNCHANGED <<lock, log, sdk>>
    PROVE  IInv'
<1> DEFINE after == [changed EXCEPT !.at = "prepared", !.closing = TRUE]
<1>1. after \in RunRecord /\ after.at = "prepared" /\ after.session = run[r].session
  BY DEF RunRecord
<1>2. run' = [run EXCEPT ![r] = after] /\ tab' = Over(r)
  BY DEF Failed
<1>3. tab' \in [Runs -> TabRecord] /\ \A q \in Runs : tab'[q].told = tab[q].told
  BY <1>2, OverFacts DEF IInv
<1> HIDE DEF after
<1> QED
  BY <1>1, <1>2, <1>3, AdmissionKept

\* What is there of the marker, for the steps that leave it.
LEMMA MarkerStays ==
    ASSUME IInv, NEW r \in Runs, run[r].at \in Admitting
    PROVE  /\ disk[Session(r)] \in Marker
           /\ disk = [disk EXCEPT ![Session(r)] = disk[Session(r)]]
           /\ sdk[r] # "none" => Logged(r) \/ disk[Session(r)].run = r
           /\ run[r] \in RunRecord /\ Session(r) = run[r].session
  BY HolderIsAlone DEF IInv, Types, Known, Session

LEMMA AgentIsMadeKept ==
    ASSUME IInv, NEW r \in Runs, AgentIsMade(r) PROVE IInv'
<1>1. run[r].at = "leased" /\ run[r].at \in Admitting /\ UNCHANGED <<disk, lock, log, sdk>>
      /\ sdk[r] = "none"
  BY DEF AgentIsMade, Admitting, IInv, Leased
<1>2. CASE Failed(r, run[r])
  BY <1>1, <1>2, MarkerStays, FailedKept
<1>3. CASE run' = [run EXCEPT ![r].at = "agent"] /\ UNCHANGED tab
  <2> DEFINE after == [run[r] EXCEPT !.at = "agent"]
  <2>1. after \in RunRecord /\ after.at = "agent" /\ after.session = run[r].session
    BY <1>1, MarkerStays DEF RunRecord, Admitting
  <2>2. run' = [run EXCEPT ![r] = after]
    BY <1>3
  <2>3. tab' \in [Runs -> TabRecord]
    BY <1>3 DEF IInv, Types
  <2> HIDE DEF after
  <2> QED
    BY <1>1, <1>3, <2>1, <2>2, <2>3, MarkerStays, AdmissionKept
<1> QED
  BY <1>2, <1>3 DEF AgentIsMade

LEMMA SessionOpensKept ==
    ASSUME IInv, NEW r \in Runs, SessionOpens(r) PROVE IInv'
<1> DEFINE s == Session(r)
<1>1. run[r].at = "agent" /\ run[r].at \in Admitting /\ UNCHANGED <<lock, log, sdk>>
      /\ sdk[r] = "none" /\ s \in Runs
  BY HolderIsAlone DEF SessionOpens, Admitting, IInv, Leased, Named
<1>2. ASSUME disk[s] = NoRun \/ Proven(s)
      PROVE  \A q \in Runs \ {r} : Session(q) = Session(r) /\ sdk[q] # "none" => Logged(q)
  BY <1>1, <1>2, FitsFacts
<1>3. CASE Failed(r, run[r]) /\ UNCHANGED disk
  BY <1>1, <1>3, MarkerStays, FailedKept
<1>4. CASE (disk[s] = NoRun \/ Proven(s)) /\ disk' = [disk EXCEPT ![s] = NoRun] /\ Failed(r, run[r])
  <2>1. NoRun \in Marker
    BY BoundsAssumption DEF NoRun, Marker, Nobody
  <2> QED
    BY <1>1, <1>2, <1>4, <2>1, MarkerStays, FailedKept
<1>5. CASE /\ disk[s] = NoRun \/ Proven(s)
           /\ disk' = [disk EXCEPT ![s] = [run |-> r, turn |-> FALSE]]
           /\ run' = [run EXCEPT ![r].at = "starting"]
           /\ UNCHANGED tab
  <2> DEFINE after == [run[r] EXCEPT !.at = "starting"]
             m == [run |-> r, turn |-> FALSE]
  <2>1. after \in RunRecord /\ after.at = "starting" /\ after.session = run[r].session
    BY <1>1, MarkerStays DEF RunRecord, Admitting
  <2>2. run' = [run EXCEPT ![r] = after]
    BY <1>5
  <2>3. tab' \in [Runs -> TabRecord]
    BY <1>5 DEF IInv, Types
  <2>4. m \in Marker /\ m.run = r
    BY BoundsAssumption DEF Marker, Runs
  <2> HIDE DEF after, m
  <2> QED
    BY <1>1, <1>2, <1>5, <2>1, <2>2, <2>3, <2>4, AdmissionKept DEF m
<1> QED
  BY <1>3, <1>4, <1>5 DEF SessionOpens

LEMMA TurnStartsKept ==
    ASSUME IInv, NEW r \in Runs, TurnStarts(r) PROVE IInv'
<1> DEFINE s == Session(r)
           started == [run[r] EXCEPT !.turn = TRUE]
           m == [run |-> r, turn |-> TRUE]
<1>1. run[r].at = "starting" /\ run[r].at \in Admitting /\ UNCHANGED <<lock, log, sdk>>
  BY DEF TurnStarts, Admitting
<1>2. started \in RunRecord /\ started.session = run[r].session
  BY <1>1, MarkerStays DEF RunRecord
<1>3. m \in Marker /\ m.run = r
  BY BoundsAssumption DEF Marker, Runs
<1>4. \A q \in Runs \ {r} : Session(q) = Session(r) /\ sdk[q] # "none" => Logged(q)
  BY <1>1, StartingFacts
<1>5. CASE Failed(r, started) /\ disk' = [disk EXCEPT ![s] = m]
  <2> HIDE DEF started, m
  <2> QED
    BY <1>1, <1>2, <1>3, <1>4, <1>5, FailedKept
<1>6. CASE Failed(r, started) /\ UNCHANGED disk
  <2> HIDE DEF started, m
  <2> QED
    BY <1>1, <1>2, <1>6, MarkerStays, FailedKept
<1>7. CASE /\ run' = [run EXCEPT ![r] = [started EXCEPT !.at = "prepared"]]
           /\ disk' = [disk EXCEPT ![s] = m]
           /\ tab' = IF tab[r].at = "asking"
                     THEN [tab EXCEPT ![r] = [@ EXCEPT !.at = "reading", !.told = TRUE]]
                     ELSE tab
  <2> DEFINE after == [started EXCEPT !.at = "prepared"]
  <2>1. after \in RunRecord /\ after.at = "prepared" /\ after.session = run[r].session
    BY <1>2 DEF RunRecord
  <2>2. tab' \in [Runs -> TabRecord] /\ \A q \in Runs \ {r} : tab'[q].told = tab[q].told
    <3>1. [tab[r] EXCEPT !.at = "reading", !.told = TRUE] \in TabRecord
      BY DEF IInv, Types, TabRecord
    <3> QED
      BY <1>7, <3>1 DEF IInv, Types
  <2> HIDE DEF after, m, started
  <2> QED
    BY <1>1, <1>3, <1>4, <1>7, <2>1, <2>2, AdmissionKept DEF after
<1> QED
  BY <1>5, <1>6, <1>7 DEF TurnStarts

LEMMA RefusedKept ==
    ASSUME IInv, NEW r \in Runs, InputRefused(r) \/ TurnFails(r) PROVE IInv'
<1>1. /\ run[r].at = "starting" /\ run[r].at \in Admitting /\ UNCHANGED <<lock, log, sdk>>
      /\ Failed(r, run[r])
  BY DEF InputRefused, TurnFails, Admitting
<1>2. CASE InputRefused(r)
  <2>1. NoRun \in Marker /\ sdk[r] = "none" /\ disk' = [disk EXCEPT ![Session(r)] = NoRun]
    BY <1>2, BoundsAssumption DEF NoRun, Marker, Nobody, InputRefused
  <2>2. \A q \in Runs \ {r} : Session(q) = Session(r) /\ sdk[q] # "none" => Logged(q)
    BY <1>1, StartingFacts
  <2> QED
    BY <1>1, <2>1, <2>2, MarkerStays, FailedKept
<1>3. CASE TurnFails(r)
  BY <1>1, <1>3, MarkerStays, FailedKept DEF TurnFails, AfterFailure
<1> QED
  BY <1>2, <1>3

-----------------------------------------------------------------------------
(* The turn *)

LEMMA TurnAcceptedKept ==
    ASSUME IInv, NEW r \in Runs, TurnAccepted(r) PROVE IInv'
<1>1. /\ run[r].at = "starting" /\ sdk' = [sdk EXCEPT ![r] = "running"]
      /\ UNCHANGED <<run, disk, lock, log, call, tab>>
  BY DEF TurnAccepted
<1>2. \A q \in Runs : Session(q)' = Session(q) /\ Logged(q)' = Logged(q)
                      /\ sdk'[q] = IF q = r THEN "running" ELSE sdk[q]
  BY <1>1 DEF Session, Logged, IInv, Types
<1>3. Types'
  BY <1>1 DEF IInv, Types
<1> QED
  BY <1>1, <1>2, <1>3 DEF IInv, Named, Leased, Known, Admitting

\* The history only grows.
LEMMA TurnEndsKept ==
    ASSUME IInv, NEW r \in Runs, TurnEnds(r) PROVE IInv'
<1> DEFINE s == Session(r)
<1>1. /\ sdk[r] = "running" /\ sdk' = [sdk EXCEPT ![r] = "ended"]
      /\ log' \in {log, [log EXCEPT ![s] = Append(@, r)]}
      /\ UNCHANGED <<run, disk, lock, call, tab>>
  BY DEF TurnEnds
<1>2. s \in Runs
  BY <1>1 DEF IInv, Named, Leased
<1>3. log' \in [Runs -> Seq(Runs)]
  <2>1. log \in [Runs -> Seq(Runs)]
    BY DEF IInv, Types
  <2>2. Append(log[s], r) \in Seq(Runs)
    BY <1>2, <2>1
  <2>3. log' = log \/ log' = [log EXCEPT ![s] = Append(log[s], r)]
    BY <1>1
  <2> HIDE DEF s
  <2> QED
    BY <1>2, <2>1, <2>2, <2>3
<1>4. ASSUME NEW q \in Runs, Logged(q), Session(q) \in Runs PROVE Logged(q)'
  <2>1. PICK i \in DOMAIN log[Session(q)] : log[Session(q)][i] = q
    BY <1>4 DEF Logged
  <2>2. log[Session(q)] \in Seq(Runs) /\ log[s] \in Seq(Runs)
    BY <1>2, <1>4 DEF IInv, Types
  <2>3. i \in DOMAIN log'[Session(q)] /\ log'[Session(q)][i] = q
    <3>1. CASE log' = log
      BY <2>1, <3>1
    <3>2. CASE log' = [log EXCEPT ![s] = Append(@, r)] /\ Session(q) = s
      <4>1. log'[s] = Append(log[s], r)
        BY <1>2, <3>2 DEF IInv, Types
      <4> QED
        BY <2>1, <2>2, <3>2, <4>1
    <3>3. CASE log' = [log EXCEPT ![s] = Append(@, r)] /\ Session(q) # s
      BY <1>4, <2>1, <3>3 DEF IInv, Types
    <3> QED
      BY <1>1, <3>1, <3>2, <3>3
  <2>4. Session(q)' = Session(q)
    BY <1>1 DEF Session
  <2> QED
    BY <2>3, <2>4 DEF Logged
<1>5. Types'
  BY <1>1, <1>3 DEF IInv, Types
<1>6. \A q \in Runs : Session(q)' = Session(q) /\ sdk'[q] = IF q = r THEN "ended" ELSE sdk[q]
  BY <1>1 DEF Session, IInv, Types
<1>7. Leased'
  BY <1>1, <1>6 DEF IInv, Leased, Admitting
<1>8. Known'
  <2>1. \A q \in Runs : sdk[q] # "none" => Session(q) \in Runs
    BY DEF IInv, Named, Leased
  <2> QED
    BY <1>1, <1>4, <1>6, <2>1 DEF IInv, Known
<1>9. Named'
  BY <1>1, <1>6 DEF IInv, Named
<1> QED
  BY <1>5, <1>7, <1>8, <1>9 DEF IInv

-----------------------------------------------------------------------------
(* Locks taken and given back *)

LEMMA GoneFacts ==
    ASSUME Types, NEW r \in Runs
    PROVE  Gone(r) \in RunRecord /\ Gone(r).at = "closed" /\ Gone(r).session = Session(r)
<1>1. NewRun \in RunRecord
  BY BoundsAssumption DEF NewRun, RunRecord, Nobody
<1>2. Session(r) \in 0 .. MaxRuns
  BY DEF Types, RunRecord, Session
<1> QED
  BY <1>1, <1>2 DEF Gone, RunRecord

LEMMA CleanupKept ==
    ASSUME IInv, NEW r \in Runs, Cleanup(r) PROVE IInv'
<1>1. /\ run[r].at = "prepared" /\ sdk[r] # "running"
      /\ run' = [run EXCEPT ![r] = Gone(r)]
      /\ lock' = [s \in Runs |-> IF lock[s] = r THEN Nobody ELSE lock[s]]
      /\ UNCHANGED <<disk, log, sdk, call, tab>>
  BY DEF Cleanup, Drained
<1>2. \A q \in Runs : run'[q] = IF q = r THEN Gone(r) ELSE run[q]
  BY <1>1 DEF IInv, Types
<1>3. Types'
  <2>1. Nobody \in 0 .. MaxRuns
    BY BoundsAssumption DEF Nobody
  <2> QED
    BY <1>1, <2>1, GoneFacts DEF IInv, Types
<1>4. \A q \in Runs : Session(q)' = Session(q) /\ Logged(q)' = Logged(q)
  <2>1. \A q \in Runs : Session(q)' = Session(q)
    BY <1>2, GoneFacts DEF Session, IInv
  <2> QED
    BY <1>1, <2>1 DEF Logged
<1>5. Named'
  BY <1>1, <1>2, <1>4, GoneFacts DEF IInv, Named
<1>6. Leased'
  <2>1. ASSUME NEW q \in Runs \ {r}, run[q].at \in Admitting \/ sdk[q] = "running"
        PROVE  lock'[Session(q)] = q
    BY <1>1, <2>1 DEF IInv, Named, Leased, Admitting
  <2> QED
    BY <1>1, <1>2, <1>4, <2>1, GoneFacts DEF IInv, Leased, Admitting
<1>7. Known'
  BY <1>1, <1>2, <1>4, GoneFacts DEF IInv, Known
<1> QED
  BY <1>3, <1>5, <1>6, <1>7 DEF IInv

\* A new session has no one in it, another one's lock is free when it is taken.
LEMMA RequestKept ==
    ASSUME IInv, NEW r \in Runs, NEW s \in Runs, Request(r, s) PROVE IInv'
<1>1. /\ run[r].at = "none" /\ sdk[r] = "none"
      /\ s = r \/ run[s].at # "none"
      /\ UNCHANGED <<log, sdk>>
  BY DEF Request, IInv, Named, Leased
<1>2. s \in 0 .. MaxRuns /\ r \in 0 .. MaxRuns /\ r # Nobody
  BY BoundsAssumption DEF Runs, Nobody
<1>3. run[r] \in RunRecord
  BY DEF IInv, Types
<1>4. \A q \in Runs \ {r} : run[q].at # "none" => Session(q) # r
  BY <1>1 DEF IInv, Named
<1>5. CASE /\ lock[s] = Nobody
           /\ lock' = [lock EXCEPT ![s] = r]
           /\ disk' = IF s = r THEN [disk EXCEPT ![s] = NoRun] ELSE disk
           /\ run' = [run EXCEPT ![r].at = "leased", ![r].session = s]
           /\ tab' = [tab EXCEPT ![r].at = "asking"]
  <2> DEFINE after == [run[r] EXCEPT !.at = "leased", !.session = s]
  <2>1. after \in RunRecord /\ after.at = "leased" /\ after.session = s
    BY <1>2, <1>3 DEF RunRecord, Admitting
  <2>2. run' = [run EXCEPT ![r] = after]
    BY <1>3, <1>5 DEF IInv, Types, RunRecord
  <2> HIDE DEF after
  <2>3. \A q \in Runs : run'[q] = IF q = r THEN after ELSE run[q]
    BY <2>2 DEF IInv, Types
  <2>4. tab' \in [Runs -> TabRecord] /\ \A q \in Runs : tab'[q].told = tab[q].told
    <3>1. [tab[r] EXCEPT !.at = "asking"] \in TabRecord
          /\ [tab[r] EXCEPT !.at = "asking"].told = tab[r].told
      BY DEF IInv, Types, TabRecord
    <3> QED
      BY <1>5, <3>1 DEF IInv, Types
  <2>5. NoRun \in Marker
    BY BoundsAssumption DEF NoRun, Marker, Nobody
  <2>6. Types'
    <3>1. run' \in [Runs -> RunRecord] /\ lock' \in [Runs -> 0 .. MaxRuns]
      <4>1. run \in [Runs -> RunRecord] /\ lock \in [Runs -> 0 .. MaxRuns]
        BY DEF IInv, Types
      <4>2. run' \in [Runs -> RunRecord]
        BY <2>1, <2>2, <4>1
      <4>3. lock' \in [Runs -> 0 .. MaxRuns]
        BY <1>2, <1>5, <4>1
      <4> QED
        BY <4>2, <4>3
    <3>2. disk' \in [Runs -> Marker]
      BY <1>5, <2>5 DEF IInv, Types
    <3>3. log' \in [Runs -> Seq(Runs)] /\ sdk' \in [Runs -> {"none", "running", "ended", "lost"}]
      BY <1>1 DEF IInv, Types
    <3> QED
      BY <2>4, <3>1, <3>2, <3>3 DEF Types
  <2>7. \A q \in Runs \ {r} : Session(q)' = Session(q) /\ Logged(q)' = Logged(q)
    BY <1>1, <2>3 DEF Session, Logged
  <2>8. Session(r)' = s
    BY <2>1, <2>3 DEF Session
  <2>9. Named'
    BY <1>1, <2>1, <2>3, <2>4, <2>7, <2>8 DEF IInv, Named
  <2>10. Leased'
    <3>1. ASSUME NEW q \in Runs \ {r}, run[q].at \in Admitting \/ sdk[q] = "running"
          PROVE  lock'[Session(q)] = q
      <4>1. Session(q) \in Runs /\ lock[Session(q)] = q /\ q # Nobody
        BY <3>1, BoundsAssumption DEF IInv, Named, Leased, Admitting, Runs, Nobody
      <4>2. Session(q) # s
        BY <1>5, <4>1
      <4> QED
        BY <1>5, <4>1, <4>2 DEF IInv, Types
    <3>2. lock'[s] = r
      BY <1>5 DEF IInv, Types
    <3> QED
      BY <1>1, <2>1, <2>3, <2>7, <2>8, <3>1, <3>2 DEF IInv, Leased, Admitting
  <2>11. Known'
    <3>1. ASSUME NEW q \in Runs \ {r}, run[q].at # "none"
          PROVE  disk'[Session(q)] = disk[Session(q)]
      BY <1>4, <1>5, <3>1 DEF IInv, Types
    <3>2. \A q \in Runs : sdk[q] # "none" => run[q].at # "none"
      BY DEF IInv, Leased
    <3> QED
      BY <1>1, <2>1, <2>3, <2>7, <3>1, <3>2 DEF IInv, Known
  <2> QED
    BY <2>6, <2>9, <2>10, <2>11 DEF IInv
<1>6. CASE /\ run' = [run EXCEPT ![r].at = "prepared", ![r].session = s, ![r].closing = TRUE]
           /\ tab' = Over(r)
           /\ UNCHANGED <<disk, lock>>
  <2> DEFINE after == [run[r] EXCEPT !.at = "prepared", !.session = s, !.closing = TRUE]
  <2>1. after \in RunRecord /\ after.at = "prepared" /\ after.session = s
    BY <1>2, <1>3 DEF RunRecord
  <2>2. run' = [run EXCEPT ![r] = after]
    BY <1>3, <1>6 DEF IInv, Types, RunRecord
  <2> HIDE DEF after
  <2>3. \A q \in Runs : run'[q] = IF q = r THEN after ELSE run[q]
    BY <2>2 DEF IInv, Types
  <2>4. tab' \in [Runs -> TabRecord] /\ \A q \in Runs : tab'[q].told = tab[q].told
    BY <1>6, OverFacts DEF IInv
  <2>5. Types'
    <3>1. run' \in [Runs -> RunRecord]
      BY <2>1, <2>2 DEF IInv, Types
    <3> QED
      BY <1>1, <1>6, <2>4, <3>1 DEF IInv, Types
  <2>6. \A q \in Runs \ {r} : Session(q)' = Session(q) /\ Logged(q)' = Logged(q)
    BY <1>1, <2>3 DEF Session, Logged
  <2>7. Session(r)' = s
    BY <2>1, <2>3 DEF Session
  <2>8. Named'
    BY <1>1, <2>1, <2>3, <2>4, <2>6, <2>7 DEF IInv, Named
  <2>9. ASSUME NEW q \in Runs
        PROVE  /\ run'[q].at \in Admitting \cup {"none"} => q # r
               /\ sdk'[q] # "none" => q # r
    BY <1>1, <2>1, <2>3 DEF Admitting
  <2>10. Leased'
    <3>1. ASSUME NEW q \in Runs \ {r}
          PROVE  /\ run'[q].at \in Admitting => lock'[Session(q)'] = q
                 /\ sdk'[q] = "running" => run'[q].at \in {"starting", "prepared"}
                                          /\ lock'[Session(q)'] = q
                 /\ run'[q].at \in {"none", "leased", "agent"} => sdk'[q] = "none"
      <4>1. run'[q] = run[q] /\ Session(q)' = Session(q) /\ sdk' = sdk /\ lock' = lock
        BY <1>1, <1>6, <2>3, <2>6
      <4>2. /\ run[q].at \in Admitting => lock[Session(q)] = q
            /\ sdk[q] = "running" => run[q].at \in {"starting", "prepared"}
                                     /\ lock[Session(q)] = q
            /\ run[q].at \in {"none", "leased", "agent"} => sdk[q] = "none"
        BY DEF IInv, Leased
      <4> QED
        BY <4>1, <4>2
    <3>2. run'[r].at = "prepared" /\ sdk'[r] = "none"
      BY <1>1, <2>1, <2>3
    <3>3. \A q \in Runs : q = r \/ q \in Runs \ {r}
      OBVIOUS
    <3>4. run'[r].at \notin Admitting \cup {"none", "leased", "agent"} /\ sdk'[r] # "running"
      BY <3>2 DEF Admitting
    <3> QED
      BY <3>1, <3>3, <3>4 DEF Leased
  <2>11. Known'
    BY <1>1, <1>6, <2>1, <2>3, <2>6, <2>9 DEF IInv, Known
  <2> QED
    BY <2>5, <2>8, <2>10, <2>11 DEF IInv
<1> QED
  BY <1>5, <1>6 DEF Request

\* A restart ends every run, and no turn runs on; what is on disk stays.
LEMMA RestartKept ==
    ASSUME IInv, Restart PROVE IInv'
<1>1. /\ run' = [r \in Runs |-> IF Registered(r) THEN Gone(r) ELSE run[r]]
      /\ lock' = [s \in Runs |-> Nobody]
      /\ sdk' = [r \in Runs |-> IF sdk[r] = "running" THEN "lost" ELSE sdk[r]]
      /\ tab' = [r \in Runs |-> IF tab[r].at \in {"asking", "reading"} THEN Over(r)[r] ELSE tab[r]]
      /\ UNCHANGED <<disk, log>>
  BY DEF Restart
<1>2. ASSUME NEW r \in Runs
      PROVE  /\ run'[r] \in RunRecord /\ run'[r].at \in {"none", "closed"}
             /\ run'[r].at = "none" <=> run[r].at = "none"
             /\ run'[r].session = run[r].session
  BY <1>1, GoneFacts DEF Registered, IInv, Types, Session
<1>3. ASSUME NEW r \in Runs
      PROVE  tab'[r] \in TabRecord /\ tab'[r].told = tab[r].told
  <2>1. Over(r)[r] \in TabRecord /\ Over(r)[r].told = tab[r].told
    BY OverFacts DEF IInv
  <2> QED
    BY <1>1, <2>1 DEF IInv, Types
<1>4. Types'
  <2>1. Nobody \in 0 .. MaxRuns
    BY BoundsAssumption DEF Nobody
  <2>2. run' \in [Runs -> RunRecord] /\ tab' \in [Runs -> TabRecord]
    BY <1>1, <1>2, <1>3
  <2> QED
    BY <1>1, <2>1, <2>2 DEF IInv, Types
<1>5. \A r \in Runs : Session(r)' = Session(r) /\ Logged(r)' = Logged(r)
  BY <1>1, <1>2 DEF Session, Logged
<1>6. \A r \in Runs : sdk'[r] # "running" /\ (sdk'[r] = "none" <=> sdk[r] = "none")
  BY <1>1
<1>7. Named' /\ Leased' /\ Known'
  BY <1>1, <1>2, <1>3, <1>5, <1>6 DEF IInv, Named, Leased, Known, Admitting
<1> QED
  BY <1>4, <1>7 DEF IInv

LEMMA NextInv == IInv /\ [Next]_vars => IInv'
<1> SUFFICES ASSUME IInv, [Next]_vars PROVE IInv'
  OBVIOUS
<1>1. CASE Next
  BY <1>1, RequestKept, AgentIsMadeKept, SessionOpensKept, TurnStartsKept, RefusedKept,
     TurnAcceptedKept, TurnEndsKept, CleanupKept, ClosingKept, BridgeKept, PageKept, RestartKept
  DEF Next, Prepares
<1>2. CASE UNCHANGED vars
  BY <1>2, RunsStay DEF vars, IInv, Types
<1> QED
  BY <1>1, <1>2

\* No run opens a session while another's turn may still act in it: the lease is
\* taken before the turn and outlives it (SessionLease in state.py,
\* LiveRun.close in runner.py).
THEOREM LeaseAlwaysCovers == Spec => []LeaseCoversTurn
<1>1. IInv => LeaseCoversTurn
  BY DEF IInv, Leased, LeaseCoversTurn
<1> QED
  BY <1>1, InitInv, NextInv, PTL DEF Spec

\* A turn is accepted only when every earlier one of its session is in the
\* session's history, whatever died before (SessionLease.reconcile in state.py).
THEOREM NeverReplayed == Spec => NothingReplayed
<1> DEFINE Follows == \A r \in Runs : (sdk[r] = "none" /\ sdk'[r] = "running") =>
                        \A q \in Runs \ {r} : (Session(q) = Session(r) /\ sdk[q] # "none") =>
                          \E i \in DOMAIN log[Session(r)] : log[Session(r)][i] = q
<1>1. IInv /\ [Next]_vars => [Follows]_vars
  <2> SUFFICES ASSUME IInv, Next, NEW r \in Runs, sdk[r] = "none", sdk'[r] = "running",
                      NEW q \in Runs \ {r}, Session(q) = Session(r), sdk[q] # "none"
               PROVE  Logged(q)
    BY DEF Logged
  <2>1. PICK p \in Runs : TurnAccepted(p)
    <3>1. ASSUME NEW p \in Runs, TurnEnds(p) PROVE FALSE
      BY <3>1 DEF TurnEnds, IInv, Types
    <3>2. ~Restart
      BY DEF Restart
    <3>3. ASSUME NEW p \in Runs, NEW t \in Runs,
                 Request(p, t) \/ Prepares(p) \/ PumpEnds(p) \/ StreamEnds(p) \/ Cleanup(p)
                 \/ TabStops(p)
          PROVE  FALSE
      BY <3>3 DEF Request, Prepares, AgentIsMade, SessionOpens, TurnStarts, InputRefused,
                  TurnFails, PumpEnds, StreamEnds, Cleanup, TabStops
    <3>4. ASSUME NEW p \in Runs, NEW c \in Calls, ToolCalled(p, c) \/ Handles(p, c) \/ Uses(p, c)
          PROVE  FALSE
      BY <3>4 DEF ToolCalled, Handles, Dispatch, Expire, Return, Uses, Take, Decline, Issue,
                  EffectLands, Respond, Post
    <3>5. ~Shutdown
      BY DEF Shutdown
    <3> QED
      BY <3>1, <3>2, <3>3, <3>4, <3>5 DEF Next
  <2>2. p = r
    BY <2>1 DEF TurnAccepted, IInv, Types
  <2> QED
    BY <2>1, <2>2, StartingFacts DEF TurnAccepted
<1> QED
  BY <1>1, InitInv, NextInv, PTL DEF Spec, NothingReplayed

-----------------------------------------------------------------------------
(* The calls *)

CallRecord == [typing : BOOLEAN,
               server : {"none", "waiting", "pending", "resolved", "completed", "failed",
                         "unknown", "lost"},
               answer : Outcomes \cup {"none"},
               page : {"hidden", "unseen", "asked", "issued", "done"} \cup Outcomes,
               effect : {"none", "sent", "done", "refused"}]

\* Where a call can be at once at the server, at the page and in its effect: what is
\* said of the effect is so, and nothing is sent after it was said not to be.
Right(k) ==
  /\ k.server \in {"none", "waiting"} => k.page = "hidden"
  /\ k.page \in {"hidden", "unseen", "asked"} => k.effect = "none"
  /\ k.page = "issued" => k.effect # "none"
  /\ "completed" \in {k.page, k.answer, k.server} => k.effect = "done"
  /\ "failed" \in {k.page, k.answer, k.server} => k.effect \in {"none", "refused"}
  /\ k.server \in {"completed", "failed", "lost"} => k.page \in {"hidden", "done"}
  /\ k.answer \in {"completed", "failed"} => k.page = "done"
  /\ k.answer # "none" <=> k.server = "resolved"

\* The page is not done with it, or the bridge.
Open(k) == k.page \notin {"hidden", "done"} \/ k.server \in {"pending", "resolved"}
Flies(k) == k.server \in {"waiting", "pending", "resolved"}
Declined(k) == k.typing /\ k.page # "hidden" /\ "failed" \in {k.answer, k.server}
Doubted(k) == k.page # "hidden" /\ "unknown" \in {k.answer, k.server}
Said(k) == k.typing /\ k.page # "hidden"
           /\ {"failed", "unknown"} \cap {k.page, k.answer, k.server} # {}

\* What the run notes of its calls while it may still dispatch one.
Remembers(l, k) ==
  \/ l.at = "closed"
  \/ /\ Declined(k) => l.blocked
     /\ Doubted(k) => l.uncertain \/ l.closing

EachRight == \A r \in Runs, c \in Calls :
  /\ call[r][c] \in CallRecord /\ Right(call[r][c])
  /\ Remembers(run[r], call[r][c])
  /\ Flies(call[r][c]) => sdk[r] = "running"

\* The bridge and the page are busy with one call of a run at a time; while it is a
\* typing one, nobody has said no to another.
OneOpen == \A r \in Runs, c \in Calls : Open(call[r][c]) =>
  \A d \in Calls \ {c} :
    /\ ~Open(call[r][d])
    /\ call[r][c].typing => ~Said(call[r][d])

CallTypes == call \in [Runs -> [Calls -> CallRecord]]

CInv == CallTypes /\ EachRight /\ OneOpen

\* What a step does to a call: it opens only what was open, says no only where it
\* was open, and sends nothing from where it was not.
After(k, j) ==
  /\ j \in CallRecord /\ Right(j)
  /\ Open(j) => (Open(k) /\ j.typing = k.typing)
  /\ Said(j) => Said(k) \/ Open(k)
  /\ j.effect = "sent" => k.effect = "sent" \/ Open(k)

Sends == \A r \in Runs, c \in Calls :
  call'[r][c].effect = "sent" => call[r][c].effect = "sent" \/ Open(call[r][c])

\* What a run noted, it keeps while it may dispatch.
Keeps(l, m) ==
  \/ m.at = "closed"
  \/ /\ l.at # "closed" /\ (l.blocked => m.blocked)
     /\ l.uncertain => m.uncertain
     /\ l.closing => m.closing

LEMMA KeepsFacts ==
    ASSUME NEW l, NEW m, NEW k, NEW j, Remembers(l, k), Keeps(l, m),
           Declined(j) => Declined(k), Doubted(j) => Doubted(k) \/ m.closing
    PROVE  Remembers(m, j)
  BY DEF Remembers, Keeps

LEMMA SaysNo ==
    ASSUME CInv, NEW r \in Runs, NEW c \in Calls PROVE SaidNo(r, c) <=> Said(call[r][c])
<1> DEFINE k == call[r][c]
<1>1. SaidNo(r, c) <=> /\ k.typing /\ k.page # "hidden"
                       /\ \E told \in {k.page, k.answer, k.server} : told \in {"failed", "unknown"}
  BY DEF SaidNo
<1> HIDE DEF k
<1> QED
  BY <1>1 DEF Said, k

-----------------------------------------------------------------------------
(* What happens to one call *)

LEMMA AfterItself ==
    ASSUME NEW k \in CallRecord, Right(k) PROVE After(k, k)
  BY DEF After

LEMMA FenceFacts ==
    ASSUME NEW k \in CallRecord, Right(k), NEW j,
           j = IF k.page = "hidden" THEN k ELSE [k EXCEPT !.page = "done"]
    PROVE  /\ After(k, j) /\ (Flies(j) => Flies(k))
           /\ Declined(j) => Declined(k)
           /\ Doubted(j) => Doubted(k)
<1>1. CASE k.page = "hidden"
  BY <1>1 DEF After
<1>2. CASE k.page # "hidden"
  <2>1. /\ j \in CallRecord /\ j.page = "done" /\ j.typing = k.typing
        /\ j.server = k.server /\ j.answer = k.answer /\ j.effect = k.effect
    BY <1>2 DEF CallRecord
  <2>2. Right(j)
    BY <1>2, <2>1 DEF Right
  <2>3. (Open(j) => Open(k)) /\ (Flies(j) => Flies(k))
    BY <2>1 DEF Open, Flies
  <2>4. Said(j) => Said(k)
    BY <1>2, <2>1 DEF Said
  <2>5. (Declined(j) => Declined(k)) /\ (Doubted(j) => Doubted(k))
    BY <1>2, <2>1 DEF Declined, Doubted
  <2> QED
    BY <2>1, <2>2, <2>3, <2>4, <2>5 DEF After
<1> QED
  BY <1>1, <1>2

LEMMA UnansweredFacts ==
    ASSUME NEW k \in CallRecord, Right(k), NEW j,
           j = IF k.server # "pending" THEN k
               ELSE [k EXCEPT !.server = "resolved", !.answer = "unknown"]
    PROVE  /\ After(k, j) /\ (Flies(j) => Flies(k))
           /\ Declined(j) => Declined(k)
<1>1. CASE k.server # "pending"
  BY <1>1 DEF After
<1>2. CASE k.server = "pending"
  <2>1. /\ j \in CallRecord /\ j.page = k.page /\ j.typing = k.typing
        /\ j.server = "resolved" /\ j.answer = "unknown" /\ j.effect = k.effect
    BY <1>2 DEF CallRecord, Outcomes
  <2>2. Right(j)
    BY <1>2, <2>1 DEF Right
  <2>3. Open(k) /\ Flies(k) /\ ~Declined(j)
    BY <1>2, <2>1 DEF Open, Flies, Declined
  <2> QED
    BY <2>1, <2>2, <2>3 DEF After
<1> QED
  BY <1>1, <1>2

LEMMA LostFacts ==
    ASSUME NEW k \in CallRecord, Right(k), NEW i, NEW j,
           i = IF Flies(k) THEN [k EXCEPT !.server = "lost", !.answer = "none"] ELSE k,
           j = IF i.page = "hidden" THEN i ELSE [i EXCEPT !.page = "done"]
    PROVE  /\ After(k, j) /\ ~Flies(j)
           /\ Declined(j) => Declined(k)
           /\ Doubted(j) => Doubted(k)
<1>1. CASE ~Flies(k)
  BY <1>1, FenceFacts DEF Flies
<1>2. CASE Flies(k)
  <2>1. i = [k EXCEPT !.server = "lost", !.answer = "none"]
    BY <1>2
  <2>2. /\ i \in CallRecord /\ i.page = k.page /\ i.typing = k.typing
        /\ i.server = "lost" /\ i.answer = "none" /\ i.effect = k.effect
    BY <2>1 DEF CallRecord
  <2>3. /\ j \in CallRecord /\ j.page = (IF k.page = "hidden" THEN "hidden" ELSE "done")
        /\ j.typing = k.typing
        /\ j.server = "lost" /\ j.answer = "none" /\ j.effect = k.effect
    BY <2>2 DEF CallRecord
  <2>4. Right(j)
    BY <1>2, <2>3 DEF Right
  <2>5. ~Open(j) /\ ~Flies(j) /\ ~Said(j) /\ ~Declined(j) /\ ~Doubted(j)
    BY <2>3 DEF Open, Flies, Said, Declined, Doubted
  <2> QED
    BY <2>3, <2>4, <2>5 DEF After
<1> QED
  BY <1>1, <1>2

LEMMA CalledFacts ==
    ASSUME NEW k \in CallRecord, Right(k), k.server = "none", NEW t \in BOOLEAN, NEW j,
           j = [k EXCEPT !.server = "waiting", !.typing = t]
    PROVE  After(k, j) /\ ~Declined(j) /\ ~Doubted(j)
<1>1. /\ j \in CallRecord /\ j.page = "hidden" /\ j.answer = "none" /\ j.effect = "none"
      /\ j.server = "waiting"
  BY DEF CallRecord, Right
<1> QED
  BY <1>1 DEF After, Right, Open, Said, Declined, Doubted

\* It returns to the SDK what its answer says, or that nobody knows; a call that was
\* never shown may be refused as well.
LEMMA ReturnedFacts ==
    ASSUME NEW k \in CallRecord, Right(k), NEW report, NEW j,
           j = [k EXCEPT !.server = report, !.answer = "none"],
           \/ k.server = "waiting" /\ report \in {"failed", "unknown"}
           \/ k.server \in {"pending", "resolved"} /\ report = "unknown"
           \/ k.server = "resolved" /\ report = k.answer
    PROVE  /\ After(k, j) /\ ~Flies(j)
           /\ Declined(j) => k.typing /\ report = "failed" /\ k.server = "resolved"
           /\ Doubted(j) => report = "unknown" /\ k.server \in {"pending", "resolved"}
<1>1. report \in Outcomes
  BY DEF Right, CallRecord, Outcomes
<1>2. /\ j \in CallRecord /\ j.page = k.page /\ j.typing = k.typing
      /\ j.server = report /\ j.answer = "none" /\ j.effect = k.effect
  BY <1>1 DEF CallRecord, Outcomes
<1>3. CASE k.server = "waiting" /\ report \in {"failed", "unknown"}
  <2>1. k.page = "hidden" /\ k.effect = "none"
    BY <1>3 DEF Right
  <2> QED
    BY <1>2, <1>3, <2>1 DEF After, Right, Open, Said, Flies, Declined, Doubted
<1>4. CASE k.server \in {"pending", "resolved"} /\ report = "unknown"
  BY <1>2, <1>4 DEF After, Right, Open, Flies, Declined, Doubted
<1>5. CASE k.server = "resolved" /\ report = k.answer
  BY <1>1, <1>2, <1>5 DEF After, Right, Open, Flies, Declined, Doubted, Outcomes
<1> QED
  BY <1>3, <1>4, <1>5

\* The page posts its result, and the bridge takes it.
LEMMA ResolvedFacts ==
    ASSUME NEW k \in CallRecord, Right(k), k.server = "pending", k.page \in Outcomes, NEW j,
           j = [k EXCEPT !.server = "resolved", !.answer = k.page, !.page = "done"]
    PROVE  /\ After(k, j) /\ Flies(k)
           /\ Declined(j) => k.typing /\ k.page = "failed"
           /\ Doubted(j) => k.page = "unknown"
<1>1. /\ j \in CallRecord /\ j.page = "done" /\ j.typing = k.typing
      /\ j.server = "resolved" /\ j.answer = k.page /\ j.effect = k.effect
  BY DEF CallRecord
<1> QED
  BY <1>1 DEF After, Right, Open, Flies, Declined, Doubted, Outcomes

\* The page goes on with a call that is open.
LEMMA PageFacts ==
    ASSUME NEW k \in CallRecord, Right(k), NEW page \in {"asked", "issued"} \cup Outcomes, NEW j,
           \/ /\ k.page \in {"unseen", "asked"} /\ page \in {"asked", "failed"}
              /\ j = [k EXCEPT !.page = page]
           \/ k.page = "asked" /\ j = [k EXCEPT !.page = "issued", !.effect = "sent"]
           \/ k.page = "issued" /\ page \in Seen(k.effect) /\ j = [k EXCEPT !.page = page]
    PROVE  /\ After(k, j) /\ (Flies(j) => Flies(k))
           /\ Declined(j) => Declined(k)
           /\ Doubted(j) => Doubted(k)
<1>1. /\ j \in CallRecord /\ j.typing = k.typing /\ j.server = k.server /\ j.answer = k.answer
  BY DEF CallRecord
<1>2. Open(k) /\ k.page # "hidden" /\ (Flies(j) => Flies(k))
  BY <1>1 DEF Open, Flies
<1>3. CASE /\ k.page \in {"unseen", "asked"} /\ page \in {"asked", "failed"}
           /\ j = [k EXCEPT !.page = page]
  <2>1. j.page = page /\ j.effect = k.effect
    BY <1>3 DEF CallRecord
  <2> QED
    BY <1>1, <1>2, <1>3, <2>1 DEF After, Right, Declined, Doubted
<1>4. CASE k.page = "asked" /\ j = [k EXCEPT !.page = "issued", !.effect = "sent"]
  <2>1. j.page = "issued" /\ j.effect = "sent"
    BY <1>4 DEF CallRecord
  <2> QED
    BY <1>1, <1>2, <1>4, <2>1 DEF After, Right, Declined, Doubted
<1>5. CASE k.page = "issued" /\ page \in Seen(k.effect) /\ j = [k EXCEPT !.page = page]
  <2>1. j.page = page /\ j.effect = k.effect
    BY <1>5 DEF CallRecord
  <2>2. /\ page \in Outcomes
        /\ page = "completed" => k.effect = "done"
        /\ page = "failed" => k.effect = "refused"
    BY <1>5 DEF Seen, Outcomes
  <2> QED
    BY <1>1, <1>2, <1>5, <2>1, <2>2 DEF After, Right, Declined, Doubted, Outcomes
<1> QED
  BY <1>2, <1>3, <1>4, <1>5

LEMMA LandsFacts ==
    ASSUME NEW k \in CallRecord, Right(k), k.effect = "sent", NEW e \in {"done", "refused"},
           NEW j, j = [k EXCEPT !.effect = e]
    PROVE  /\ After(k, j) /\ (Flies(j) => Flies(k))
           /\ Declined(j) => Declined(k)
           /\ Doubted(j) => Doubted(k)
<1>1. /\ j \in CallRecord /\ j.page = k.page /\ j.typing = k.typing
      /\ j.server = k.server /\ j.answer = k.answer /\ j.effect = e
  BY DEF CallRecord
<1> QED
  BY <1>1 DEF After, Right, Open, Flies, Said, Declined, Doubted

-----------------------------------------------------------------------------
(* What a step does to the calls of all runs *)

LEMMA CallsFrame ==
    ASSUME CInv, CallTypes',
           \A q \in Runs, d \in Calls :
             /\ After(call[q][d], call'[q][d])
             /\ Remembers(run'[q], call'[q][d])
             /\ Flies(call'[q][d]) => sdk'[q] = "running"
    PROVE  CInv' /\ Sends
<1>1. EachRight'
  BY DEF EachRight, After
<1>2. OneOpen'
  <2> SUFFICES ASSUME NEW q \in Runs, NEW c \in Calls, Open(call[q][c])', NEW d \in Calls \ {c}
               PROVE  /\ ~Open(call[q][d])'
                      /\ (call[q][c].typing)' => ~Said(call[q][d])'
    BY DEF OneOpen
  <2>1. Open(call[q][c]) /\ call'[q][c].typing = call[q][c].typing
    BY DEF After
  <2>2. ~Open(call[q][d]) /\ (call[q][c].typing => ~Said(call[q][d]))
    BY <2>1 DEF CInv, OneOpen
  <2> QED
    BY <2>1, <2>2 DEF After
<1>3. Sends
  BY DEF Sends, After
<1> QED
  BY <1>1, <1>2, <1>3 DEF CInv

\* The calls stay, or their page is fenced, or they are answered as their run closes.
LEMMA RowsKept ==
    ASSUME CInv, NEW shut \in SUBSET Runs, NEW fenced \in SUBSET Runs,
           call' = [q \in Runs |->
             LET row == IF q \in shut THEN Unanswered(call[q]) ELSE call[q]
             IN  IF q \in fenced THEN Fenced(row) ELSE row],
           \A q \in Runs : Keeps(run[q], run'[q]),
           \A q \in shut : run'[q].closing,
           \A q \in Runs : sdk[q] = "running" =>
             sdk'[q] = "running" \/ \A c \in Calls : ~Flies(call[q][c])
    PROVE  CInv' /\ Sends
<1>1. ASSUME NEW q \in Runs, NEW d \in Calls
      PROVE  /\ After(call[q][d], call'[q][d])
             /\ Remembers(run'[q], call'[q][d])
             /\ Flies(call'[q][d]) => sdk'[q] = "running"
  <2> DEFINE k == call[q][d]
             i == IF k.server # "pending" THEN k
                  ELSE [k EXCEPT !.server = "resolved", !.answer = "unknown"]
             h == IF q \in shut THEN i ELSE k
             j == IF h.page = "hidden" THEN h ELSE [h EXCEPT !.page = "done"]
  <2>1. /\ k \in CallRecord /\ Right(k) /\ Remembers(run[q], k)
        /\ Flies(k) => sdk[q] = "running"
    BY DEF CInv, EachRight
  <2>2. call'[q][d] = IF q \in fenced THEN j ELSE h
    BY DEF Unanswered, Fenced
  <2> HIDE DEF k
  <2>3. /\ After(k, i) /\ (Flies(i) => Flies(k)) /\ (Declined(i) => Declined(k))
    BY <2>1, UnansweredFacts
  <2> HIDE DEF i
  <2>4. /\ After(k, h) /\ (Flies(h) => Flies(k)) /\ (Declined(h) => Declined(k))
        /\ Doubted(h) => Doubted(k) \/ q \in shut
        /\ h \in CallRecord /\ Right(h)
    BY <2>1, <2>3, AfterItself DEF After
  <2> HIDE DEF h
  <2>5. /\ After(h, j) /\ (Flies(j) => Flies(h)) /\ (Declined(j) => Declined(h))
        /\ Doubted(j) => Doubted(h)
    BY <2>4, FenceFacts
  <2> HIDE DEF j
  <2>6. After(k, j)
    BY <2>4, <2>5 DEF After
  <2> DEFINE g == call'[q][d]
  <2>7. /\ After(k, g) /\ (Flies(g) => Flies(k)) /\ (Declined(g) => Declined(k))
        /\ Doubted(g) => Doubted(k) \/ run'[q].closing
    BY <2>2, <2>4, <2>5, <2>6
  <2> HIDE DEF g
  <2>8. Remembers(run'[q], g)
    BY <2>1, <2>7, KeepsFacts
  <2>9. Flies(g) => sdk'[q] = "running"
    BY <2>1, <2>7 DEF k
  <2> QED
    BY <2>7, <2>8, <2>9 DEF g, k
<1>2. CallTypes'
  <2>1. call' = [q \in Runs |-> call'[q]]
    OBVIOUS
  <2>2. ASSUME NEW q \in Runs PROVE call'[q] \in [Calls -> CallRecord]
    <3>1. call'[q] = [d \in Calls |-> call'[q][d]]
      <4>1. call[q] = [d \in Calls |-> call[q][d]]
        BY DEF CInv, CallTypes
      <4> QED
        BY <4>1 DEF Unanswered, Fenced
    <3>2. \A d \in Calls : call'[q][d] \in CallRecord
      BY <1>1 DEF After
    <3> QED
      BY <3>1, <3>2
  <2> QED
    BY <2>1, <2>2 DEF CallTypes
<1> QED
  BY <1>1, <1>2, CallsFrame

LEMMA CallsStay ==
    ASSUME CInv, call' = call,
           \A q \in Runs : Keeps(run[q], run'[q]),
           \A q \in Runs : sdk[q] = "running" =>
             sdk'[q] = "running" \/ \A c \in Calls : ~Flies(call[q][c])
    PROVE  CInv' /\ Sends
<1>1. PICK no \in SUBSET Runs : no = {}
  OBVIOUS
<1>2. call' = [q \in Runs |->
             LET row == IF q \in no THEN Unanswered(call[q]) ELSE call[q]
             IN  IF q \in no THEN Fenced(row) ELSE row]
  BY <1>1 DEF CInv, CallTypes
<1>3. \A q \in no : run'[q].closing
  BY <1>1
<1> QED
  BY <1>2, <1>3, RowsKept

\* One call moves.
LEMMA OneCallKept ==
    ASSUME CInv, NEW r \in Runs, NEW c \in Calls, NEW j, After(call[r][c], j),
           call' = [call EXCEPT ![r][c] = j],
           Remembers(run'[r], j), Flies(j) => sdk[r] = "running",
           \A q \in Runs : Keeps(run[q], run'[q]),
           UNCHANGED sdk
    PROVE  CInv' /\ Sends
<1>1. call \in [Runs -> [Calls -> CallRecord]] /\ j \in CallRecord
  BY DEF CInv, CallTypes, After
<1>2. /\ call' \in [Runs -> [Calls -> CallRecord]]
      /\ \A q \in Runs, d \in Calls :
           call'[q][d] = IF q = r /\ d = c THEN j ELSE call[q][d]
  BY <1>1
<1>3. ASSUME NEW q \in Runs, NEW d \in Calls
      PROVE  /\ After(call[q][d], call'[q][d])
             /\ Remembers(run'[q], call'[q][d])
             /\ Flies(call'[q][d]) => sdk'[q] = "running"
  <2>1. CASE q = r /\ d = c
    BY <1>2, <2>1
  <2>2. CASE ~(q = r /\ d = c)
    <3>1. /\ call'[q][d] = call[q][d]
          /\ call[q][d] \in CallRecord /\ Right(call[q][d]) /\ Remembers(run[q], call[q][d])
          /\ Flies(call[q][d]) => sdk[q] = "running"
      BY <1>2, <2>2 DEF CInv, EachRight
    <3>2. After(call[q][d], call[q][d]) /\ Remembers(run'[q], call[q][d])
      BY <3>1, AfterItself, KeepsFacts
    <3> QED
      BY <3>1, <3>2
  <2> QED
    BY <2>1, <2>2
<1> QED
  BY <1>2, <1>3, CallsFrame DEF CallTypes

LEMMA CallFacts ==
    ASSUME CInv, NEW r \in Runs, NEW c \in Calls
    PROVE  /\ call[r][c] \in CallRecord /\ Right(call[r][c])
           /\ Remembers(run[r], call[r][c])
           /\ Flies(call[r][c]) => sdk[r] = "running"
           /\ \A m : call' = [call EXCEPT ![r][c] = m] => call'[r][c] = m
  BY DEF CInv, EachRight, CallTypes

LEMMA NotesKept ==
    ASSUME Types, NEW r \in Runs, NEW b \in BOOLEAN, NEW u \in BOOLEAN,
           run' = [run EXCEPT ![r] = [run[r] EXCEPT !.blocked = b, !.uncertain = u]],
           run[r].blocked => b, run[r].uncertain => u
    PROVE  /\ \A q \in Runs : Keeps(run[q], run'[q])
           /\ run'[r].blocked = b /\ run'[r].uncertain = u
<1> DEFINE l == run[r]
           m == [l EXCEPT !.blocked = b, !.uncertain = u]
<1>1. l \in RunRecord /\ \A q \in Runs : run'[q] = IF q = r THEN m ELSE run[q]
  BY DEF Types
<1> HIDE DEF l
<1>2. /\ m.at = l.at /\ m.closing = l.closing /\ m.blocked = b /\ m.uncertain = u
  BY <1>1 DEF RunRecord
<1> HIDE DEF m
<1>3. Keeps(l, m)
  BY <1>2 DEF Keeps, l
<1>4. \A q \in Runs : Keeps(run[q], run[q])
  BY DEF Keeps
<1> QED
  BY <1>1, <1>2, <1>3, <1>4 DEF l

LEMMA NothingNoted == UNCHANGED run => \A q \in Runs : Keeps(run[q], run'[q])
  BY DEF Keeps

-----------------------------------------------------------------------------
(* The bridge *)

LEMMA ToolCalledCalls ==
    ASSUME IInv, CInv, NEW r \in Runs, NEW c \in Calls, ToolCalled(r, c)
    PROVE  CInv' /\ Sends
<1> DEFINE k == call[r][c]
<1>1. PICK typing \in BOOLEAN :
        call' = [call EXCEPT ![r][c] = [@ EXCEPT !.server = "waiting", !.typing = typing]]
  BY DEF ToolCalled
<1> DEFINE j == [k EXCEPT !.server = "waiting", !.typing = typing]
<1>2. /\ k \in CallRecord /\ Right(k) /\ k.server = "none" /\ sdk[r] = "running"
      /\ UNCHANGED <<run, sdk>> /\ call' = [call EXCEPT ![r][c] = j]
  BY <1>1, CallFacts DEF ToolCalled
<1> HIDE DEF k
<1>3. After(k, j) /\ ~Declined(j) /\ ~Doubted(j)
  BY <1>2, CalledFacts
<1> HIDE DEF j
<1>4. Remembers(run'[r], j)
  BY <1>3 DEF Remembers
<1> QED
  BY <1>2, <1>3, <1>4, NothingNoted, OneCallKept DEF k

\* It gets its turn: whatever was said no to before, the run remembers.
LEMMA DispatchCalls ==
    ASSUME IInv, CInv, NEW r \in Runs, NEW c \in Calls, Dispatch(r, c)
    PROVE  CInv' /\ Sends
<1> DEFINE k == call[r][c]
<1>1. /\ k \in CallRecord /\ Right(k) /\ k.server = "waiting" /\ Flies(k)
      /\ k.page = "hidden" /\ k.effect = "none" /\ k.answer = "none"
      /\ UNCHANGED <<run, sdk>>
      /\ \A d \in Calls : call[r][d].server \notin {"pending", "resolved"}
  BY CallFacts DEF Dispatch, Flies, Right
<1>2. sdk[r] = "running" /\ run[r].at # "closed"
  BY <1>1, CallFacts DEF IInv, Leased
<1>3. ASSUME NEW report \in {"failed", "unknown"}, Returns(r, c, report) PROVE CInv' /\ Sends
  <2> DEFINE j == [k EXCEPT !.server = report, !.answer = "none"]
  <2>1. call' = [call EXCEPT ![r][c] = j]
    BY <1>3 DEF Returns
  <2> HIDE DEF k
  <2>2. After(k, j) /\ ~Flies(j) /\ ~Declined(j) /\ ~Doubted(j)
    BY <1>1, ReturnedFacts
  <2> HIDE DEF j
  <2>3. Remembers(run'[r], j)
    BY <2>2 DEF Remembers
  <2> QED
    BY <1>1, <2>1, <2>2, <2>3, NothingNoted, OneCallKept DEF k
<1>4. CASE /\ ~(run[r].closing \/ run[r].uncertain) /\ ~Barred(r, c)
           /\ call' = [call EXCEPT ![r][c] = [@ EXCEPT !.server = "pending", !.page = "unseen"]]
  <2> DEFINE j == [k EXCEPT !.server = "pending", !.page = "unseen"]
  <2>1. /\ j \in CallRecord /\ j.server = "pending" /\ j.page = "unseen"
        /\ j.typing = k.typing /\ j.effect = "none" /\ j.answer = "none"
    BY <1>1 DEF CallRecord
  <2>2. call' = [call EXCEPT ![r][c] = j]
    BY <1>4
  <2>3. Right(j) /\ ~Said(j) /\ ~Declined(j) /\ ~Doubted(j)
    BY <2>1 DEF Right, Said, Declined, Doubted
  <2>4. j.typing => ~run[r].blocked
    BY <1>4, <2>1 DEF Barred
  <2> HIDE DEF j
  <2>5. call \in [Runs -> [Calls -> CallRecord]]
    BY DEF CInv, CallTypes
  <2>6. /\ call' \in [Runs -> [Calls -> CallRecord]]
        /\ \A q \in Runs, d \in Calls :
             call'[q][d] = IF q = r /\ d = c THEN j ELSE call[q][d]
    BY <2>1, <2>2, <2>5
  <2>7. ASSUME NEW d \in Calls \ {c}
        PROVE  ~Open(call[r][d]) /\ (j.typing => ~Said(call[r][d]))
    <3> DEFINE i == call[r][d]
    <3>1. /\ i \in CallRecord /\ Right(i) /\ i.server \notin {"pending", "resolved"}
          /\ Declined(i) => run[r].blocked
          /\ ~Doubted(i)
      BY <1>1, <1>2, <1>4, CallFacts DEF Remembers
    <3> HIDE DEF i
    <3>2. i.answer = "none"
      BY <3>1 DEF Right
    <3>3. ~Open(i)
      BY <3>1 DEF Open, Right, Doubted, CallRecord
    <3>4. Said(i) => Declined(i)
      BY <3>1, <3>2, <3>3 DEF Said, Open, Declined, Doubted
    <3> QED
      BY <2>4, <3>1, <3>3, <3>4 DEF i
  <2>8. EachRight'
    <3>1. ASSUME NEW q \in Runs, NEW d \in Calls
          PROVE  /\ call'[q][d] \in CallRecord /\ Right(call'[q][d])
                 /\ Remembers(run'[q], call'[q][d])
                 /\ Flies(call'[q][d]) => sdk'[q] = "running"
      <4>1. Remembers(run[r], j)
        BY <2>3 DEF Remembers
      <4> QED
        BY <1>1, <1>2, <2>1, <2>3, <2>6, <4>1, CallFacts
    <3> QED
      BY <3>1 DEF EachRight
  <2>9. OneOpen'
    <3> SUFFICES ASSUME NEW q \in Runs, NEW e \in Calls, Open(call[q][e])', NEW d \in Calls \ {e}
                 PROVE  /\ ~Open(call[q][d])'
                        /\ (call[q][e].typing)' => ~Said(call[q][d])'
      BY DEF OneOpen
    <3>1. CASE q = r /\ e = c
      BY <2>6, <2>7, <3>1
    <3>2. CASE q # r
      BY <2>6, <3>2 DEF CInv, OneOpen
    <3>3. CASE q = r /\ e # c
      BY <2>6, <2>7, <3>3
    <3> QED
      BY <3>1, <3>2, <3>3
  <2>10. Sends
    BY <2>1, <2>6 DEF Sends
  <2> QED
    BY <2>6, <2>8, <2>9, <2>10 DEF CInv, CallTypes
<1> QED
  BY <1>3, <1>4 DEF Dispatch

LEMMA ReportCalls ==
    ASSUME IInv, CInv, NEW r \in Runs, NEW c \in Calls,
           NEW report \in Outcomes, NEW b \in BOOLEAN, NEW u \in BOOLEAN,
           \/ call[r][c].server \in {"pending", "resolved"} /\ report = "unknown"
           \/ call[r][c].server = "resolved" /\ report = call[r][c].answer,
           Returns(r, c, report), UNCHANGED sdk,
           run' = [run EXCEPT ![r] = [run[r] EXCEPT !.blocked = b, !.uncertain = u]],
           run[r].blocked => b, run[r].uncertain => u,
           report = "unknown" => u,
           call[r][c].typing /\ report = "failed" => b
    PROVE  CInv' /\ Sends
<1> DEFINE k == call[r][c]
           j == [k EXCEPT !.server = report, !.answer = "none"]
<1>1. k \in CallRecord /\ Right(k)
  BY CallFacts
<1>2. call' = [call EXCEPT ![r][c] = j]
  BY DEF Returns
<1>3. /\ \A q \in Runs : Keeps(run[q], run'[q])
      /\ run'[r].blocked = b /\ run'[r].uncertain = u
  BY NotesKept DEF IInv
<1>4. /\ \/ k.server \in {"pending", "resolved"} /\ report = "unknown"
         \/ k.server = "resolved" /\ report = k.answer
      /\ k.typing /\ report = "failed" => b
  OBVIOUS
<1> HIDE DEF k
<1>5. /\ After(k, j) /\ ~Flies(j)
      /\ Declined(j) => k.typing /\ report = "failed"
      /\ Doubted(j) => report = "unknown"
  BY <1>1, <1>4, ReturnedFacts
<1> HIDE DEF j
<1>6. Remembers(run'[r], j)
  BY <1>3, <1>4, <1>5 DEF Remembers
<1> QED
  BY <1>2, <1>3, <1>5, <1>6, OneCallKept DEF k

LEMMA ReturnCalls ==
    ASSUME IInv, CInv, NEW r \in Runs, NEW c \in Calls, Expire(r, c) \/ Return(r, c)
    PROVE  CInv' /\ Sends
<1> DEFINE k == call[r][c]
<1>1. /\ run \in [Runs -> RunRecord] /\ run[r] \in RunRecord
      /\ run[r].blocked \in BOOLEAN /\ run[r].uncertain \in BOOLEAN
      /\ UNCHANGED sdk
  BY DEF IInv, Types, Expire, Return, RunRecord
<1>2. CASE Expire(r, c)
  <2>1. PICK b \in BOOLEAN : b = run[r].blocked
    BY <1>1
  <2>2. [run[r] EXCEPT !.uncertain = TRUE] = [run[r] EXCEPT !.blocked = b, !.uncertain = TRUE]
    BY <1>1, <2>1 DEF RunRecord
  <2>3. run' = [run EXCEPT ![r] = [run[r] EXCEPT !.uncertain = TRUE]]
    BY <1>2 DEF Expire
  <2>4. /\ run' = [run EXCEPT ![r] = [run[r] EXCEPT !.blocked = b, !.uncertain = TRUE]]
        /\ run[r].blocked => b
    BY <2>1, <2>2, <2>3
  <2>5. /\ Returns(r, c, "unknown") /\ call[r][c].server \in {"pending", "resolved"}
        /\ "unknown" \in Outcomes
    BY <1>2 DEF Expire, Outcomes
  <2> QED
    BY <1>1, <2>4, <2>5, ReportCalls
<1>3. CASE Return(r, c)
  <2>1. k \in CallRecord /\ Right(k) /\ k.server = "resolved"
    BY <1>3, CallFacts DEF Return
  <2>2. PICK report \in Outcomes : report = call[r][c].answer
    BY <2>1 DEF Right, CallRecord
  <2>3. PICK u \in BOOLEAN : u = (run[r].uncertain \/ report = "unknown")
    OBVIOUS
  <2>4. PICK b \in BOOLEAN : b = (run[r].blocked \/ (report = "failed" /\ call[r][c].typing))
    OBVIOUS
  <2>5. run' = [run EXCEPT ![r] = [run[r] EXCEPT !.blocked = b, !.uncertain = u]]
    BY <1>1, <1>3, <2>2, <2>3, <2>4 DEF Return, RunRecord
  <2>6. Returns(r, c, report)
    BY <1>3, <2>2 DEF Return
  <2>7. /\ (run[r].blocked => b) /\ (run[r].uncertain => u)
        /\ report = "unknown" => u
        /\ call[r][c].typing /\ report = "failed" => b
    BY <2>3, <2>4
  <2> QED
    BY <1>1, <2>1, <2>2, <2>5, <2>6, <2>7, ReportCalls
<1> QED
  BY <1>2, <1>3

-----------------------------------------------------------------------------
(* The page *)

\* A call goes on at the page or in its effect; its run notes nothing.
LEMMA UseKept ==
    ASSUME CInv, NEW r \in Runs, NEW c \in Calls, NEW j,
           call' = [call EXCEPT ![r][c] = j], UNCHANGED <<run, sdk>>,
           After(call[r][c], j), Flies(j) => Flies(call[r][c]),
           Declined(j) => Declined(call[r][c]), Doubted(j) => Doubted(call[r][c])
    PROVE  CInv' /\ Sends
<1>1. Keeps(run[r], run[r])
  BY DEF Keeps
<1>2. Remembers(run'[r], j)
  BY <1>1, CallFacts, KeepsFacts
<1>3. Flies(j) => sdk[r] = "running"
  BY CallFacts
<1> QED
  BY <1>2, <1>3, NothingNoted, OneCallKept

LEMMA PageCalls ==
    ASSUME IInv, CInv, NEW r \in Runs, NEW c \in Calls,
           \/ Take(r, c) \/ Decline(r, c) \/ Issue(r, c) \/ EffectLands(r, c) \/ Respond(r, c)
    PROVE  CInv' /\ Sends
<1> DEFINE k == call[r][c]
<1>1. /\ UNCHANGED <<run, sdk>>
      /\ k \in CallRecord /\ Right(k) /\ call \in [Runs -> [Calls -> CallRecord]]
  BY CallFacts DEF Take, Decline, Issue, EffectLands, Respond, CInv, CallTypes
<1>2. CASE Take(r, c) \/ Decline(r, c)
  <2>1. PICK page \in {"asked", "failed"} : Page(r, c, page)
    BY <1>2 DEF Take, Decline
  <2>2. k.page \in {"unseen", "asked"}
    BY <1>2 DEF Take, Decline
  <2> DEFINE j == [k EXCEPT !.page = page]
  <2>3. call' = [call EXCEPT ![r][c] = j]
    BY <2>1 DEF Page
  <2>4. page \in {"asked", "issued"} \cup Outcomes
    BY DEF Outcomes
  <2> HIDE DEF k
  <2>5. /\ After(k, j) /\ (Flies(j) => Flies(k))
        /\ Declined(j) => Declined(k)
        /\ Doubted(j) => Doubted(k)
    BY <1>1, <2>2, <2>4, PageFacts
  <2> HIDE DEF j
  <2> QED
    BY <1>1, <2>3, <2>5, UseKept DEF k
<1>3. CASE Issue(r, c)
  <2> DEFINE j == [k EXCEPT !.page = "issued", !.effect = "sent"]
  <2>1. call' = [call EXCEPT ![r][c] = j] /\ k.page = "asked"
    BY <1>3 DEF Issue
  <2> HIDE DEF k
  <2>2. /\ After(k, j) /\ (Flies(j) => Flies(k))
        /\ Declined(j) => Declined(k)
        /\ Doubted(j) => Doubted(k)
    BY <1>1, <2>1, PageFacts
  <2> HIDE DEF j
  <2> QED
    BY <1>1, <2>1, <2>2, UseKept DEF k
<1>4. CASE EffectLands(r, c)
  <2>1. PICK e \in {"done", "refused"} : call' = [call EXCEPT ![r][c].effect = e]
    BY <1>4 DEF EffectLands
  <2> DEFINE j == [k EXCEPT !.effect = e]
  <2>2. call' = [call EXCEPT ![r][c] = j] /\ k.effect = "sent"
    BY <1>4, <2>1 DEF EffectLands
  <2> HIDE DEF k
  <2>3. /\ After(k, j) /\ (Flies(j) => Flies(k))
        /\ Declined(j) => Declined(k)
        /\ Doubted(j) => Doubted(k)
    BY <1>1, <2>2, LandsFacts
  <2> HIDE DEF j
  <2> QED
    BY <1>1, <2>2, <2>3, UseKept DEF k
<1>5. CASE Respond(r, c)
  <2>1. PICK page \in Seen(k.effect) : Page(r, c, page)
    BY <1>5 DEF Respond
  <2> DEFINE j == [k EXCEPT !.page = page]
  <2>2. call' = [call EXCEPT ![r][c] = j] /\ k.page = "issued"
    BY <1>5, <2>1 DEF Page, Respond
  <2>3. page \in {"asked", "issued"} \cup Outcomes
    BY DEF Seen, Outcomes
  <2> HIDE DEF k
  <2>4. /\ After(k, j) /\ (Flies(j) => Flies(k))
        /\ Declined(j) => Declined(k)
        /\ Doubted(j) => Doubted(k)
    BY <1>1, <2>2, <2>3, PageFacts
  <2> HIDE DEF j
  <2> QED
    BY <1>1, <2>2, <2>4, UseKept DEF k
<1> QED
  BY <1>2, <1>3, <1>4, <1>5

\* The rows of one run: fenced, and answered if the run closes.
LEMMA RowKept ==
    ASSUME CInv, NEW r \in Runs, NEW s \in BOOLEAN,
           call' = [call EXCEPT ![r] = Fenced(IF s THEN Unanswered(call[r]) ELSE call[r])],
           s => run'[r].closing,
           \A q \in Runs : Keeps(run[q], run'[q]),
           UNCHANGED sdk
    PROVE  CInv' /\ Sends
<1>1. PICK fenced \in SUBSET Runs : fenced = {r}
  OBVIOUS
<1>2. PICK shut \in SUBSET Runs : shut = IF s THEN {r} ELSE {}
  OBVIOUS
<1>3. call' = [q \in Runs |->
             LET row == IF q \in shut THEN Unanswered(call[q]) ELSE call[q]
             IN  IF q \in fenced THEN Fenced(row) ELSE row]
  BY <1>1, <1>2 DEF CInv, CallTypes
<1>4. \A q \in shut : run'[q].closing
  BY <1>2
<1> QED
  BY <1>3, <1>4, RowsKept

LEMMA PostCalls ==
    ASSUME IInv, CInv, NEW r \in Runs, NEW c \in Calls, Post(r, c)
    PROVE  CInv' /\ Sends
<1> DEFINE k == call[r][c]
<1>1. /\ UNCHANGED sdk /\ k.page \in Outcomes
      /\ k \in CallRecord /\ Right(k)
      /\ run \in [Runs -> RunRecord] /\ run[r] \in RunRecord
      /\ run[r].blocked \in BOOLEAN /\ run[r].uncertain \in BOOLEAN
  BY CallFacts DEF Post, IInv, Types, RunRecord
<1>2. CASE call' = [call EXCEPT ![r] = Fenced(@)] /\ UNCHANGED run
  <2>1. PICK s \in BOOLEAN : s = FALSE
    OBVIOUS
  <2>2. call' = [call EXCEPT ![r] = Fenced(IF s THEN Unanswered(call[r]) ELSE call[r])]
    BY <1>2, <2>1
  <2> QED
    BY <1>1, <1>2, <2>1, <2>2, NothingNoted, RowKept
<1>3. CASE MayResolve(r, c) /\ Resolved(r, c, k.page)
  <2> DEFINE j == [k EXCEPT !.server = "resolved", !.answer = k.page, !.page = "done"]
  <2>1. PICK u \in BOOLEAN : u = (run[r].uncertain \/ call[r][c].page = "unknown")
    OBVIOUS
  <2>2. PICK b \in BOOLEAN :
          b = (run[r].blocked \/ (call[r][c].page # "completed" /\ call[r][c].typing))
    OBVIOUS
  <2>3. run' = [run EXCEPT ![r] = [run[r] EXCEPT !.blocked = b, !.uncertain = u]]
    BY <1>1, <1>3, <2>1, <2>2 DEF Resolved, RunRecord
  <2>4. call' = [call EXCEPT ![r][c] = j] /\ k.server = "pending"
    BY <1>3 DEF Resolved, MayResolve
  <2>5. /\ \A q \in Runs : Keeps(run[q], run'[q])
        /\ run'[r].blocked = b /\ run'[r].uncertain = u
    BY <2>1, <2>2, <2>3, NotesKept DEF IInv
  <2>6. (k.typing /\ k.page = "failed" => b) /\ (k.page = "unknown" => u)
    BY <2>1, <2>2
  <2> HIDE DEF k
  <2>7. /\ After(k, j) /\ Flies(k)
        /\ Declined(j) => k.typing /\ k.page = "failed"
        /\ Doubted(j) => k.page = "unknown"
    BY <1>1, <2>4, ResolvedFacts
  <2> HIDE DEF j
  <2>8. Remembers(run'[r], j)
    BY <2>5, <2>6, <2>7 DEF Remembers
  <2>9. sdk[r] = "running"
    BY <2>7, CallFacts DEF k
  <2> QED
    BY <1>1, <2>4, <2>5, <2>7, <2>8, <2>9, OneCallKept DEF k
<1> QED
  BY <1>2, <1>3 DEF Post

-----------------------------------------------------------------------------
(* The run *)

LEMMA KeepsMore ==
    ASSUME Types, NEW r \in Runs, NEW m \in RunRecord, run' = [run EXCEPT ![r] = m],
           \/ m.at = "closed"
           \/ /\ run[r].at # "closed"
              /\ run[r].blocked => m.blocked
              /\ run[r].uncertain => m.uncertain
              /\ run[r].closing => m.closing
    PROVE  /\ \A q \in Runs : Keeps(run[q], run'[q])
           /\ run'[r] = m
  BY DEF Types, Keeps

LEMMA FailedCalls ==
    ASSUME IInv, CInv, NEW r \in Runs, NEW changed \in {run[r], [run[r] EXCEPT !.turn = TRUE]},
           run[r].at \in Admitting, Failed(r, changed), UNCHANGED sdk
    PROVE  CInv' /\ Sends
<1> DEFINE m == [changed EXCEPT !.at = "prepared", !.closing = TRUE]
<1>1. run[r] \in RunRecord /\ run' = [run EXCEPT ![r] = m]
  BY DEF IInv, Types, Failed
<1>2. /\ changed \in RunRecord
      /\ changed.blocked = run[r].blocked /\ changed.uncertain = run[r].uncertain
  BY <1>1 DEF RunRecord
<1>3. /\ m \in RunRecord /\ m.closing
      /\ m.blocked = run[r].blocked /\ m.uncertain = run[r].uncertain
  BY <1>2 DEF RunRecord
<1> HIDE DEF m
<1>4. run'[r].closing /\ \A q \in Runs : Keeps(run[q], run'[q])
  BY <1>1, <1>3, KeepsMore DEF IInv, Admitting
<1>5. PICK s \in BOOLEAN : s = TRUE
  OBVIOUS
<1>6. call' = [call EXCEPT ![r] = Fenced(IF s THEN Unanswered(call[r]) ELSE call[r])]
  BY <1>5 DEF Failed
<1> QED
  BY <1>4, <1>6, RowKept

LEMMA AdmissionCalls ==
    ASSUME IInv, CInv, NEW r \in Runs, Prepares(r) PROVE CInv' /\ Sends
<1> DEFINE l == run[r]
<1>1. l.at \in Admitting /\ UNCHANGED sdk /\ l \in RunRecord
  BY DEF Prepares, AgentIsMade, SessionOpens, TurnStarts, InputRefused, TurnFails, Admitting,
         IInv, Types
<1>2. CASE \E changed \in {run[r], [run[r] EXCEPT !.turn = TRUE]} : Failed(r, changed)
  BY <1>1, <1>2, FailedCalls
<1>3. CASE call' = call /\ \E m \in {[l EXCEPT !.at = "agent"], [l EXCEPT !.at = "starting"],
                                     [[l EXCEPT !.turn = TRUE] EXCEPT !.at = "prepared"]} :
             run' = [run EXCEPT ![r] = m]
  <2>1. PICK m \in {[l EXCEPT !.at = "agent"], [l EXCEPT !.at = "starting"],
                    [[l EXCEPT !.turn = TRUE] EXCEPT !.at = "prepared"]} :
          run' = [run EXCEPT ![r] = m]
    BY <1>3
  <2> HIDE DEF l
  <2>2. /\ m \in RunRecord /\ m.blocked = l.blocked /\ m.uncertain = l.uncertain
        /\ m.closing = l.closing
    BY <1>1 DEF RunRecord, Admitting
  <2>3. \A q \in Runs : Keeps(run[q], run'[q])
    BY <1>1, <2>1, <2>2, KeepsMore DEF IInv, Admitting, l
  <2> QED
    BY <1>1, <1>3, <2>3, CallsStay
<1>4. CASE AgentIsMade(r)
  BY <1>2, <1>3, <1>4 DEF AgentIsMade
<1>5. CASE SessionOpens(r)
  BY <1>2, <1>3, <1>5 DEF SessionOpens
<1>6. CASE TurnStarts(r)
  BY <1>2, <1>3, <1>6 DEF TurnStarts
<1>7. CASE InputRefused(r) \/ TurnFails(r)
  BY <1>2, <1>7 DEF InputRefused, TurnFails
<1> QED
  BY <1>4, <1>5, <1>6, <1>7 DEF Prepares

\* A request, a turn accepted or ended, the pump and the cleanup leave the calls.
LEMMA TurnCalls ==
    ASSUME IInv, CInv, NEW r \in Runs,
           \/ \E s \in Runs : Request(r, s)
           \/ TurnAccepted(r) \/ TurnEnds(r) \/ PumpEnds(r) \/ Cleanup(r)
    PROVE  CInv' /\ Sends
<1> DEFINE l == run[r]
<1>1. l \in RunRecord /\ sdk \in [Runs -> {"none", "running", "ended", "lost"}] /\ call' = call
  BY DEF IInv, Types, Request, TurnAccepted, TurnEnds, PumpEnds, Cleanup
<1>2. ASSUME NEW m \in RunRecord, run' = [run EXCEPT ![r] = m],
             \/ m.at = "closed"
             \/ /\ l.at # "closed" /\ m.blocked = l.blocked /\ m.uncertain = l.uncertain
                /\ l.closing => m.closing,
             UNCHANGED sdk
      PROVE  CInv' /\ Sends
  <2>1. \A q \in Runs : Keeps(run[q], run'[q])
    BY <1>2, KeepsMore DEF IInv
  <2> QED
    BY <1>1, <1>2, <2>1, CallsStay
<1>3. ASSUME NEW s \in Runs, Request(r, s) PROVE CInv' /\ Sends
  <2>1. s \in 0 .. MaxRuns
    BY BoundsAssumption DEF Runs
  <2> DEFINE m == [l EXCEPT !.at = "leased", !.session = s]
             f == [l EXCEPT !.at = "prepared", !.session = s, !.closing = TRUE]
  <2>2. run' = [run EXCEPT ![r] = m] \/ run' = [run EXCEPT ![r] = f]
    BY <1>1, <1>3 DEF Request, IInv, Types, RunRecord
  <2>3. l.at # "closed" /\ UNCHANGED sdk
    BY <1>3 DEF Request
  <2>4. /\ m \in RunRecord /\ m.blocked = l.blocked /\ m.uncertain = l.uncertain
        /\ m.closing = l.closing
    BY <1>1, <2>1 DEF RunRecord, Admitting
  <2>5. f \in RunRecord /\ f.blocked = l.blocked /\ f.uncertain = l.uncertain /\ f.closing
    BY <1>1, <2>1 DEF RunRecord
  <2> HIDE DEF m, f
  <2> QED
    BY <1>2, <2>2, <2>3, <2>4, <2>5
<1>4. CASE PumpEnds(r)
  <2> DEFINE m == [l EXCEPT !.pumped = TRUE]
  <2>1. run' = [run EXCEPT ![r] = m] /\ UNCHANGED sdk /\ l.at # "closed"
    BY <1>4 DEF PumpEnds, Registered
  <2>2. /\ m \in RunRecord /\ m.blocked = l.blocked /\ m.uncertain = l.uncertain
        /\ m.closing = l.closing
    BY <1>1 DEF RunRecord
  <2> HIDE DEF m
  <2> QED
    BY <1>2, <2>1, <2>2
<1>5. CASE Cleanup(r)
  BY <1>2, <1>5, GoneFacts DEF Cleanup, IInv
<1>6. CASE TurnAccepted(r)
  <2>1. UNCHANGED run /\ \A q \in Runs : sdk[q] = "running" => sdk'[q] = "running"
    BY <1>1, <1>6 DEF TurnAccepted
  <2> QED
    BY <1>1, <2>1, NothingNoted, CallsStay
<1>7. CASE TurnEnds(r)
  <2>1. UNCHANGED run /\ \A q \in Runs : sdk[q] = "running" => sdk'[q] = "running" \/ q = r
    BY <1>1, <1>7 DEF TurnEnds
  <2>2. \A c \in Calls : ~Flies(call[r][c])
    BY <1>7 DEF TurnEnds, InFlight, Flies
  <2> QED
    BY <1>1, <2>1, <2>2, NothingNoted, CallsStay
<1> QED
  BY <1>3, <1>4, <1>5, <1>6, <1>7

LEMMA StopCalls ==
    ASSUME IInv, CInv, Shutdown \/ \E r \in Runs : StreamEnds(r) \/ TabStops(r)
    PROVE  CInv' /\ Sends
<1>1. ASSUME NEW r \in Runs, StreamEnds(r) PROVE CInv' /\ Sends
  <2> DEFINE l == run[r]
             m == [l EXCEPT !.closing = TRUE]
  <2>1. /\ run' = [run EXCEPT ![r] = m] /\ UNCHANGED sdk /\ l.at # "closed"
        /\ l \in RunRecord
    BY <1>1 DEF StreamEnds, IInv, Types
  <2>2. /\ m \in RunRecord /\ m.blocked = l.blocked /\ m.uncertain = l.uncertain /\ m.closing
    BY <2>1 DEF RunRecord
  <2> HIDE DEF m
  <2>3. run'[r].closing /\ \A q \in Runs : Keeps(run[q], run'[q])
    BY <2>1, <2>2, KeepsMore DEF IInv
  <2>4. PICK s \in BOOLEAN : s = TRUE
    OBVIOUS
  <2>5. call' = [call EXCEPT ![r] = Fenced(IF s THEN Unanswered(call[r]) ELSE call[r])]
    BY <1>1, <2>4 DEF StreamEnds
  <2> QED
    BY <2>1, <2>3, <2>5, RowKept
<1>2. ASSUME NEW r \in Runs, TabStops(r) PROVE CInv' /\ Sends
  <2>1. PICK s \in BOOLEAN : s = FALSE
    OBVIOUS
  <2>2. /\ call' = [call EXCEPT ![r] = Fenced(IF s THEN Unanswered(call[r]) ELSE call[r])]
        /\ UNCHANGED <<run, sdk>>
    BY <1>2, <2>1 DEF TabStops
  <2> QED
    BY <2>1, <2>2, NothingNoted, RowKept
<1>3. ASSUME Shutdown PROVE CInv' /\ Sends
  <2>1. PICK shut \in SUBSET Runs : shut = {r \in Runs : Registered(r)}
    OBVIOUS
  <2>2. PICK fenced \in SUBSET Runs : fenced = {}
    OBVIOUS
  <2>3. call' = [q \in Runs |->
             LET row == IF q \in shut THEN Unanswered(call[q]) ELSE call[q]
             IN  IF q \in fenced THEN Fenced(row) ELSE row]
    BY <1>3, <2>1, <2>2 DEF Shutdown
  <2>4. ASSUME NEW q \in Runs
        PROVE  Keeps(run[q], run'[q]) /\ (q \in shut => run'[q].closing)
    <3>1. run[q] \in RunRecord
      BY DEF IInv, Types
    <3>2. CASE Registered(q)
      <4>1. run'[q] = [run[q] EXCEPT !.closing = TRUE]
        BY <1>3, <3>2 DEF Shutdown
      <4> QED
        BY <3>1, <3>2, <4>1 DEF RunRecord, Keeps, Registered
    <3>3. CASE ~Registered(q)
      <4>1. run'[q] = run[q]
        BY <1>3, <3>3 DEF Shutdown
      <4> QED
        BY <2>1, <3>3, <4>1 DEF Keeps
    <3> QED
      BY <3>2, <3>3
  <2>5. UNCHANGED sdk
    BY <1>3 DEF Shutdown
  <2> QED
    BY <2>3, <2>4, <2>5, RowsKept
<1> QED
  BY <1>1, <1>2, <1>3

\* The process dies: what was in flight is lost, and every page fences its calls.
LEMMA RestartCalls ==
    ASSUME IInv, CInv, Restart PROVE CInv' /\ Sends
<1> DEFINE i(q, d) == IF Flies(call[q][d])
                      THEN [call[q][d] EXCEPT !.server = "lost", !.answer = "none"]
                      ELSE call[q][d]
           j(q, d) == IF i(q, d).page = "hidden" THEN i(q, d)
                      ELSE [i(q, d) EXCEPT !.page = "done"]
<1>1. call' = [q \in Runs |-> [d \in Calls |-> j(q, d)]]
  BY DEF Restart, Fenced, InFlight, Flies
<1>2. ASSUME NEW q \in Runs, NEW d \in Calls
      PROVE  /\ After(call[q][d], call'[q][d]) /\ ~Flies(call'[q][d])
             /\ Declined(call'[q][d]) => Declined(call[q][d])
             /\ Doubted(call'[q][d]) => Doubted(call[q][d])
  <2>1. call'[q][d] = j(q, d) /\ call[q][d] \in CallRecord /\ Right(call[q][d])
    BY <1>1, CallFacts
  <2> QED
    BY <2>1, LostFacts
<1>3. ASSUME NEW q \in Runs PROVE Keeps(run[q], run'[q])
  <2>1. CASE Registered(q)
    BY <2>1, GoneFacts DEF Restart, IInv, Keeps
  <2>2. CASE ~Registered(q)
    BY <2>2 DEF Restart, Keeps
  <2> QED
    BY <2>1, <2>2
<1>4. CallTypes'
  BY <1>1, <1>2 DEF CallTypes, After
<1>5. \A q \in Runs, d \in Calls : Remembers(run'[q], call'[q][d])
  BY <1>2, <1>3, CallFacts, KeepsFacts
<1> QED
  BY <1>2, <1>4, <1>5, CallsFrame

LEMMA InitCalls == Init => CInv
<1> SUFFICES ASSUME Init PROVE CInv
  OBVIOUS
<1>1. /\ NewCall \in CallRecord /\ Right(NewCall) /\ ~Open(NewCall) /\ ~Flies(NewCall)
      /\ ~Declined(NewCall) /\ ~Doubted(NewCall)
  BY DEF NewCall, CallRecord, Right, Open, Flies, Declined, Doubted
<1>2. call = [r \in Runs |-> [c \in Calls |-> NewCall]]
  BY DEF Init
<1> QED
  BY <1>1, <1>2 DEF CInv, CallTypes, EachRight, OneOpen, Remembers

LEMMA NextCalls == IInv /\ CInv /\ [Next]_vars => CInv' /\ Sends
<1> SUFFICES ASSUME IInv, CInv, [Next]_vars PROVE CInv' /\ Sends
  OBVIOUS
<1>1. CASE UNCHANGED vars
  <2>1. UNCHANGED <<run, sdk, call>>
    BY <1>1 DEF vars
  <2> QED
    BY <2>1, NothingNoted, CallsStay
<1>2. ASSUME NEW r \in Runs,
             \/ \E s \in Runs : Request(r, s)
             \/ Prepares(r) \/ TurnAccepted(r) \/ TurnEnds(r) \/ PumpEnds(r)
             \/ StreamEnds(r) \/ Cleanup(r) \/ TabStops(r)
      PROVE  CInv' /\ Sends
  BY <1>2, AdmissionCalls, TurnCalls, StopCalls
<1>3. ASSUME NEW r \in Runs, NEW c \in Calls, ToolCalled(r, c) \/ Handles(r, c) \/ Uses(r, c)
      PROVE  CInv' /\ Sends
  BY <1>3, ToolCalledCalls, DispatchCalls, ReturnCalls, PageCalls, PostCalls DEF Handles, Uses
<1>4. CASE Shutdown
  BY <1>4, StopCalls
<1>5. CASE Restart
  BY <1>5, RestartCalls
<1> QED
  BY <1>1, <1>2, <1>3, <1>4, <1>5 DEF Next

\* What BrowserBridge.invoke reports to the SDK of a typing call is so, whatever page,
\* bridge and server did in between: a completed one has been typed, a failed one was
\* not and cannot be any more.
THEOREM ReportsAlwaysTrue == Spec => []ReportsAreTrue
<1>1. CInv => ReportsAreTrue
  <2> SUFFICES ASSUME CInv, NEW r \in Runs, NEW c \in Calls
               PROVE  /\ call[r][c].server = "completed" => call[r][c].effect = "done"
                      /\ call[r][c].server = "failed" => call[r][c].effect \in {"none", "refused"}
    BY DEF ReportsAreTrue
  <2> QED
    BY CallFacts DEF Right
<1> QED
  BY <1>1, InitInv, InitCalls, NextInv, NextCalls, PTL DEF Spec

\* Once typing was declined, refused or left unknown, at the page or at the bridge
\* (bridge.py, chat.js), no request that types leaves the page for that run.
THEOREM NeverTypesAfterNo == Spec => NoTypingAfterNo
<1> DEFINE Quiet == \A r \in Runs : \A c \in Calls :
              call[r][c].typing /\ call[r][c].effect = "none" /\ call'[r][c].effect = "sent" =>
                \A d \in Calls \ {c} : ~SaidNo(r, d)
<1>1. CInv /\ Sends => Quiet
  <2> SUFFICES ASSUME CInv, Sends, NEW r \in Runs, NEW c \in Calls, call[r][c].typing,
                      call[r][c].effect = "none", call'[r][c].effect = "sent",
                      NEW d \in Calls \ {c}
               PROVE  ~SaidNo(r, d)
    OBVIOUS
  <2>1. Open(call[r][c])
    BY DEF Sends
  <2>2. ~Said(call[r][d])
    BY <2>1 DEF CInv, OneOpen
  <2> QED
    BY <2>2, SaysNo
<1>2. IInv /\ CInv /\ [Next]_vars => [Quiet]_vars
  BY <1>1, NextCalls
<1> QED
  BY <1>2, InitInv, InitCalls, NextInv, NextCalls, PTL DEF Spec, NoTypingAfterNo

=============================================================================
