--------------------------- MODULE DevicesProofs ----------------------------
(***************************************************************************)
(* Proofs about SyncGroups and Federation: what the devices of a server,   *)
(* and its peers, may rely on.                                             *)
(***************************************************************************)
EXTENDS SyncGroups, Federation, TLAPS

-----------------------------------------------------------------------------
(* Whatever the devices, sessions and requests: the groups devices are in
   exist, and the marks of who is followed are true. *)

GroupsInv == GroupsTypeOK /\ GroupsExist /\ MarksAreTrue /\ NothingLeftBehind

LEMMA GroupsInitInv == GroupsInit => GroupsInv
  BY GlobalAssumption, NothingAssumption
  DEF GroupsInit, GroupsInv, GroupsTypeOK, GroupsExist, MarksAreTrue, NothingLeftBehind, Groups,
      Selection, NoConnect, Exists

\* The steps that touch neither the devices nor the set of groups.
LEMMA SelectionsDoNotMatter ==
    ASSUME GroupsInv, GroupsTypeOK', UNCHANGED <<deviceVars, groups>>
    PROVE  GroupsInv'
  BY DEF GroupsInv, GroupsExist, MarksAreTrue, NothingLeftBehind, Exists, deviceVars

LEMMA HeartbeatType ==
    ASSUME GroupsInv, NEW d \in Devices, NEW g \in Groups \cup {Nothing}, Heartbeat(d, g)
    PROVE  GroupsTypeOK'
<1>1. CASE g = Nothing
  BY <1>1 DEF Heartbeat, GroupsInv, GroupsTypeOK, groupVars
<1>2. CASE g # Nothing
  <2>1. g \in Groups
    BY <1>2
  <2>2. group' \in [Devices -> Groups] /\ registered' \subseteq Devices
    BY <1>2, <2>1 DEF Heartbeat, GroupsInv, GroupsTypeOK
  <2>3. controlledBy' \in [Devices -> Devices \cup {Nothing}]
    BY <1>2 DEF Heartbeat, Marked, GroupsInv, GroupsTypeOK
  <2>4. groups' \subseteq Devices
    BY <1>2, <2>1 DEF Heartbeat, Ensured, Groups, GroupsInv, GroupsTypeOK
  <2>5. selected' \in [Groups -> Selection]
    BY <1>2, <2>1 DEF Heartbeat, Seeded, Groups, GroupsInv, GroupsTypeOK
  <2> QED
    BY <2>2, <2>3, <2>4, <2>5 DEF Heartbeat, GroupsInv, GroupsTypeOK
<1> QED
  BY <1>1, <1>2

\* The marks after a heartbeat: only d's own may have moved, with its group.
LEMMA HeartbeatKeepsInv ==
    ASSUME GroupsInv, NEW d \in Devices, NEW g \in Groups \cup {Nothing}, Heartbeat(d, g)
    PROVE  GroupsInv'
<1>1. GroupsTypeOK'
  BY HeartbeatType
<1>2. CASE g = Nothing
  BY <1>1, <1>2 DEF Heartbeat, GroupsInv, GroupsTypeOK, GroupsExist, MarksAreTrue, NothingLeftBehind,
                    Exists, groupVars
<1>3. CASE g # Nothing
  <2>0. /\ g \in Groups
        /\ registered' = registered \cup {d}
        /\ group' = [group EXCEPT ![d] = g]
        /\ groups' = groups \cup ({g} \ {Global})
        /\ controlledBy' = Marked(d, Target(d, group[d]), Target(d, g))
    BY <1>3 DEF Heartbeat, Ensured
  <2>1. GroupsExist'
    BY <2>0 DEF GroupsExist, Exists, GroupsInv, GroupsTypeOK
  <2>2. ASSUME NEW x \in registered'
        PROVE  controlledBy'[x] # Nothing =>
                  /\ controlledBy'[x] \in registered' \ {x}
                  /\ group'[controlledBy'[x]] = x
    <3>1. x \in Devices
      BY <1>1 DEF GroupsTypeOK
    <3>2. d \notin registered => Target(d, group[d]) = Nothing
      BY DEF Target, GroupsInv, NothingLeftBehind
    <3>3. CASE Target(d, group[d]) = Target(d, g)
      <4>1. controlledBy' = controlledBy
        BY <2>0, <3>3 DEF Marked
      <4>2. CASE controlledBy[x] = d
        <5>1. x \in registered /\ d # x /\ group[d] = x
          BY <3>1, <4>2, NothingAssumption DEF GroupsInv, MarksAreTrue, NothingLeftBehind
        <5>2. x = Target(d, group[d])
          BY <5>1, <3>1, GlobalAssumption DEF Target
        <5>3. g = x
          BY <5>2, <3>3, <3>1, NothingAssumption DEF Target
        <5> QED
          BY <4>1, <4>2, <5>1, <5>3, <2>0 DEF GroupsInv, GroupsTypeOK
      <4>3. CASE controlledBy[x] # d
        BY <4>1, <4>3, <2>0, <3>1 DEF GroupsInv, GroupsTypeOK, MarksAreTrue, NothingLeftBehind
      <4> QED
        BY <4>2, <4>3
    <3>4. CASE Target(d, group[d]) # Target(d, g)
      <4>1. controlledBy'[x] =
              IF x = Target(d, g) /\ x \in registered THEN d
              ELSE IF x = Target(d, group[d]) /\ controlledBy[x] = d THEN Nothing ELSE controlledBy[x]
        BY <2>0, <3>1, <3>4 DEF Marked
      <4>2. CASE x = Target(d, g) /\ x \in registered
        <5>1. x = g /\ x # d
          BY <4>2, <3>1, NothingAssumption DEF Target
        <5> QED
          BY <4>1, <4>2, <5>1, <2>0 DEF GroupsInv, GroupsTypeOK
      <4>3. CASE ~(x = Target(d, g) /\ x \in registered) /\ controlledBy[x] = d
        <5>1. x \in registered /\ d # x /\ group[d] = x
          BY <3>1, <4>3, NothingAssumption DEF GroupsInv, MarksAreTrue, NothingLeftBehind
        <5>2. x = Target(d, group[d])
          BY <5>1, <3>1, GlobalAssumption DEF Target
        <5> QED
          BY <4>1, <4>3, <5>2
      <4>4. CASE ~(x = Target(d, g) /\ x \in registered) /\ controlledBy[x] # d
        BY <4>1, <4>4, <2>0, <3>1 DEF GroupsInv, GroupsTypeOK, MarksAreTrue, NothingLeftBehind
      <4> QED
        BY <4>2, <4>3, <4>4
    <3> QED
      BY <3>3, <3>4
  <2>3. NothingLeftBehind'
    <3>1. ASSUME NEW x \in Devices \ registered'
          PROVE  group'[x] = Global /\ controlledBy'[x] = Nothing
      <4>1. x \in Devices \ registered /\ x # d
        BY <3>1, <2>0
      <4>2. group'[x] = Global
        BY <4>1, <2>0 DEF GroupsInv, GroupsTypeOK, NothingLeftBehind
      <4>3. controlledBy'[x] \in {controlledBy[x], Nothing}
        BY <4>1, <2>0 DEF Marked, GroupsInv, GroupsTypeOK
      <4> QED
        BY <4>1, <4>2, <4>3 DEF GroupsInv, NothingLeftBehind
    <3> QED
      BY <3>1 DEF NothingLeftBehind
  <2> QED
    BY <1>1, <2>1, <2>2, <2>3 DEF GroupsInv, MarksAreTrue
<1> QED
  BY <1>2, <1>3

LEMMA PollCycleKeepsInv ==
    ASSUME GroupsInv, NEW stale \in SUBSET registered, PollCycle(stale, live)
    PROVE  GroupsInv'
<1> DEFINE staying == registered \ stale
<1>1. GroupsTypeOK'
  <2>1. registered' \subseteq Devices /\ group' \in [Devices -> Groups] /\ groups' \subseteq Devices
    BY DEF PollCycle, GroupsInv, GroupsTypeOK, Groups
  <2>2. controlledBy' \in [Devices -> Devices \cup {Nothing}]
    BY DEF PollCycle, GroupsInv, GroupsTypeOK
  <2>3. selected' \in [Groups -> Selection]
    BY DEF PollCycle, Cleared, Selection, GroupsInv, GroupsTypeOK
  <2> QED
    BY <2>1, <2>2, <2>3 DEF PollCycle, GroupsInv, GroupsTypeOK
<1>2. GroupsExist'
  <2>1. ASSUME NEW d \in staying PROVE group'[d] = Global \/ group'[d] \in groups'
    <3>1. group'[d] = group[d]
      BY DEF PollCycle, GroupsInv, GroupsTypeOK
    <3>2. group[d] = Global \/ group[d] \in groups \cap Claimed(staying)
      BY DEF Claimed, GroupsInv, GroupsExist, Exists
    <3> QED
      BY <3>1, <3>2 DEF PollCycle
  <2> QED
    BY <2>1 DEF GroupsExist, Exists, PollCycle
<1>3. MarksAreTrue'
  <2>1. ASSUME NEW d \in staying, controlledBy'[d] # Nothing
        PROVE  controlledBy'[d] \in staying \ {d} /\ group'[controlledBy'[d]] = d
    <3>1. d \in Devices
      BY DEF GroupsInv, GroupsTypeOK
    <3>2. controlledBy'[d] = controlledBy[d] /\ controlledBy[d] \in staying
      BY <2>1, <3>1 DEF PollCycle
    <3>3. controlledBy[d] # d /\ group[controlledBy[d]] = d
      BY <2>1, <3>2 DEF GroupsInv, MarksAreTrue
    <3>4. group'[controlledBy[d]] = group[controlledBy[d]]
      BY <3>2 DEF PollCycle, GroupsInv, GroupsTypeOK
    <3> QED
      BY <3>2, <3>3, <3>4
  <2> QED
    BY <2>1 DEF MarksAreTrue, PollCycle
<1>4. NothingLeftBehind'
  BY DEF NothingLeftBehind, PollCycle
<1> QED
  BY <1>1, <1>2, <1>3, <1>4 DEF GroupsInv

LEMMA StepInv == GroupsInv /\ [GroupsNext]_syncVars => GroupsInv'
<1> SUFFICES ASSUME GroupsInv, [GroupsNext]_syncVars PROVE GroupsInv'
  OBVIOUS
<1>1. CASE \E d \in Devices, g \in Groups \cup {Nothing} : Heartbeat(d, g)
  BY <1>1, HeartbeatKeepsInv
<1>2. CASE \E d \in Devices \cup {Nothing}, s \in Selection : Select(d, s)
  <2>1. GroupsTypeOK'
    BY <1>2 DEF Select, Mirrored, GroupsInv, GroupsTypeOK, deviceVars
  <2> QED
    BY <1>2, <2>1, SelectionsDoNotMatter DEF Select
<1>3. CASE \E r \in Requests, d \in Devices \cup {Nothing}, s \in Sessions : BeginConnect(r, d, s)
  <2>1. PICK r \in Requests, d \in Devices \cup {Nothing}, s \in Sessions : BeginConnect(r, d, s)
    BY <1>3
  <2>2. GroupOf(d) \in Groups
    BY DEF GroupOf, Groups, GroupsInv, GroupsTypeOK
  <2>3. GroupsTypeOK'
    BY <2>1, <2>2 DEF BeginConnect, Selection, GroupsInv, GroupsTypeOK, deviceVars, groupVars
  <2> QED
    BY <2>1, <2>3, SelectionsDoNotMatter DEF BeginConnect, groupVars
<1>4. CASE \E r \in Requests : EndConnect(r)
  <2>1. PICK r \in Requests : EndConnect(r)
    BY <1>4
  <2>2. request[r] \in [device : Devices \cup {Nothing}, session : Selection, group : Groups]
    BY DEF GroupsInv, GroupsTypeOK
  <2>3. selected' \in [Groups -> Selection]
    BY <2>1, <2>2 DEF EndConnect, Mirrored, GroupsInv, GroupsTypeOK
  <2>4. NoConnect \in [device : Devices \cup {Nothing}, session : Selection, group : Groups]
    BY DEF NoConnect, Selection, Groups
  <2>5. GroupsTypeOK'
    BY <2>1, <2>3, <2>4 DEF EndConnect, GroupsInv, GroupsTypeOK, deviceVars
  <2> QED
    BY <2>1, <2>5, SelectionsDoNotMatter DEF EndConnect
<1>5. CASE \E stale \in SUBSET registered : PollCycle(stale, live)
  BY <1>5, PollCycleKeepsInv
<1>6. CASE \E s \in Sessions : SessionDies(s) \/ SessionCreated(s)
  <2>1. GroupsTypeOK'
    BY <1>6 DEF SessionDies, SessionCreated, GroupsInv, GroupsTypeOK, deviceVars, groupVars
  <2> QED
    BY <1>6, <2>1, SelectionsDoNotMatter DEF SessionDies, SessionCreated, groupVars
<1>7. CASE ServerRestarts
  <2>1. NoConnect \in [device : Devices \cup {Nothing}, session : Selection, group : Groups]
    BY DEF NoConnect, Selection, Groups
  <2>2. GroupsTypeOK'
    BY <1>7, <2>1 DEF ServerRestarts, GroupsInv, GroupsTypeOK, deviceVars, groupVars
  <2> QED
    BY <1>7, <2>2, SelectionsDoNotMatter DEF ServerRestarts, groupVars
<1>8. CASE UNCHANGED syncVars
  <2>1. GroupsTypeOK'
    BY <1>8 DEF syncVars, GroupsInv, GroupsTypeOK, deviceVars, groupVars
  <2> QED
    BY <1>8, <2>1, SelectionsDoNotMatter DEF syncVars, groupVars
<1> QED
  BY <1>1, <1>2, <1>3, <1>4, <1>5, <1>6, <1>7, <1>8 DEF GroupsNext

\* Every variable of the model keeps to its type.
THEOREM GroupsTypeCorrect == GroupsSpec => []GroupsTypeOK
<1>1. GroupsInv => GroupsTypeOK
  BY DEF GroupsInv
<1> QED
  BY GroupsInitInv, StepInv, <1>1, PTL DEF GroupsSpec

\* read_group_state never raises for a registered device: the group it is in
\* has a slot, whatever ensure_group and gc_sync_groups did before.
THEOREM NoDanglingGroup == GroupsSpec => []GroupsExist
<1>1. GroupsInv => GroupsExist
  BY DEF GroupsInv
<1> QED
  BY GroupsInitInv, StepInv, <1>1, PTL DEF GroupsSpec

\* register_device and prune_devices keep every controlled_by mark true: it
\* names a registered device that is in the marked device's group.
THEOREM MarksStayTrue == GroupsSpec => []MarksAreTrue
<1>1. GroupsInv => MarksAreTrue
  BY DEF GroupsInv
<1> QED
  BY GroupsInitInv, StepInv, <1>1, PTL DEF GroupsSpec

-----------------------------------------------------------------------------
(* Whatever the calls, sessions and limits: one probe a window, no list kept
   after a rejection, and no list with grace left behind a circuit that is
   open. *)

Entry == [list : SUBSET Names, fails : 0..Grace]
History == [others : BOOLEAN, rejected : BOOLEAN, crossed : BOOLEAN]

Types ==
  /\ peer \in [up : BOOLEAN, rejects : BOOLEAN, live : SUBSET Names]
  /\ breaker \in [failures : 0..Threshold, open : BOOLEAN, cooled : BOOLEAN]
  /\ cache \in [Cached -> Entry \cup {None}]
  /\ calls \in [Calls -> {Idle} \cup Sent \cup Listed]
  /\ history \in History

Probing(c) == calls[c].phase = "sent" /\ calls[c].probe

\* While a probe is under way the window has not passed again, so that there is
\* no second one.
ProbesAlone ==
  /\ \A c \in Calls : Probing(c) => ~breaker.cooled
  /\ OneProbe

Late(c) == calls[c].phase = "listed" /\ calls[c].overtaken

\* A list that waits since before a rejection is marked as overtaken by it.
RejectionReaches ==
  history.rejected =>
    /\ cache["sessions"] = None \/ history.crossed
    /\ \A c \in Calls : calls[c].phase = "listed" => Late(c)

\* Failures of session calls wear the cached list as they count against the peer;
\* a list that waits, and was not overtaken, waits since before the first.
Matched ==
  /\ breaker.open => breaker.failures = Threshold
  /\ ~history.others =>
       /\ \A c \in Calls : calls[c].phase = "listed" /\ ~Late(c) => breaker.failures = 0
       /\ \/ history.crossed
          \/ breaker.failures <= cache["sessions"].fails
          \/ cache["sessions"].fails = Grace

IInv == Types /\ ProbesAlone /\ RejectionReaches /\ Matched

-----------------------------------------------------------------------------
LEMMA ValueFacts ==
    /\ None.fails = Grace /\ Idle.phase = "idle"
    /\ Closed \in [failures : 0..Threshold, open : BOOLEAN, cooled : BOOLEAN]
    /\ Closed.failures = 0 /\ ~Closed.open /\ ~Closed.cooled
    /\ \A s \in Sent : s.phase = "sent"
    /\ \A l \in Listed : l.phase = "listed" /\ l.overtaken \in BOOLEAN
  BY CountsAssumption DEF None, Idle, Closed, Sent, Listed

\* What a failure leaves of an entry: one less of its grace, if it had any.
LEMMA WornFacts ==
    ASSUME NEW entry \in Entry \cup {None}
    PROVE  /\ Worn(entry) \in Entry \cup {None}
           /\ entry = None => Worn(entry) = None
           /\ Worn(entry).fails = IF entry.fails < Grace THEN entry.fails + 1 ELSE Grace
<1>1. CASE entry = None
  <2>1. None.fails = Grace /\ ~(Grace < Grace)
    BY CountsAssumption DEF None
  <2> QED
    BY <1>1, <2>1 DEF Worn
<1>2. CASE entry \in Entry /\ entry # None
  <2>1. entry.fails \in 0..Grace
    BY <1>2 DEF Entry
  <2>2. CASE entry.fails < Grace
    <3>1. entry.fails + 1 \in 0..Grace
      BY <2>1, <2>2, CountsAssumption
    <3> QED
      BY <1>2, <2>2, <3>1 DEF Worn, Entry
  <2>3. CASE ~(entry.fails < Grace)
    BY <1>2, <2>1, <2>3, CountsAssumption DEF Worn
  <2> QED
    BY <2>2, <2>3
<1> QED
  BY <1>1, <1>2

LEMMA WornCacheFacts ==
    ASSUME Types, NEW kind \in Kinds
    PROVE  /\ WornCache(kind) \in [Cached -> Entry \cup {None}]
           /\ WornCache(kind)["sessions"] =
                IF kind = "sessions" THEN Worn(cache["sessions"]) ELSE cache["sessions"]
  BY WornFacts DEF WornCache, Types, Cached, Kinds

\* A failure counts, up to the threshold.
LEMMA FailedFacts ==
    ASSUME Types, breaker.open => breaker.failures = Threshold
    PROVE  /\ Failed \in [failures : 0..Threshold, open : BOOLEAN, cooled : BOOLEAN]
           /\ ~Failed.cooled
           /\ Failed.failures = IF breaker.failures < Threshold THEN breaker.failures + 1
                                ELSE Threshold
           /\ Failed.open => Failed.failures = Threshold
<1>1. breaker.failures \in 0..Threshold /\ breaker.open \in BOOLEAN
  BY DEF Types
<1> DEFINE failures == IF breaker.failures < Threshold THEN breaker.failures + 1 ELSE Threshold
<1>2. failures \in 0..Threshold
  BY <1>1, CountsAssumption
<1>3. /\ Failed.failures = failures /\ Failed.cooled = FALSE
      /\ Failed.open = (breaker.open \/ failures >= Threshold)
  BY DEF Failed, Enough
<1>4. Failed = [failures |-> failures, open |-> breaker.open \/ failures >= Threshold,
                cooled |-> FALSE]
  BY DEF Failed, Enough
<1> QED
  BY <1>1, <1>2, <1>3, <1>4, CountsAssumption

\* A call that ends: the waiting ones are told, if it was for the sessions.
LEMMA OvertakenFacts ==
    ASSUME Types, NEW c \in Calls, calls[c].phase = "sent"
    PROVE  /\ Overtaken(c) \in [Calls -> {Idle} \cup Sent \cup Listed]
           /\ Overtaken(c)[c] = Idle
           /\ \A d \in Calls \ {c} :
                /\ Overtaken(c)[d].phase = calls[d].phase
                /\ calls[d].phase = "sent" => Overtaken(c)[d] = calls[d]
                /\ calls[d].phase = "listed" =>
                     /\ Overtaken(c)[d].overtaken = (calls[d].overtaken \/ calls[c].kind = "sessions")
                     /\ Overtaken(c)[d].overtaken \in BOOLEAN
<1>1. ASSUME NEW d \in Calls \ {c}
      PROVE  /\ Overtaken(c)[d] \in {Idle} \cup Sent \cup Listed
             /\ Overtaken(c)[d].phase = calls[d].phase
             /\ calls[d].phase = "sent" => Overtaken(c)[d] = calls[d]
             /\ calls[d].phase = "listed" =>
                  /\ Overtaken(c)[d].overtaken = (calls[d].overtaken \/ calls[c].kind = "sessions")
                  /\ Overtaken(c)[d].overtaken \in BOOLEAN
  <2>1. calls[d] \in {Idle} \cup Sent \cup Listed
    BY DEF Types
  <2>2. CASE calls[d].phase = "listed"
    <3>1. calls[d] \in Listed
      BY <2>1, <2>2, ValueFacts
    <3>2. CASE calls[c].kind = "sessions"
      <4>1. Overtaken(c)[d] = [calls[d] EXCEPT !.overtaken = TRUE]
        BY <2>2, <3>2 DEF Overtaken
      <4> QED
        BY <2>2, <3>1, <3>2, <4>1 DEF Listed
    <3>3. CASE calls[c].kind # "sessions"
      <4>1. Overtaken(c)[d] = calls[d]
        BY <3>3 DEF Overtaken
      <4>2. calls[d].overtaken \in BOOLEAN
        BY <3>1 DEF Listed
      <4> QED
        BY <2>1, <2>2, <3>3, <4>1, <4>2
    <3> QED
      BY <3>2, <3>3
  <2>3. CASE calls[d].phase # "listed"
    <3>1. Overtaken(c)[d] = calls[d]
      BY <2>3 DEF Overtaken
    <3> QED
      BY <2>1, <2>3, <3>1
  <2> QED
    BY <2>2, <2>3
<1>2. Overtaken(c)[c] = Idle
  BY DEF Overtaken
<1>3. Overtaken(c) = [d \in Calls |-> Overtaken(c)[d]]
  BY DEF Overtaken
<1> QED
  BY <1>1, <1>2, <1>3

-----------------------------------------------------------------------------
LEMMA InitInv == Init => IInv
<1> SUFFICES ASSUME Init PROVE IInv
  OBVIOUS
<1>1. Types
  BY ValueFacts DEF Init, Types, History
<1>2. \A c \in Calls : calls[c].phase = "idle"
  BY ValueFacts DEF Init
<1>3. cache["sessions"] = None /\ breaker = Closed
  BY DEF Init, Cached
<1> QED
  BY <1>1, <1>2, <1>3, ValueFacts
  DEF IInv, ProbesAlone, OneProbe, Probing, RejectionReaches, Matched, Late

\* The window passes only while no call is under way.
LEMMA WorldKept ==
    ASSUME IInv, PeerChanges \/ WindowPasses PROVE IInv'
<1>1. CASE PeerChanges
  <2>1. peer' \in [up : BOOLEAN, rejects : BOOLEAN, live : SUBSET Names]
    BY <1>1 DEF PeerChanges, IInv, Types
  <2> QED
    BY <1>1, <2>1 DEF PeerChanges, IInv, Types, ProbesAlone, OneProbe, Probing,
                      RejectionReaches, Matched, Late
<1>2. CASE WindowPasses
  <2>1. /\ breaker' \in [failures : 0..Threshold, open : BOOLEAN, cooled : BOOLEAN]
        /\ breaker'.failures = breaker.failures /\ breaker'.open = breaker.open
    BY <1>2 DEF WindowPasses, IInv, Types
  <2>2. \A c \in Calls : calls'[c].phase = "idle"
    BY <1>2, ValueFacts DEF WindowPasses
  <2> QED
    BY <1>2, <2>1, <2>2 DEF WindowPasses, IInv, Types, ProbesAlone, OneProbe, Probing,
                            RejectionReaches, Matched, Late
<1> QED
  BY <1>1, <1>2

\* A call through the open circuit finds the window passed, and closes it.
LEMMA BeginKept ==
    ASSUME IInv, NEW c \in Calls, NEW kind \in Kinds, Begin(c, kind) PROVE IInv'
<1> DEFINE call == [phase |-> "sent", kind |-> kind, probe |-> breaker.open]
<1>1. call \in Sent /\ call.phase = "sent" /\ call.probe = breaker.open
  BY DEF Sent, IInv, Types
<1>2. calls' = [calls EXCEPT ![c] = call] /\ UNCHANGED <<peer, cache, history>>
  BY DEF Begin
<1> HIDE DEF call
<1>3. \A d \in Calls : calls'[d] = IF d = c THEN call ELSE calls[d]
  BY <1>2 DEF IInv, Types
<1>4. /\ breaker' \in [failures : 0..Threshold, open : BOOLEAN, cooled : BOOLEAN]
      /\ breaker'.failures = breaker.failures /\ breaker'.open = breaker.open
      /\ ~breaker'.cooled
  BY DEF Begin, Attempted, IInv, Types
<1>5. call.probe => \A d \in Calls : ~Probing(d)
  BY <1>1 DEF Begin, MayAttempt, IInv, ProbesAlone
<1>6. Types'
  BY <1>1, <1>2, <1>4 DEF IInv, Types
<1>7. ProbesAlone'
  BY <1>1, <1>3, <1>4, <1>5 DEF IInv, ProbesAlone, OneProbe, Probing
<1>8. RejectionReaches' /\ Matched'
  BY <1>1, <1>2, <1>3, <1>4 DEF IInv, RejectionReaches, Matched, Late
<1> QED
  BY <1>6, <1>7, <1>8 DEF IInv

\* An answered or failed call takes its probe with it, and no other's window.
LEMMA ProbesEnd ==
    ASSUME IInv, NEW c \in Calls, calls[c].phase = "sent", Types',
           \A d \in Calls \ {c} : calls'[d] = Overtaken(c)[d],
           calls'[c].phase # "sent", ~breaker'.cooled
    PROVE  ProbesAlone'
<1>1. \A d \in Calls : Probing(d)' => Probing(d)
  BY OvertakenFacts DEF IInv, Probing
<1> QED
  BY <1>1 DEF IInv, ProbesAlone, OneProbe, Probing

LEMMA TransportFailsKept ==
    ASSUME IInv, NEW c \in Calls, TransportFails(c) PROVE IInv'
<1>1. /\ calls[c].phase = "sent" /\ calls[c].kind \in Kinds
      /\ breaker' = Failed /\ cache' = WornCache(calls[c].kind)
      /\ calls' = Overtaken(c) /\ UNCHANGED peer
      /\ history' = [history EXCEPT !.others = @ \/ calls[c].kind # "sessions"]
  BY ValueFacts DEF TransportFails, IInv, Types, Sent
<1>2. /\ history' \in History
      /\ history'.others = (history.others \/ calls[c].kind # "sessions")
      /\ history'.rejected = history.rejected /\ history'.crossed = history.crossed
  BY <1>1 DEF IInv, Types, History
<1>3. breaker.open => breaker.failures = Threshold
  BY DEF IInv, Matched
<1>4. Types'
  BY <1>1, <1>2, <1>3, FailedFacts, WornCacheFacts, OvertakenFacts DEF IInv, Types
<1>5. ProbesAlone'
  BY <1>1, <1>3, <1>4, FailedFacts, OvertakenFacts, ValueFacts, ProbesEnd DEF IInv
<1>6. cache["sessions"] \in Entry \cup {None}
  BY DEF IInv, Types, Cached
<1>7. RejectionReaches'
  <2>1. cache["sessions"] = None => cache'["sessions"] = None
    BY <1>1, <1>6, WornCacheFacts, WornFacts DEF IInv
  <2>2. \A d \in Calls : calls'[d].phase = "listed" /\ Late(d) => Late(d)'
    BY <1>1, OvertakenFacts, ValueFacts DEF IInv, Late
  <2>3. \A d \in Calls : calls'[d].phase = "listed" => calls[d].phase = "listed"
    BY <1>1, OvertakenFacts, ValueFacts DEF IInv
  <2> QED
    BY <1>2, <2>1, <2>2, <2>3 DEF IInv, RejectionReaches
<1>8. Matched'
  <2>1. breaker'.open => breaker'.failures = Threshold
    BY <1>1, <1>3, FailedFacts DEF IInv
  <2>2. ASSUME ~history'.others
        PROVE  calls[c].kind = "sessions" /\ ~history.others
    BY <1>2, <2>2
  <2>3. ASSUME ~history'.others, NEW d \in Calls, calls'[d].phase = "listed" PROVE Late(d)'
    BY <1>1, <2>2, <2>3, OvertakenFacts, ValueFacts DEF IInv, Late
  <2>4. ASSUME ~history'.others, ~history'.crossed
        PROVE  breaker'.failures <= cache'["sessions"].fails \/ cache'["sessions"].fails = Grace
    <3>1. cache'["sessions"].fails = IF cache["sessions"].fails < Grace
                                     THEN cache["sessions"].fails + 1 ELSE Grace
      BY <1>1, <1>6, <2>2, <2>4, WornCacheFacts, WornFacts DEF IInv
    <3>2. breaker'.failures <= breaker.failures + 1
      BY <1>1, <1>3, FailedFacts, CountsAssumption DEF IInv, Types
    <3>3. breaker.failures <= cache["sessions"].fails \/ cache["sessions"].fails = Grace
      BY <1>2, <2>2, <2>4 DEF IInv, Matched
    <3>4. breaker.failures \in Nat /\ breaker'.failures \in Nat /\ cache["sessions"].fails \in 0..Grace
      BY <1>4, <1>6, CountsAssumption, ValueFacts DEF IInv, Types, Entry
    <3> QED
      BY <3>1, <3>2, <3>3, <3>4, CountsAssumption
  <2> QED
    BY <2>1, <2>3, <2>4 DEF Matched
<1> QED
  BY <1>4, <1>5, <1>7, <1>8 DEF IInv

\* The peer was heard: its failures are forgotten.  What else an answer changes
\* is the kind's entry, and c's own call.
LEMMA HeardKept ==
    ASSUME IInv, NEW c \in Calls, calls[c].phase = "sent", Types',
           breaker' = Succeeded, ~history'.others,
           \A d \in Calls \ {c} : calls'[d] = Overtaken(c)[d],
           calls'[c].phase # "sent",
           calls'[c].phase = "listed" => ~history'.rejected,
           history'.rejected =>
             \/ /\ history.rejected /\ (history.crossed => history'.crossed)
                /\ cache["sessions"] = None => cache'["sessions"] = None
             \/ calls[c].kind = "sessions" /\ cache'["sessions"] = None
    PROVE  IInv'
<1>1. breaker'.failures = 0 /\ ~breaker'.open /\ ~breaker'.cooled
  BY ValueFacts DEF Succeeded
<1>2. ProbesAlone'
  BY <1>1, ProbesEnd
<1>3. \A d \in Calls \ {c} : calls'[d].phase = "listed" =>
        calls[d].phase = "listed" /\ (Late(d) \/ calls[c].kind = "sessions" => Late(d)')
  BY OvertakenFacts DEF IInv, Late
<1>4. RejectionReaches'
  BY <1>3 DEF IInv, RejectionReaches
<1>5. cache'["sessions"].fails \in 0..Grace
  BY CountsAssumption, ValueFacts DEF Types, Entry, Cached
<1>6. Matched'
  BY <1>1, <1>5, CountsAssumption DEF Matched
<1> QED
  BY <1>2, <1>4, <1>6 DEF IInv

LEMMA HeardFacts ==
    ASSUME Types
    PROVE  /\ Heard \in History /\ ~Heard.others
           /\ Heard.rejected = history.rejected /\ Heard.crossed = history.crossed
           /\ Succeeded \in [failures : 0..Threshold, open : BOOLEAN, cooled : BOOLEAN]
  BY ValueFacts DEF Heard, History, Types, Succeeded

LEMMA ErrorAnswerKept ==
    ASSUME IInv, NEW c \in Calls, ErrorAnswer(c) PROVE IInv'
<1>1. /\ calls[c].phase = "sent" /\ calls[c].kind \in Kinds
      /\ breaker' = Succeeded /\ cache' = WornCache(calls[c].kind)
      /\ calls' = Overtaken(c) /\ UNCHANGED peer /\ history' = Heard
  BY ValueFacts DEF ErrorAnswer, IInv, Types, Sent
<1>2. Types'
  BY <1>1, HeardFacts, WornCacheFacts, OvertakenFacts DEF IInv, Types
<1>3. cache["sessions"] = None => cache'["sessions"] = None
  <2>1. cache["sessions"] \in Entry \cup {None}
    BY DEF IInv, Types, Cached
  <2> QED
    BY <1>1, <2>1, WornCacheFacts, WornFacts DEF IInv
<1>4. calls'[c] = Idle /\ \A d \in Calls \ {c} : calls'[d] = Overtaken(c)[d]
  BY <1>1, OvertakenFacts DEF IInv
<1>5. ~history'.others /\ history'.rejected = history.rejected
      /\ history'.crossed = history.crossed
  BY <1>1, HeardFacts DEF IInv
<1> QED
  BY <1>1, <1>2, <1>3, <1>4, <1>5, ValueFacts, HeardKept

LEMMA RejectionKept ==
    ASSUME IInv, NEW c \in Calls, Rejection(c) PROVE IInv'
<1>1. /\ calls[c].phase = "sent" /\ calls[c].kind \in Kinds
      /\ breaker' = Succeeded /\ cache' = DroppedEntry(calls[c].kind)
      /\ calls' = Overtaken(c) /\ UNCHANGED peer
      /\ history' = [Heard EXCEPT !.rejected = @ \/ calls[c].kind = "sessions",
                                  !.crossed = @ /\ calls[c].kind # "sessions"]
  BY ValueFacts DEF Rejection, IInv, Types, Sent
<1>2. Heard \in History /\ ~Heard.others
      /\ Heard.rejected = history.rejected /\ Heard.crossed = history.crossed
  BY HeardFacts DEF IInv
<1>3. /\ history' \in History /\ ~history'.others
      /\ history'.rejected = (history.rejected \/ calls[c].kind = "sessions")
      /\ history'.crossed = (history.crossed /\ calls[c].kind # "sessions")
  BY <1>1, <1>2 DEF History
<1>4. /\ cache' \in [Cached -> Entry \cup {None}]
      /\ cache'["sessions"] = IF calls[c].kind = "sessions" THEN None ELSE cache["sessions"]
  BY <1>1 DEF DroppedEntry, IInv, Types, Cached, Kinds
<1>5. Types'
  BY <1>1, <1>3, <1>4, HeardFacts, OvertakenFacts DEF IInv, Types
<1>6. calls'[c] = Idle /\ \A d \in Calls \ {c} : calls'[d] = Overtaken(c)[d]
  BY <1>1, OvertakenFacts DEF IInv
<1> QED
  BY <1>1, <1>3, <1>4, <1>5, <1>6, ValueFacts, HeardKept

\* A call that is no session call tells the waiting ones nothing.
LEMMA AnswerKept ==
    ASSUME IInv, NEW c \in Calls, Answer(c) PROVE IInv'
<1>1. /\ calls[c].phase = "sent" /\ calls[c].kind # "sessions"
      /\ breaker' = Succeeded /\ calls' = [calls EXCEPT ![c] = Idle]
      /\ UNCHANGED peer /\ history' = Heard
  BY DEF Answer
<1>2. /\ cache' \in [Cached -> Entry \cup {None}] /\ cache'["sessions"] = cache["sessions"]
  <2>1. [list |-> {}, fails |-> 0] \in Entry
    BY CountsAssumption DEF Entry
  <2> QED
    BY <2>1 DEF Answer, IInv, Types, Cached
<1>3. Types'
  BY <1>1, <1>2, HeardFacts DEF IInv, Types
<1>4. /\ calls'[c] = Idle
      /\ \A d \in Calls \ {c} : calls'[d] = calls[d]
  BY <1>1 DEF IInv, Types
<1>5. \A d \in Calls \ {c} : Overtaken(c)[d] = calls[d]
  BY <1>1 DEF Overtaken
<1>6. ~history'.others /\ history'.rejected = history.rejected
      /\ history'.crossed = history.crossed
  BY <1>1, HeardFacts DEF IInv
<1> QED
  BY <1>1, <1>2, <1>3, <1>4, <1>5, <1>6, ValueFacts, HeardKept

LEMMA ListArrivesKept ==
    ASSUME IInv, NEW c \in Calls, ListArrives(c) PROVE IInv'
<1> DEFINE call == [phase |-> "listed", list |-> peer.live, overtaken |-> FALSE]
<1>1. /\ calls[c].phase = "sent"
      /\ breaker' = Succeeded /\ calls' = [Overtaken(c) EXCEPT ![c] = call]
      /\ UNCHANGED <<peer, cache>> /\ history' = [Heard EXCEPT !.rejected = FALSE]
  BY DEF ListArrives
<1>2. call \in Listed /\ call.phase = "listed"
  BY DEF Listed, IInv, Types
<1>3. Heard \in History /\ ~Heard.others
  BY HeardFacts DEF IInv
<1>4. history' \in History /\ ~history'.others /\ ~history'.rejected
  BY <1>1, <1>3 DEF History
<1>5. Overtaken(c) \in [Calls -> {Idle} \cup Sent \cup Listed]
  BY <1>1, OvertakenFacts DEF IInv
<1> HIDE DEF call
<1>6. /\ calls' \in [Calls -> {Idle} \cup Sent \cup Listed]
      /\ calls'[c] = call /\ \A d \in Calls \ {c} : calls'[d] = Overtaken(c)[d]
  BY <1>1, <1>2, <1>5
<1>7. Types'
  BY <1>1, <1>4, <1>6, HeardFacts DEF IInv, Types
<1> QED
  BY <1>1, <1>2, <1>4, <1>6, <1>7, HeardKept

\* The list is cached late, and is known to be when anything was heard meanwhile.
LEMMA VersionArrivesKept ==
    ASSUME IInv, NEW c \in Calls, VersionArrives(c) PROVE IInv'
<1> DEFINE entry == [list |-> calls[c].list, fails |-> 0]
<1>1. /\ calls[c].phase = "listed" /\ calls[c] \in Listed
      /\ cache' = [cache EXCEPT !["sessions"] = entry]
      /\ calls' = [calls EXCEPT ![c] = Idle]
      /\ history' = [history EXCEPT !.crossed = calls[c].overtaken]
      /\ UNCHANGED <<peer, breaker>>
  BY ValueFacts DEF VersionArrives, IInv, Types
<1>2. entry \in Entry /\ entry.fails = 0 /\ calls[c].overtaken \in BOOLEAN
  BY <1>1, CountsAssumption DEF Listed, Entry
<1> HIDE DEF entry
<1>3. /\ history' \in History /\ history'.others = history.others
      /\ history'.rejected = history.rejected /\ history'.crossed = calls[c].overtaken
  BY <1>1, <1>2 DEF IInv, Types, History
<1>4. cache' \in [Cached -> Entry \cup {None}] /\ cache'["sessions"] = entry
  BY <1>1, <1>2 DEF IInv, Types, Cached
<1>5. \A d \in Calls : calls'[d] = IF d = c THEN Idle ELSE calls[d]
  BY <1>1 DEF IInv, Types
<1>6. Types'
  BY <1>1, <1>3, <1>4 DEF IInv, Types
<1>7. ProbesAlone'
  BY <1>1, <1>5, ValueFacts DEF IInv, ProbesAlone, OneProbe, Probing
<1>8. RejectionReaches'
  BY <1>1, <1>3, <1>5, ValueFacts DEF IInv, RejectionReaches, Late
<1>9. Matched'
  <2>1. ~history.others /\ ~calls[c].overtaken => breaker.failures = 0
    BY <1>1 DEF IInv, Matched, Late
  <2> QED
    BY <1>1, <1>2, <1>3, <1>4, <1>5, <2>1, ValueFacts DEF IInv, Matched, Late
<1> QED
  BY <1>6, <1>7, <1>8, <1>9 DEF IInv

LEMMA RestartKept ==
    ASSUME IInv, Restart PROVE IInv'
<1>1. /\ breaker' = Closed /\ cache' = [kind \in Cached |-> None]
      /\ calls' = [c \in Calls |-> Idle] /\ UNCHANGED peer
      /\ history' = [history EXCEPT !.others = FALSE, !.rejected = FALSE, !.crossed = FALSE]
  BY DEF Restart
<1>2. history' \in History /\ ~history'.rejected
  BY <1>1 DEF IInv, Types, History
<1>3. Types'
  BY <1>1, <1>2, ValueFacts DEF IInv, Types
<1>4. \A c \in Calls : calls'[c].phase = "idle"
  BY <1>1, ValueFacts
<1>5. cache'["sessions"] = None
  BY <1>1 DEF Cached
<1> QED
  BY <1>1, <1>2, <1>3, <1>4, <1>5, ValueFacts
  DEF IInv, ProbesAlone, OneProbe, Probing, RejectionReaches, Matched, Late

LEMMA NextInv == IInv /\ [Next]_vars => IInv'
<1> SUFFICES ASSUME IInv, [Next]_vars PROVE IInv'
  OBVIOUS
<1>1. CASE Next
  BY <1>1, WorldKept, RestartKept, BeginKept, TransportFailsKept, ErrorAnswerKept,
     RejectionKept, AnswerKept, ListArrivesKept, VersionArrivesKept DEF Next, Ends
<1>2. CASE UNCHANGED vars
  BY <1>2 DEF vars, IInv, Types, ProbesAlone, OneProbe, Probing, RejectionReaches, Matched, Late
<1> QED
  BY <1>1, <1>2

\* Of all requests under way one at most went through an open circuit
\* (CircuitBreaker.should_attempt in breaker.py).
THEOREM AlwaysOneProbe == Spec => []OneProbe
<1>1. IInv => OneProbe
  BY DEF IInv, ProbesAlone
<1> QED
  BY <1>1, InitInv, NextInv, PTL DEF Spec

\* A peer that has rejected our key is not served from the cache, but for a list
\* that waited for its version meanwhile (federation_sessions in main.py).
THEOREM RejectedNeverServed == Spec => []RejectedIsNotServed
<1>1. IInv => RejectedIsNotServed
  BY DEF IInv, RejectionReaches, RejectedIsNotServed
<1> QED
  BY <1>1, InitInv, NextInv, PTL DEF Spec

\* No threshold at or above the grace opens the circuit on a list that has grace
\* left, but for failures of other calls and a list cached late
\* (federation_sessions in main.py).
THEOREM OpensAfterGrace ==
    ASSUME Grace <= Threshold
    PROVE  Spec => []OpensWhenGraceEnds
<1>1. IInv => OpensWhenGraceEnds
  <2> SUFFICES ASSUME IInv, breaker.open, ~history.others, ~history.crossed
               PROVE  cache["sessions"].fails >= Grace
    BY DEF OpensWhenGraceEnds
  <2>1. cache["sessions"].fails \in 0..Grace
    BY CountsAssumption, ValueFacts DEF IInv, Types, Entry, Cached
  <2> QED
    BY <2>1, CountsAssumption DEF IInv, Matched
<1> QED
  BY <1>1, InitInv, NextInv, PTL DEF Spec
=============================================================================
