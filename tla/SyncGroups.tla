---------------------------- MODULE SyncGroups ----------------------------
(***************************************************************************)
(* Devices, the sync group each belongs to, who follows whom, and the      *)
(* session each group has selected.                                        *)
(*                                                                         *)
(* The group "device:<d>" is written d here.  Every handler reads and      *)
(* writes state.json under state_lock in one step, but for POST /connect,  *)
(* which gives the lock back while it waits for a terminal.                *)
(***************************************************************************)
EXTENDS Naturals

CONSTANTS Devices, Sessions,
          Requests        \* POST /connect requests that may run at once

Global  == "global"
Nothing == "none"
ASSUME GlobalAssumption == Global \notin Devices
ASSUME NothingAssumption == Nothing \notin Devices \cup Sessions

VARIABLES registered,    \* the devices in state["devices"]
          group,         \* per device: sync_group
          controlledBy,  \* per device: controlled_by
          groups,        \* the groups in state["sync_groups"]
          selected,      \* per group: active_session
          live,          \* the sessions tmux runs
          request        \* the running connect_session handlers

deviceVars == <<registered, group, controlledBy>>
groupVars  == <<groups, selected>>
syncVars   == <<deviceVars, groupVars, live, request>>

Groups == Devices \cup {Global}
Exists(g) == g = Global \/ g \in groups
Selection == Sessions \cup {Nothing}
NoConnect == [device |-> Nothing, session |-> Nothing, group |-> Global]

GroupsInit ==
    /\ registered   = {}
    /\ group        = [d \in Devices |-> Global]
    /\ controlledBy = [d \in Devices |-> Nothing]
    /\ groups       = {}
    /\ selected     = [g \in Groups |-> Nothing]
    /\ live         = Sessions
    /\ request      = [r \in Requests |-> NoConnect]

-----------------------------------------------------------------------------
(* heartbeat and register_device *)

\* Whom a device in group g follows.
Target(d, g) == IF g \in {Global, d} THEN Nothing ELSE g

\* A foreign group needs a known device, and a device that is not followed.
MayJoin(d, g) ==
    \/ g \in {Global, d}
    \/ g \in registered /\ (d \in registered => controlledBy[d] = Nothing)

\* ensure_group: a new group starts from the global selection.
Seeded(g) == IF Exists(g) THEN selected ELSE [selected EXCEPT ![g] = selected[Global]]

\* mutant: the group is left to the first write.
NotEnsured(g) == groups

Ensured(g) == groups \cup ({g} \ {Global})

\* mutant: the device followed before keeps its mark.
MarkKept(d, old, new) ==
    [x \in Devices |-> IF x = new /\ x \in registered THEN d ELSE controlledBy[x]]

\* One slot per followed device: the last follower's.
Marked(d, old, new) ==
    IF old = new THEN controlledBy
    ELSE [x \in Devices |->
            IF x = new /\ x \in registered THEN d
            ELSE IF x = old /\ controlledBy[x] = d THEN Nothing ELSE controlledBy[x]]

\* g is Nothing when the heartbeat says nothing of a group.
Heartbeat(d, g) ==
    /\ g # Nothing => MayJoin(d, g)
    /\ registered' = registered \cup {d}
    /\ IF g = Nothing
         THEN UNCHANGED <<group, controlledBy, groupVars>>
         ELSE /\ group'        = [group EXCEPT ![d] = g]
              /\ controlledBy' = Marked(d, Target(d, group[d]), Target(d, g))
              /\ groups'       = Ensured(g)
              /\ selected'     = Seeded(g)
    /\ UNCHANGED <<live, request>>

-----------------------------------------------------------------------------
(* Selecting a session *)

\* mutant: a request that names no device has no group.
NoGroup(d) == IF d = Nothing THEN Nothing ELSE group[d]

\* resolve_group.
GroupOf(d) == IF d = Nothing THEN Global ELSE group[d]

\* write_group_state_mirrored: the group's slot, and the device's own if there
\* is one.
Mirrored(d, g, s) ==
    [x \in Groups |-> IF x = g \/ (x = d /\ x \in groups) THEN s ELSE selected[x]]

\* patch_state, and delete_current_session with Nothing.
Select(d, s) ==
    /\ d \in registered \cup {Nothing}
    /\ Exists(GroupOf(d))
    /\ selected' = Mirrored(d, GroupOf(d), s)
    /\ UNCHANGED <<deviceVars, groups, live, request>>

\* connect_session looks the group up, and waits for the terminal.
BeginConnect(r, d, s) ==
    /\ request[r] = NoConnect
    /\ s \in live
    /\ d \in registered \cup {Nothing}
    /\ request' = [request EXCEPT ![r] = [device |-> d, session |-> s, group |-> GroupOf(d)]]
    /\ UNCHANGED <<deviceVars, groupVars, live>>

\* The group is written as it was looked up; one that is gone is a KeyError.
EndConnect(r) ==
    /\ request[r] # NoConnect
    /\ LET q == request[r]
       IN  selected' \in {selected} \cup
               (IF Exists(q.group) THEN {Mirrored(q.device, q.group, q.session)} ELSE {})
    /\ request' = [request EXCEPT ![r] = NoConnect]
    /\ UNCHANGED <<deviceVars, groups, live>>

-----------------------------------------------------------------------------
(* The poll cycle *)

\* clear_missing_active_sessions, for what the cycle found running.
Cleared(found) ==
    [g \in Groups |-> IF selected[g] \in found \cup {Nothing} THEN selected[g] ELSE Nothing]

\* gc_sync_groups: the groups some device that stays is in.
Claimed(staying) == {group[d] : d \in staying} \ {Global}

\* prune_devices drops a device that has not been heard of for five minutes,
\* and the marks it left.
PollCycle(stale, found) ==
    LET staying == registered \ stale
    IN  /\ stale \subseteq registered
        /\ registered'   = staying
        /\ group'        = [d \in Devices |-> IF d \in staying THEN group[d] ELSE Global]
        /\ controlledBy' = [d \in Devices |->
                              IF d \in staying /\ controlledBy[d] \in staying
                                THEN controlledBy[d] ELSE Nothing]
        /\ groups'       = groups \cap Claimed(staying)
        /\ selected'     = [g \in Groups |->
                              IF g = Global \/ g \in groups \cap Claimed(staying)
                                THEN Cleared(found)[g] ELSE Nothing]
        /\ UNCHANGED <<live, request>>

SessionDies(s) ==
    /\ s \in live
    /\ live' = live \ {s}
    /\ UNCHANGED <<deviceVars, groupVars, request>>

SessionCreated(s) ==
    /\ s \notin live
    /\ live' = live \cup {s}
    /\ UNCHANGED <<deviceVars, groupVars, request>>

\* state.json is read again; the handlers that ran are gone.
ServerRestarts ==
    /\ request' = [r \in Requests |-> NoConnect]
    /\ UNCHANGED <<deviceVars, groupVars, live>>

-----------------------------------------------------------------------------
GroupsNext ==
    \/ \E d \in Devices, g \in Groups \cup {Nothing} : Heartbeat(d, g)
    \/ \E d \in Devices \cup {Nothing}, s \in Selection : Select(d, s)
    \/ \E r \in Requests, d \in Devices \cup {Nothing}, s \in Sessions : BeginConnect(r, d, s)
    \/ \E r \in Requests : EndConnect(r)
    \/ \E stale \in SUBSET registered : PollCycle(stale, live)
    \/ \E s \in Sessions : SessionDies(s) \/ SessionCreated(s)
    \/ ServerRestarts

GroupsSpec == GroupsInit /\ [][GroupsNext]_syncVars

-----------------------------------------------------------------------------
(* Properties *)

GroupsTypeOK ==
    /\ registered \subseteq Devices
    /\ group \in [Devices -> Groups]
    /\ controlledBy \in [Devices -> Devices \cup {Nothing}]
    /\ groups \subseteq Devices
    /\ selected \in [Groups -> Selection]
    /\ live \subseteq Sessions
    /\ request \in [Requests -> [device : Devices \cup {Nothing}, session : Selection, group : Groups]]

\* No registered device is in a group that is gone: read_group_state never
\* raises for it.
GroupsExist == \A d \in registered : Exists(group[d])

\* A controlled_by mark names another registered device that does follow: nobody
\* looks claimed by a device that left.
MarksAreTrue ==
    \A d \in registered :
        controlledBy[d] # Nothing =>
            /\ controlledBy[d] \in registered \ {d}
            /\ group[controlledBy[d]] = d

\* What an inductive proof needs besides: a device that is not registered has
\* left nothing behind.
NothingLeftBehind ==
    \A d \in Devices \ registered : group[d] = Global /\ controlledBy[d] = Nothing
=============================================================================
