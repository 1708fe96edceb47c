----------------------------- MODULE ViewsMerge -----------------------------
(***************************************************************************)
(* The part of settings.json that federation merges: which views exist,    *)
(* which session keys each one lists, and the stamps that say when each    *)
(* presence last changed (views_changed_at).  A pair <<v, k>> stands for   *)
(* "key k is listed in view v"; the stamp None says that no change was     *)
(* ever seen.  None is 0 and real stamps are positive, so "a missing stamp *)
(* loses to any stamp" is the order of the naturals.                       *)
(*                                                                         *)
(* A view's rules and the order of the lists follow the side whose         *)
(* views_updated_at is larger; they are left out.                          *)
(***************************************************************************)
EXTENDS Naturals, FiniteSets

CONSTANTS Views,        \* names of the views that change
          Keys,         \* session keys that are pinned and unpinned
          OtherViews,   \* views nobody touches, and the keys they list: the
          OtherPins,    \*   backstop counts them
          TTL           \* VIEW_TOMBSTONE_TTL_SECONDS

ASSUME CountsAssumption == OtherViews \in Nat /\ OtherPins \in Nat /\ TTL \in Nat

None  == 0
Pairs == Views \X Keys

ViewState == [has : SUBSET Views, pins : SUBSET Pairs,
              at : [Views -> Nat], memberAt : [Pairs -> Nat]]

\* views_membership_signature
Signature(d) == <<d.has, d.pins>>

Later(s, t) == IF s >= t THEN s ELSE t

\* _gc_views_changed_at: a stamp of something present is kept, a tombstone is
\* kept for TTL, and a deleted view keeps no stamps of its members.
Collected(d, now) ==
    [d EXCEPT
       !.at = [v \in Views |->
                  IF v \in d.has \/ now <= d.at[v] + TTL THEN d.at[v] ELSE None],
       !.memberAt = [e \in Pairs |->
                  IF /\ e[1] \in d.has
                     /\ e \in d.pins \/ now <= d.memberAt[e] + TTL
                    THEN d.memberAt[e] ELSE None]]

\* record_views_change: the stamps after a write that leaves `has` and `pins`.
Edited(d, has, pins, now) ==
    Collected(
      [has  |-> has,
       pins |-> pins,
       at   |-> [v \in Views |-> IF (v \in d.has) # (v \in has) THEN now ELSE d.at[v]],
       memberAt |-> [e \in Pairs |->
                        IF (e \in d.pins) # (e \in pins) THEN now ELSE d.memberAt[e]]],
      now)

\* mutant: the side that lists an element always wins.
UnionSurvives(here, hereAt, there, thereAt) == here \/ there

\* _survives
Survives(here, hereAt, there, thereAt) ==
    \/ here /\ there
    \/ here /\ ~there /\ hereAt >= thereAt
    \/ there /\ ~here /\ thereAt >= hereAt

MergedHas(a, b) ==
    {v \in a.has \cup b.has : Survives(v \in a.has, a.at[v], v \in b.has, b.at[v])}

\* mutant: members are merged before the view's own fate is known.
MergedPinsOfAll(a, b) ==
    {e \in Pairs : Survives(e \in a.pins, a.memberAt[e], e \in b.pins, b.memberAt[e])}

MergedPins(a, b) ==
    {e \in Pairs : /\ e[1] \in MergedHas(a, b)
                   /\ Survives(e \in a.pins, a.memberAt[e], e \in b.pins, b.memberAt[e])}

\* merge_views.  A view neither side lists is not visited: its tombstones go.
Merged(a, b, now) ==
    Collected(
      [has  |-> MergedHas(a, b),
       pins |-> MergedPins(a, b),
       at   |-> [v \in Views |->
                    IF v \in a.has \cup b.has THEN Later(a.at[v], b.at[v]) ELSE None],
       memberAt |-> [e \in Pairs |->
                    IF e[1] \in MergedHas(a, b) THEN Later(a.memberAt[e], b.memberAt[e])
                                                ELSE None]],
      now)

\* assess_views_destruction
Destructive(before, after) ==
    LET views(d)   == OtherViews + Cardinality(d.has)
        members(d) == OtherPins + Cardinality(d.pins)
    IN  \/ views(before) > 1 /\ views(after) <= 1
        \/ views(before) > 0 /\ 2 * views(after) <= views(before)
        \/ /\ views(before) > 0 /\ members(before) > 0
           /\ 2 * members(after) <= members(before)
=============================================================================
