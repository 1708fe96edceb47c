-------------------------- MODULE FollowupContract --------------------------
(***************************************************************************)
(* What the follow-up queue promises of an item's id, whatever tabs, bells *)
(* and crashes do: an id is queued at most once in its life, is typed only *)
(* by a send that began while it was queued, and one session has one send  *)
(* at a time.                                                              *)
(***************************************************************************)
EXTENDS Naturals

CONSTANTS Ids, Names

VARIABLES fresh,     \* ids no item has had yet
          pending,   \* ids queued now
          typing     \* per session: the id being typed, if any

vars == <<fresh, pending, typing>>

Init ==
    /\ fresh   = Ids
    /\ pending = {}
    /\ typing  = [n \in Names |-> {}]

\* Users append, edit or clear, and polls reap: what comes in is new.
Edit ==
    /\ pending' \subseteq pending \cup fresh
    /\ fresh' \subseteq fresh \ pending'
    /\ UNCHANGED typing

Begin(n, i) ==
    /\ typing[n] = {}
    /\ i \in pending
    /\ typing' = [typing EXCEPT ![n] = {i}]
    /\ UNCHANGED <<fresh, pending>>

\* The send ends: its item leaves the queue, or stays (a failure).
End(n) ==
    /\ typing[n] # {}
    /\ typing' = [typing EXCEPT ![n] = {}]
    /\ pending' \in {pending, pending \ typing[n]}
    /\ UNCHANGED fresh

Crash ==
    /\ typing' = [n \in Names |-> {}]
    /\ UNCHANGED <<fresh, pending>>

Next ==
    \/ Edit
    \/ \E n \in Names : End(n) \/ \E i \in Ids : Begin(n, i)
    \/ Crash

Spec == Init /\ [][Next]_vars
=============================================================================
