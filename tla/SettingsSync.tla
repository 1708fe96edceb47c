---------------------------- MODULE SettingsSync ----------------------------
(***************************************************************************)
(* The settings of federated servers.  Each server keeps one document,     *)
(* changes it for its own users, and every thirty seconds asks its remotes *)
(* for theirs: it adopts a newer document, pushes its own to an older one, *)
(* and does nothing when the two are of the same time.  The views are      *)
(* merged, everything else goes with the newer document.                   *)
(*                                                                         *)
(* A sync cycle is one coroutine per server.  It reads its own document    *)
(* before it asks, and the user may change it while the question or the    *)
(* push is under way.  apply_synced_settings and patch_settings are atomic *)
(* (the settings lock).  A cycle a crash cuts short is one whose remaining *)
(* requests fail.  A user's edit is made from the document as it is, which *)
(* expected_settings_updated_at enforces.                                  *)
(*                                                                         *)
(* Time.  `now` counts the moments at which a stamp was taken; the clock   *)
(* of server p runs Skew[p] ahead of it.                                   *)
(***************************************************************************)
EXTENDS ViewsMerge

CONSTANTS Peers,     \* servers
          Fonts,     \* values of a setting that is not merged
          Gone,      \* keys whose session ended: prune_stale_keys may drop them
          Skew,      \* per server: how far its clock is ahead
          MaxEdits   \* bound: edits and prunes

ASSUME PeersAssumption ==
    /\ Gone \subseteq Keys
    /\ Skew \in [Peers -> Nat]
    /\ MaxEdits \in Nat
    /\ Fonts # {}
    /\ Views \cap Pairs = {}     \* a view's name is not a pair

VARIABLES doc,     \* per server: its settings.json
          sync,    \* per server: its running _sync_settings_with_remotes
          now,     \* the last moment a stamp was taken at
          edits,   \* how many edits and prunes there were
          wish     \* history: who last changed an element, and to what

vars == <<doc, sync, now, edits, wish>>

Document == [views : ViewState, hidden : SUBSET Keys, font : Fonts,
             viewsAt : Nat, updatedAt : Nat]

Idle == [stage |-> "idle"]
SyncCycle ==
    [stage : {"idle"}]
    \cup [stage : {"scan"}, todo : SUBSET Peers, local : Document]
    \cup [stage : {"got"}, todo : SUBSET Peers, local : Document,
          peer : Peers, theirs : Document]
    \cup [stage : {"push"}, todo : SUBSET Peers, local : Document, peer : Peers]

NoWish == [said |-> FALSE]
Wish   == {NoWish} \cup [said : {TRUE}, by : Peers, there : BOOLEAN]

\* Every server starts from the same settings of a release without stamps.
Init ==
    /\ doc = [p \in Peers |->
                 [views |-> [has |-> Views, pins |-> Pairs,
                             at |-> [v \in Views |-> None],
                             memberAt |-> [e \in Pairs |-> None]],
                  hidden |-> {}, font |-> CHOOSE f \in Fonts : TRUE,
                  viewsAt |-> 0, updatedAt |-> 0]]
    /\ sync  = [p \in Peers |-> Idle]
    /\ now   = 0
    /\ edits = 0
    /\ wish  = [x \in Views \cup Pairs |-> NoWish]

\* time.time() on server p, at the next moment.
Time(p) == now + 1 + Skew[p]

-----------------------------------------------------------------------------
(* Changes a server makes by itself *)

\* What p wants of the elements it just changed; changing a view says nothing
\* of the keys it lists but those it is created with.
WishAfter(p, has, pins) ==
    LET d == doc[p].views
        was(x)   == x \in d.has \cup d.pins
        is(x)    == x \in has \cup pins
        moved(v) == (v \in d.has) # (v \in has)
    IN  [x \in Views \cup Pairs |->
           IF was(x) # is(x) /\ (x \in Views \/ x[1] \in has)
             THEN [said |-> TRUE, by |-> p, there |-> is(x)]
           ELSE IF x \in Pairs /\ moved(x[1]) THEN NoWish
           ELSE wish[x]]

Counted == edits < MaxEdits /\ edits' = edits + 1

\* PATCH /api/settings of a setting that is not merged.
EditFont(p) ==
    /\ Counted
    /\ now' = now + 1
    /\ \E f \in Fonts \ {doc[p].font} :
          doc' = [doc EXCEPT ![p].font = f, ![p].updatedAt = Time(p)]
    /\ UNCHANGED <<sync, wish>>

EditHidden(p) ==
    /\ Counted
    /\ now' = now + 1
    /\ \E hidden \in SUBSET Keys \ {doc[p].hidden} :
          doc' = [doc EXCEPT ![p].hidden = hidden, ![p].updatedAt = Time(p),
                             ![p].viewsAt = Time(p)]
    /\ UNCHANGED <<sync, wish>>

\* PATCH of the whole array of views; a destructive one is refused unless it
\* says allow_destructive.
EditViews(p, forced) ==
    /\ Counted
    /\ now' = now + 1
    /\ \E has \in SUBSET Views : \E pins \in SUBSET (has \X Keys) :
          LET d == Edited(doc[p].views, has, pins, Time(p))
          IN  /\ <<has, pins>> # Signature(doc[p].views)
              /\ forced \/ ~Destructive(doc[p].views, d)
              /\ doc' = [doc EXCEPT ![p].views = d, ![p].viewsAt = Time(p),
                                    ![p].updatedAt = Time(p)]
              /\ wish' = WishAfter(p, has, pins)
    /\ UNCHANGED sync

\* Step 14 of the poll cycle, which runs the sync cycle to its end before it:
\* a key of a vanished session leaves views and hidden_sessions, under a stamp
\* of its own but with settings_updated_at as it was.
Prune(p, k) ==
    LET pins == doc[p].views.pins \ (Views \X {k})
        d    == Edited(doc[p].views, doc[p].views.has, pins, Time(p))
    IN  /\ sync[p] = Idle
        /\ Counted
        /\ k \in Gone
        /\ k \in doc[p].hidden \/ pins # doc[p].views.pins
        /\ ~Destructive(doc[p].views, d)
        /\ now' = now + 1
        /\ doc' = [doc EXCEPT ![p].views = IF pins # @.pins THEN d ELSE @,
                              ![p].hidden = @ \ {k}]
        /\ wish' = WishAfter(p, doc[p].views.has, pins)
        /\ UNCHANGED sync

-----------------------------------------------------------------------------
(* apply_synced_settings *)

\* mutant: the result is compared with what this server had.
ContributesHere(mine, theirs, t) ==
    Signature(Merged(mine.views, theirs.views, t)) # Signature(mine.views)

\* The merge holds something the peer does not.
Contributes(mine, theirs, t) ==
    Signature(Merged(mine.views, theirs.views, t)) # Signature(theirs.views)

\* mutant: the merge's result keeps the timestamp it came with.
NeverBumped(mine, theirs, t) == FALSE

Bumped(mine, theirs, t) == Contributes(mine, theirs, t)

\* The document after `mine` took in `theirs`, on a server whose clock shows t.
Applied(mine, theirs, t) ==
    LET merged == Merged(mine.views, theirs.views, t)
        bumped == Bumped(mine, theirs, t)
        listed == {e[2] : e \in merged.pins}
        newest == Later(mine.viewsAt, theirs.viewsAt)
        look   == Later(theirs.updatedAt, t)
        hidden == IF theirs.viewsAt > mine.viewsAt THEN theirs.hidden ELSE mine.hidden
    IN  [views     |-> merged,
         hidden    |-> hidden \ listed,
         font      |-> theirs.font,
         viewsAt   |-> IF bumped THEN Later(newest, look) ELSE newest,
         updatedAt |-> IF bumped THEN look ELSE theirs.updatedAt]

Refuses(p, theirs) ==
    Destructive(doc[p].views, Merged(doc[p].views, theirs.views, Time(p)))

\* Server p takes in `theirs`, or refuses it whole as destructive.
Takes(p, theirs) ==
    IF Refuses(p, theirs)
      THEN UNCHANGED <<doc, now>>
      ELSE /\ doc' = [doc EXCEPT ![p] = Applied(@, theirs, Time(p))]
           /\ now' = IF Bumped(doc[p], theirs, Time(p)) THEN now + 1 ELSE now

-----------------------------------------------------------------------------
(* _sync_settings_with_remotes *)

BeginSync(p) ==
    /\ sync[p] = Idle
    /\ sync' = [sync EXCEPT ![p] = [stage |-> "scan", todo |-> Peers \ {p}, local |-> doc[p]]]
    /\ UNCHANGED <<doc, now, edits, wish>>

\* GET /api/settings/sync is answered by r with what it holds then.
Ask(p, r) ==
    /\ sync[p].stage = "scan"
    /\ r \in sync[p].todo
    /\ sync' = [sync EXCEPT ![p] =
          [stage |-> "got", todo |-> @.todo \ {r}, local |-> @.local,
           peer |-> r, theirs |-> doc[r]]]
    /\ UNCHANGED <<doc, now, edits, wish>>

AskFails(p, r) ==
    /\ sync[p].stage = "scan"
    /\ r \in sync[p].todo
    /\ sync' = [sync EXCEPT ![p].todo = @ \ {r}]
    /\ UNCHANGED <<doc, now, edits, wish>>

Scanning(p, local) == [stage |-> "scan", todo |-> sync[p].todo, local |-> local]

\* The comparison is with the document read before the question was asked.
RemoteNewer(p) == sync[p].theirs.updatedAt > sync[p].local.updatedAt

\* The answer has come.  A refusal raises, and leaves `local` unread.
Adopt(p) ==
    /\ sync[p].stage = "got"
    /\ RemoteNewer(p)
    /\ Takes(p, sync[p].theirs)
    /\ sync' = [sync EXCEPT ![p] =
          Scanning(p, IF Refuses(p, sync[p].theirs) THEN sync[p].local ELSE doc'[p])]
    /\ UNCHANGED <<edits, wish>>

Push(p) ==
    /\ sync[p].stage = "got"
    /\ sync[p].local.updatedAt > sync[p].theirs.updatedAt
    /\ sync' = [sync EXCEPT ![p] =
          [stage |-> "push", todo |-> @.todo, local |-> @.local, peer |-> @.peer]]
    /\ UNCHANGED <<doc, now, edits, wish>>

SameTime(p) ==
    /\ sync[p].stage = "got"
    /\ sync[p].local.updatedAt = sync[p].theirs.updatedAt
    /\ sync' = [sync EXCEPT ![p] = Scanning(p, sync[p].local)]
    /\ UNCHANGED <<doc, now, edits, wish>>

Accepts(r, theirs) == theirs.updatedAt > doc[r].updatedAt

\* PUT /api/settings/sync reaches the peer.
Deliver(p) ==
    /\ sync[p].stage = "push"
    /\ IF Accepts(sync[p].peer, sync[p].local)
         THEN Takes(sync[p].peer, sync[p].local)
         ELSE UNCHANGED <<doc, now>>
    /\ sync' = [sync EXCEPT ![p] = Scanning(p, sync[p].local)]
    /\ UNCHANGED <<edits, wish>>

PushLost(p) ==
    /\ sync[p].stage = "push"
    /\ sync' = [sync EXCEPT ![p] = Scanning(p, sync[p].local)]
    /\ UNCHANGED <<doc, now, edits, wish>>

EndSync(p) ==
    /\ sync[p].stage = "scan"
    /\ sync[p].todo = {}
    /\ sync' = [sync EXCEPT ![p] = Idle]
    /\ UNCHANGED <<doc, now, edits, wish>>

-----------------------------------------------------------------------------
EditStep(p) ==
    \/ EditFont(p) \/ EditHidden(p)
    \/ \E forced \in BOOLEAN : EditViews(p, forced)
    \/ \E k \in Gone : Prune(p, k)

SyncStep(p) ==
    \/ BeginSync(p) \/ EndSync(p)
    \/ \E r \in Peers : Ask(p, r) \/ AskFails(p, r)
    \/ Adopt(p) \/ Push(p) \/ SameTime(p) \/ Deliver(p) \/ PushLost(p)

Next == \E p \in Peers : EditStep(p) \/ SyncStep(p)

Spec == Init /\ [][Next]_vars

\* The poll loop comes round every two seconds and syncs every fifteenth time;
\* every request is answered or fails, and not every one of them fails.
Fairness ==
    \A p \in Peers :
       /\ WF_vars(BeginSync(p))
       /\ WF_vars(EndSync(p))
       /\ WF_vars(Adopt(p) \/ Push(p) \/ SameTime(p))
       /\ WF_vars(Deliver(p) \/ PushLost(p))
       /\ SF_vars(Deliver(p))
       /\ \A r \in Peers : SF_vars(Ask(p, r))

FairSpec == Spec /\ Fairness

-----------------------------------------------------------------------------
(* Properties *)

TypeOK ==
    /\ doc \in [Peers -> Document]
    /\ sync \in [Peers -> SyncCycle]
    /\ \A p \in Peers : \A e \in doc[p].views.pins : e[1] \in doc[p].views.has
    /\ now \in Nat
    /\ edits \in 0..MaxEdits
    /\ wish \in [Views \cup Pairs -> Wish]

There(p, x) == x \in doc[p].views.has \cup doc[p].views.pins

\* A pin or an unpin stays as its user left it until somebody changes that
\* element later, and so does a view made anew: no merge with a peer that does
\* not know of the change undoes it on the server where it was made.  A view
\* that was deleted takes the history of its pins with it.
OwnEditsStand ==
    /\ \A e \in Pairs :
          wish[e].said /\ ~wish[e[1]].said => There(wish[e].by, e) = wish[e].there
    /\ \A v \in Views : wish[v].said /\ wish[v].there => There(wish[v].by, v)

\* Until the tombstone's time is over, a view its user deleted stays deleted on
\* the server where that was done.
DeletionsStand ==
    \A v \in Views : wish[v].said /\ ~wish[v].there => ~There(wish[v].by, v)

Lasting(d) == {e \in d.views.pins : e[2] \notin Gone}
Agree(p, q) ==
    /\ doc[p].views.has = doc[q].views.has
    /\ Lasting(doc[p]) = Lasting(doc[q])
    /\ doc[p].font = doc[q].font

\* Servers of the same time do not talk: they must not differ, or they differ
\* until the next edit.  Keys that a prune drops are excepted (it takes no new
\* time), and so are hidden_sessions.
SameTimeSameSettings ==
    \A p, q \in Peers : doc[p].updatedAt = doc[q].updatedAt => Agree(p, q)

\* q will not have what the newer p holds: to take it in would empty q's views
\* (a deletion p's user forced, or small ones that together are too much), and
\* no sync can force it upon q.
Blocked(p, q) == doc[p].updatedAt > doc[q].updatedAt /\ Refuses(q, doc[p])

\* When the edits stop, any two servers end with the same views, the same pins
\* and the same font, but for those between which the backstop stands: the
\* older refuses the newer one's settings as destructive, whole and for ever.
PeersConverge ==
    <>[](\A p, q \in Peers : Agree(p, q) \/ Blocked(p, q) \/ Blocked(q, p))

\* "If remote is newer: adopt": no server goes back to settings older than
\* those it has.
NeverOlder ==
    [][\A p \in Peers : doc'[p].updatedAt >= doc[p].updatedAt]_vars
=============================================================================
