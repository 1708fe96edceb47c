------------------------------ MODULE Pruning -------------------------------
(***************************************************************************)
(* The last steps of the poll cycle: legacy bare names become keys with an *)
(* owner (normalize_session_keys), and pinned keys whose sessions are gone *)
(* are dropped after a day (prune_stale_keys), with the grace clocks of    *)
(* pruning.json.  A peer's sessions are known from the list that module    *)
(* Federation caches for it; here the entry comes, wears out and goes.     *)
(*                                                                         *)
(* Nothing refreshes an entry but a browser that asks for the fleet: while *)
(* none does, or the shared circuit is open, it stays what it was.         *)
(* `history` is read by the properties only.                               *)
(***************************************************************************)
EXTENDS Naturals, FiniteSets

CONSTANTS Names   \* session names

VARIABLES peer,    \* the peer's sessions
          entry,   \* _federation_cache of the peer: is it within its grace, its list
          local,   \* this server's sessions, and those that wait to be restored
          pinned,  \* settings: pinned names by the owner in the key, "bare" without one
          clock,   \* pruning.json: first_missed_at
          history  \* what the properties compare with, see PruningInit

pruningVars == <<peer, entry, local, pinned, clock, history>>

Owners  == {"local", "peer", "bare"}
PinKeys == Owners \X Names
NoEntry == [known |-> FALSE, list |-> {}]

-----------------------------------------------------------------------------
(* The world *)

PeerChanges(S) ==
  /\ peer' = S
  /\ history' = [history EXCEPT !.unheard = S \ (peer \ @)]
  /\ UNCHANGED <<entry, local, pinned, clock>>

\* A browser asks for the fleet and the peer answers.
ListIsCached ==
  /\ entry' = [known |-> TRUE, list |-> peer]
  /\ history' = [history EXCEPT !.unheard = {}]
  /\ UNCHANGED <<peer, local, pinned, clock>>

\* The entry's grace is used up, or the peer rejects the key, or we restart.
ListIsLost ==
  /\ entry.known /\ entry' = NoEntry
  /\ UNCHANGED <<peer, local, pinned, clock, history>>

\* Sessions start and are closed here, under the tmux server that there is.
LocalChanges(S) ==
  /\ local' = [local EXCEPT !.live = S]
  /\ UNCHANGED <<peer, entry, pinned, clock, history>>

\* The tmux server dies: its sessions wait until they are restored or forgotten.
LocalLost ==
  /\ local' = [live |-> {}, pending |-> local.pending \cup local.live]
  /\ UNCHANGED <<peer, entry, pinned, clock, history>>

Restored(n) ==
  /\ n \in local.pending
  /\ local' = [live |-> local.live \cup {n}, pending |-> local.pending \ {n}]
  /\ UNCHANGED <<peer, entry, pinned, clock, history>>

Forgotten ==
  /\ local.pending # {}
  /\ local' = [local EXCEPT !.pending = {}]
  /\ UNCHANGED <<peer, entry, pinned, clock, history>>

\* A user, or a peer's settings, pin a key.
Pin(k) ==
  /\ pinned' = pinned \cup {k}
  /\ UNCHANGED <<peer, entry, local, clock, history>>

\* A day passes.
GracePasses ==
  /\ \E k \in PinKeys : clock[k] = "running"
  /\ clock' = [k \in PinKeys |-> IF clock[k] = "running" THEN "over" ELSE clock[k]]
  /\ UNCHANGED <<peer, entry, local, pinned, history>>

-----------------------------------------------------------------------------
(* The poll cycle *)

PeerList == IF entry.known THEN entry.list ELSE {}

\* normalize_session_keys: a bare name that is live here becomes our own key.
Normalized ==
  LET ours == {n \in local.live : <<"bare", n>> \in pinned}
  IN  (pinned \ ({"bare"} \X ours)) \cup ({"local"} \X ours)

\* Whose keys can be judged: our own unless a restore is pending (when the manifest
\* cannot be read, none is), a peer's while its list is known, and bare names.
EvaluableAlways(k, blind) ==   \* mutant: a peer without a list has no sessions
  k[1] = "local" => blind \/ local.pending = {}
Evaluable(k, blind) ==
  /\ k[1] = "local" => blind \/ local.pending = {}
  /\ k[1] = "peer" => entry.known

LiveKeys == ({"local", "bare"} \X local.live) \cup ({"peer"} \X PeerList)

Missing(keys, blind) == {k \in keys \ LiveKeys : Evaluable(k, blind)}
Expired(keys, blind) == {k \in Missing(keys, blind) : clock[k] = "over"}

\* prune_stale_keys: what is live or unknown has no clock; what is missing has one,
\* and goes when it is over.
Resumed(keys, missing) ==   \* mutant: a clock once started runs on
  [k \in PinKeys |-> IF k \notin keys THEN "off"
                  ELSE IF clock[k] = "off" /\ k \in missing THEN "running"
                  ELSE clock[k]]
Clocks(keys, missing) ==
  [k \in PinKeys |-> IF k \notin keys \cap missing THEN "off"
                  ELSE IF clock[k] = "off" THEN "running" ELSE clock[k]]

\* The poll's list needs a tmux server.  The backstop refuses to save what would
\* collapse the views, and the clocks with it.
Poll(blind, refused) ==
  LET expired == Expired(Normalized, blind)
      left == Normalized \ expired
      seen == {k \in Normalized : k \notin Missing(Normalized, blind)}
      running(S) == {k \in S : clock'[k] # "off"}
  IN  /\ local.live # {}
      /\ refused => expired # {}
      /\ pinned' = IF refused THEN Normalized ELSE left
      /\ clock' = IF refused THEN clock
                  ELSE Clocks(left, Missing(Normalized, blind))
      /\ history' = [history EXCEPT
           !.seen = running(@ \cup seen),
           !.refused = running(IF refused THEN @ \cup seen ELSE @),
           !.blind = blind]
      /\ UNCHANGED <<peer, entry, local>>

-----------------------------------------------------------------------------
(* Specification *)

PruningInit ==
  /\ peer \in SUBSET Names /\ entry = NoEntry
  /\ local \in [live : SUBSET Names, pending : {{}}]
  /\ pinned \in SUBSET ({"bare"} \X Names)
  /\ clock = [k \in PinKeys |-> "off"]
  /\ history =
       [unheard |-> {}, \* peer sessions that started since its list was cached
        seen |-> {},    \* live or unknown in a poll while their clock ran
        refused |-> {}, \* the same, in a poll that was not saved
        blind |-> FALSE] \* the last poll could not read the manifest

PruningNext ==
  \/ \E S \in SUBSET Names : PeerChanges(S) \/ LocalChanges(S)
  \/ ListIsCached \/ ListIsLost \/ LocalLost \/ Forgotten \/ GracePasses
  \/ \E n \in Names : Restored(n)
  \/ \E k \in PinKeys : Pin(k)
  \/ \E blind, refused \in BOOLEAN : Poll(blind, refused)

PruningSpec == PruningInit /\ [][PruningNext]_pruningVars

-----------------------------------------------------------------------------
(* Properties *)

Dropped == {k \in pinned \ pinned' : ~(k[1] = "bare" /\ k[2] \in local.live)}

PruningTypeOK ==
  /\ peer \subseteq Names /\ pinned \subseteq PinKeys
  /\ entry \in [known : BOOLEAN, list : SUBSET Names]
  /\ local \in [live : SUBSET Names, pending : SUBSET Names]
  /\ clock \in [PinKeys -> {"off", "running", "over"}]

\* A pinned key is dropped only after it was missing in every poll of a whole
\* grace period: a poll that saw it live, or could not know, starts it anew.  The
\* exception: a poll whose prune is refused does not save what it saw.  (A bare
\* name that is live here is not dropped: it becomes our own key.)
PrunedWasMissing ==
  [][Dropped \cap history.seen \subseteq history.refused]_pruningVars

\* No key of a session that lives, or waits to be restored, is dropped.  The
\* exceptions: a peer's session that started after the peer's list was cached,
\* however old that list is by now; one of ours, when this poll could not
\* read the manifest; and a bare name that another server's session bears.
PrunedIsGone ==
  [][\A k \in Dropped :
       CASE k[1] = "peer"  -> k[2] \notin peer \ history.unheard
         [] k[1] = "local" -> \/ k[2] \notin local.live \cup local.pending
                              \/ history'.blind
         [] k[1] = "bare"  -> TRUE]_pruningVars

\* main.py's promise: a remote key is evaluated only against a fresh list.
PrunedOnFreshList ==
  [][\A k \in Dropped : k[1] = "peer" => k[2] \notin history.unheard]_pruningVars

=============================================================================
