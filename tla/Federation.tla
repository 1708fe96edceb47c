----------------------------- MODULE Federation -----------------------------
(***************************************************************************)
(* One server of a fleet and one of its peers: the circuit breaker and the *)
(* caches behind GET /api/federation/sessions and .../devices, with the    *)
(* session details that share the breaker.                                 *)
(*                                                                         *)
(* Every request of a browser fetches from the peer on its own: calls      *)
(* overlap, and a list of sessions is only cached when the peer's version  *)
(* has been fetched too.  A call takes seconds and the breaker's window a  *)
(* minute: the window is a flag, and does not pass while a call runs.      *)
(*                                                                         *)
(* What the poll cycle does with the cached list is in module Pruning.     *)
(* `history` is read by the properties only.                               *)
(***************************************************************************)
EXTENDS Naturals, FiniteSets

CONSTANTS Names,     \* session names
          Calls,     \* bound: requests to the peer at a time
          Threshold, \* failures that open the circuit
          Grace      \* failures a cached list outlives

ASSUME CountsAssumption == Threshold \in Nat \ {0} /\ Grace \in Nat \ {0}

VARIABLES peer,    \* the peer: does it answer, does it reject our key, its sessions
          breaker, \* _federation_breaker, the peer's state
          cache,   \* _federation_cache and _federation_devices_cache, the peer's entry
          calls,   \* the requests in flight
          history  \* what the properties compare with, see Init

vars == <<peer, breaker, cache, calls, history>>

Kinds  == {"sessions", "devices", "details"}
Cached == {"sessions", "devices"}
None   == [fails |-> Grace]          \* no entry: never served
Idle   == [phase |-> "idle"]
Closed == [failures |-> 0, open |-> FALSE, cooled |-> FALSE]

-----------------------------------------------------------------------------
(* The world *)

PeerChanges ==
  /\ \/ peer' = [peer EXCEPT !.up = ~@]
     \/ peer' = [peer EXCEPT !.rejects = ~@]
     \/ \E S \in SUBSET Names : peer' = [peer EXCEPT !.live = S]
  /\ UNCHANGED <<breaker, cache, calls, history>>

\* A minute passes since the circuit opened or let a probe through.
WindowPasses ==
  /\ breaker.open /\ ~breaker.cooled /\ \A c \in Calls : calls[c] = Idle
  /\ breaker' = [breaker EXCEPT !.cooled = TRUE]
  /\ UNCHANGED <<peer, cache, calls, history>>

-----------------------------------------------------------------------------
(* CircuitBreaker *)

NeverAgain == ~breaker.open   \* mutant: no half-open state
MayAttempt == ~breaker.open \/ breaker.cooled

\* An attempt on an open circuit starts the window anew: one probe in it.
NotRearmed == breaker   \* mutant: the window stays open for every caller
Attempted == [breaker EXCEPT !.cooled = FALSE]

AtFirst(failures) == failures >= 1   \* mutant: the first failure opens it
Enough(failures) == failures >= Threshold

\* A failure beyond the threshold is not told apart from one at it.
Failed ==
  LET failures == IF breaker.failures < Threshold THEN breaker.failures + 1
                  ELSE Threshold
  IN  [failures |-> failures, open |-> breaker.open \/ Enough(failures),
       cooled |-> FALSE]

Succeeded == Closed

-----------------------------------------------------------------------------
(* The requests *)

Begin(c, kind) ==
  /\ calls[c] = Idle /\ MayAttempt
  /\ breaker' = Attempted
  /\ calls' = [calls EXCEPT ![c] =
                 [phase |-> "sent", kind |-> kind, probe |-> breaker.open]]
  /\ UNCHANGED <<peer, cache, history>>

\* A failure is answered from the cache while its entry's grace lasts.
WornOut(entry) == [entry EXCEPT !.fails = @ + 1]   \* mutant: whatever is left
Worn(entry) == IF entry.fails < Grace THEN [entry EXCEPT !.fails = @ + 1] ELSE entry
WornCache(kind) ==
  IF kind \in Cached THEN [cache EXCEPT ![kind] = Worn(@)] ELSE cache

\* The other session calls that have their list and wait for the version learn
\* nothing of what this one heard.
Overtaken(c) ==
  [d \in Calls |-> IF d = c THEN Idle
                   ELSE IF calls[d].phase = "listed" /\ calls[c].kind = "sessions"
                   THEN [calls[d] EXCEPT !.overtaken = TRUE] ELSE calls[d]]

\* No answer: refused, or too late.
TransportFails(c) ==
  /\ calls[c].phase = "sent" /\ ~peer.up
  /\ breaker' = Failed
  /\ cache' = WornCache(calls[c].kind)
  /\ calls' = Overtaken(c)
  /\ history' = [history EXCEPT !.others = @ \/ calls[c].kind # "sessions"]
  /\ UNCHANGED peer

Heard == [history EXCEPT !.others = FALSE]

\* A status that is no success, or a body that is no list.
ErrorAnswer(c) ==
  /\ calls[c].phase = "sent" /\ peer.up
  /\ breaker' = Succeeded
  /\ cache' = WornCache(calls[c].kind)
  /\ calls' = Overtaken(c)
  /\ history' = Heard
  /\ UNCHANGED peer

\* 401 and 403: the entry goes.
KeptEntry(kind) == cache   \* mutant: the entry stays
DroppedEntry(kind) == IF kind \in Cached THEN [cache EXCEPT ![kind] = None] ELSE cache

Rejection(c) ==
  /\ calls[c].phase = "sent" /\ peer.up /\ peer.rejects
  /\ breaker' = Succeeded
  /\ cache' = DroppedEntry(calls[c].kind)
  /\ calls' = Overtaken(c)
  /\ history' = [Heard EXCEPT !.rejected = @ \/ calls[c].kind = "sessions",
                              !.crossed = @ /\ calls[c].kind # "sessions"]
  /\ UNCHANGED peer

\* The registry of devices is cached at once; details are not cached.
Answer(c) ==
  /\ calls[c].phase = "sent" /\ calls[c].kind # "sessions"
  /\ peer.up /\ ~peer.rejects
  /\ breaker' = Succeeded
  /\ cache' = IF calls[c].kind = "devices"
              THEN [cache EXCEPT !["devices"] = [list |-> {}, fails |-> 0]]
              ELSE cache
  /\ calls' = [calls EXCEPT ![c] = Idle]
  /\ history' = Heard
  /\ UNCHANGED peer

\* The list of sessions waits for the peer's version.
ListArrives(c) ==
  /\ calls[c].phase = "sent" /\ calls[c].kind = "sessions"
  /\ peer.up /\ ~peer.rejects
  /\ breaker' = Succeeded
  /\ calls' = [Overtaken(c) EXCEPT ![c] =
                 [phase |-> "listed", list |-> peer.live, overtaken |-> FALSE]]
  /\ history' = [Heard EXCEPT !.rejected = FALSE]
  /\ UNCHANGED <<peer, cache>>

\* With or without one it is cached then.
VersionArrives(c) ==
  /\ calls[c].phase = "listed"
  /\ cache' = [cache EXCEPT !["sessions"] = [list |-> calls[c].list, fails |-> 0]]
  /\ calls' = [calls EXCEPT ![c] = Idle]
  /\ history' = [history EXCEPT !.crossed = calls[c].overtaken]
  /\ UNCHANGED <<peer, breaker>>

\* The server restarts: neither breaker nor cache is on disk.
Restart ==
  /\ breaker' = Closed
  /\ cache' = [kind \in Cached |-> None]
  /\ calls' = [c \in Calls |-> Idle]
  /\ history' = [history EXCEPT !.others = FALSE, !.rejected = FALSE, !.crossed = FALSE]
  /\ UNCHANGED peer

-----------------------------------------------------------------------------
(* Specification *)

Init ==
  /\ peer \in [up : BOOLEAN, rejects : {FALSE}, live : SUBSET Names]
  /\ breaker = Closed
  /\ cache = [kind \in Cached |-> None]
  /\ calls = [c \in Calls |-> Idle]
  /\ history =
       [others |-> FALSE,   \* a failure of another kind counts since the last answer
        rejected |-> FALSE, \* the last session call that was answered was rejected
        crossed |-> FALSE]  \* the cached list was overtaken while it waited

Ends(c) == \/ TransportFails(c) \/ ErrorAnswer(c) \/ Rejection(c)
           \/ Answer(c) \/ ListArrives(c) \/ VersionArrives(c)

Next ==
  \/ PeerChanges \/ WindowPasses \/ Restart
  \/ \E c \in Calls, kind \in Kinds : Begin(c, kind)
  \/ \E c \in Calls : Ends(c)

\* Browsers keep asking, a call ends by its timeout, a minute passes.
Fairness ==
  /\ WF_vars(WindowPasses)
  /\ WF_vars(\E c \in Calls : Begin(c, "sessions"))
  /\ \A c \in Calls : WF_vars(Ends(c))

Spec == Init /\ [][Next]_vars /\ Fairness

-----------------------------------------------------------------------------
(* Properties *)

Sent == [phase : {"sent"}, kind : Kinds, probe : BOOLEAN]
Listed == [phase : {"listed"}, list : SUBSET Names, overtaken : BOOLEAN]

\* Types, and only an open circuit has a window to pass.
TypeOK ==
  /\ peer \in [up : BOOLEAN, rejects : BOOLEAN, live : SUBSET Names]
  /\ breaker \in [failures : 0..Threshold, open : BOOLEAN, cooled : BOOLEAN]
  /\ breaker.open \/ ~breaker.cooled
  /\ \A kind \in Cached : \/ cache[kind] = None
                          \/ cache[kind] \in [list : SUBSET Names, fails : 0..Grace]
  /\ \A c \in Calls : calls[c] \in {Idle} \cup Sent \cup Listed

\* A peer that does not answer costs one request a window, whatever asks: of all
\* requests in flight one at most was let through an open circuit.
OneProbe ==
  \A c, d \in Calls :
    /\ calls[c].phase = "sent" /\ calls[c].probe
    /\ calls[d].phase = "sent" /\ calls[d].probe
    => c = d

\* The circuit is open no sooner than the cached list's grace is over, so that a
\* list with grace left is served.  The exceptions: the failures of another kind
\* of call count too; a list that waited for its version starts its grace late.
OpensWhenGraceEnds ==
  breaker.open => \/ cache["sessions"].fails >= Grace
                  \/ history.others \/ history.crossed

\* When the peer's last word on the sessions is a rejection of our key, no list of
\* its sessions is kept to be served or judged by.  The exception: a list that was
\* there before the rejection, and waited for its version, is cached after it.
RejectedIsNotServed ==
  history.rejected => cache["sessions"] = None \/ history.crossed

\* A peer that answers again is found out: no circuit stays open on it.
Recovers == <>[]peer.up => <>[]~breaker.open

=============================================================================
