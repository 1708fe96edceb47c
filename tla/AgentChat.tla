----------------------------- MODULE AgentChat -----------------------------
(***************************************************************************)
(* The agent's chat: a run of a turn (runner.py), the lease and the marker *)
(* of its session (state.py), the calls its browser executes (bridge.py),  *)
(* and the page that executes them (chat.js).                              *)
(*                                                                         *)
(* A run has one turn, and a new session is named by the run that makes    *)
(* it.  The SDK is a library: it accepts a turn, calls tools, ends the     *)
(* turn, and may or may not get it into the session's history.  Clocks are *)
(* not modelled: server and page find on their own that a call is too late.*)
(* The server dies and starts again at any time.                           *)
(***************************************************************************)
EXTENDS Naturals, FiniteSets, Sequences

CONSTANTS MaxRuns,  \* bound: requests for a turn
          MaxCalls, \* bound: the tool calls of a turn
          Budget    \* bound: requests and tool calls together

ASSUME BoundsAssumption == MaxRuns \in Nat /\ MaxCalls \in Nat /\ Budget \in Nat

VARIABLES run,  \* _runs: a LiveRun for each request
          disk, \* the session owner records: marker of an unproven turn
          lock, \* who has the session's flock
          log,  \* the SDK's public history of a session
          sdk,  \* the SDK's turn of a run
          call, \* the calls of a run: at the server, at the page, and their effect
          tab   \* the page's turn of a run

vars == <<run, disk, lock, log, sdk, call, tab>>

Runs  == 1 .. MaxRuns     \* in the order of their requests
Calls == 1 .. MaxCalls    \* in the order the SDK makes them
Nobody   == 0
NoRecord == [run |-> MaxRuns + 1, turn |-> FALSE]
NoRun    == [run |-> Nobody, turn |-> FALSE]

Outcomes == {"completed", "failed", "unknown"}
NewCall  == [typing |-> FALSE, server |-> "none", answer |-> "none", page |-> "hidden", effect |-> "none"]
NewRun   == [at |-> "none", session |-> Nobody, closing |-> FALSE, turn |-> FALSE,
             pumped |-> FALSE, blocked |-> FALSE, uncertain |-> FALSE]
NewTab   == [at |-> "none", told |-> FALSE, blocked |-> FALSE]

InFlight(r) == {c \in Calls : call[r][c].server \in {"waiting", "pending", "resolved"}}
Registered(r) == run[r].at \notin {"none", "closed"}
Session(r) == run[r].session
Used == Cardinality({r \in Runs : run[r].at # "none"})
        + Cardinality({rc \in Runs \X Calls : call[rc[1]][rc[2]].server # "none"})

-----------------------------------------------------------------------------
(* Closing a run *)

\* BrowserBridge.close: what has no answer yet is unknown.
Unanswered(calls) ==
  [c \in Calls |-> IF calls[c].server # "pending" THEN calls[c]
                   ELSE [calls[c] EXCEPT !.server = "resolved", !.answer = "unknown"]]

\* The page's turn ends: it starts nothing of what it had queued.
Over(r) == [tab EXCEPT ![r] = [@ EXCEPT !.at = "over", !.blocked = FALSE]]
Fenced(calls) ==
  [c \in Calls |-> IF calls[c].page = "hidden" THEN calls[c]
                   ELSE [calls[c] EXCEPT !.page = "done"]]

Gone(r) == [NewRun EXCEPT !.at = "closed", !.session = Session(r)]

\* prepare_chat's last resort: admission is over, and the run is closed.
NeverPrepared(r, changed) ==   \* mutant: the cleanup waits for an event nobody sets
  /\ run' = [run EXCEPT ![r] = [changed EXCEPT !.at = "raised", !.closing = TRUE]]
  /\ call' = [call EXCEPT ![r] = Fenced(Unanswered(@))]
  /\ tab' = Over(r)
Failed(r, changed) ==
  /\ run' = [run EXCEPT ![r] = [changed EXCEPT !.at = "prepared", !.closing = TRUE]]
  /\ call' = [call EXCEPT ![r] = Fenced(Unanswered(@))]
  /\ tab' = Over(r)

\* The lease goes last, when the pump has seen the turn's end and the SDK's
\* handles are closed; that waits for whatever turn they still run.  A close that
\* raises is taken to have ended its turn.
Unpumped(r) == TRUE   \* mutant: the cleanup does not wait for the pump
Drained(r) == (run[r].turn => run[r].pumped) /\ sdk[r] # "running"
Cleanup(r) ==
  /\ run[r].at = "prepared" /\ run[r].closing /\ Drained(r)
  /\ run' = [run EXCEPT ![r] = Gone(r)]
  /\ lock' = [s \in Runs |-> IF lock[s] = r THEN Nobody ELSE lock[s]]
  /\ UNCHANGED <<disk, log, sdk, call, tab>>

-----------------------------------------------------------------------------
(* prepare_chat *)

\* A page sends one message at a time, in the session it was told or a new one.
\* The request is refused when the session's lock is held.
Request(r, s) ==
  /\ run[r].at = "none" /\ Used < Budget /\ \A q \in 1 .. r - 1 : run[q].at # "none"
  /\ \A q \in Runs : tab[q].at \notin {"asking", "reading"}
  /\ s = r \/ tab[s].told
  /\ IF lock[s] = Nobody /\ (s # r => disk[s] # NoRecord)
     THEN /\ lock' = [lock EXCEPT ![s] = r]
          /\ disk' = IF s = r THEN [disk EXCEPT ![s] = NoRun] ELSE disk
          /\ run' = [run EXCEPT ![r].at = "leased", ![r].session = s]
          /\ tab' = [tab EXCEPT ![r].at = "asking"]
     ELSE /\ run' = [run EXCEPT ![r].at = "prepared", ![r].session = s, ![r].closing = TRUE]
          /\ tab' = Over(r)
          /\ UNCHANGED <<disk, lock>>
  /\ UNCHANGED <<log, sdk, call>>

\* create_agent returns, or raises; a shutdown meanwhile ends the admission.
AgentIsMade(r) ==
  /\ run[r].at = "leased"
  /\ \/ /\ ~run[r].closing
        /\ run' = [run EXCEPT ![r].at = "agent"]
        /\ UNCHANGED <<call, tab>>
     \/ Failed(r, run[r])
  /\ UNCHANGED <<disk, lock, log, sdk>>

\* SessionLease.reconcile: the history's last turn is the marker's.
AnyTurn(s) == log[s] # <<>>   \* mutant: whichever turn came last
Proven(s) == disk[s].turn /\ log[s] # <<>> /\ log[s][Len(log[s])] = disk[s].run

\* create_session or resume_session returns, the marker is checked, and a
\* new one written before the turn; or one of them fails.
SessionOpens(r) ==
  LET s == Session(r)
      fits == disk[s] = NoRun \/ Proven(s)
  IN  /\ run[r].at = "agent"
      /\ \/ /\ fits /\ ~run[r].closing
            /\ disk' = [disk EXCEPT ![s] = [run |-> r, turn |-> FALSE]]
            /\ run' = [run EXCEPT ![r].at = "starting"]
            /\ UNCHANGED <<call, tab>>
         \/ /\ fits /\ run[r].closing
            /\ disk' = [disk EXCEPT ![s] = NoRun]
            /\ Failed(r, run[r])
         \/ /\ Failed(r, run[r])
            /\ UNCHANGED disk
      /\ UNCHANGED <<lock, log, sdk>>

\* The SDK accepts the turn while start_turn is awaited.
TurnAccepted(r) ==
  /\ run[r].at = "starting" /\ sdk[r] = "none"
  /\ sdk' = [sdk EXCEPT ![r] = "running"]
  /\ UNCHANGED <<run, disk, lock, log, call, tab>>

\* start_turn returned: the pump starts, the marker gets the turn's id, and the
\* page its headers.  A shutdown, or a marker that cannot be written, ends it.
TurnStarts(r) ==
  LET started == [run[r] EXCEPT !.turn = TRUE]
      marked  == [disk EXCEPT ![Session(r)] = [run |-> r, turn |-> TRUE]]
  IN  /\ run[r].at = "starting" /\ sdk[r] # "none"
      /\ \/ /\ ~run[r].closing
            /\ run' = [run EXCEPT ![r] = [started EXCEPT !.at = "prepared"]]
            /\ disk' = marked
            /\ tab' = IF tab[r].at = "asking"
                      THEN [tab EXCEPT ![r] = [@ EXCEPT !.at = "reading", !.told = TRUE]]
                      ELSE tab
            /\ UNCHANGED call
         \/ /\ disk' = IF run[r].closing THEN marked ELSE disk
            /\ Failed(r, started)
      /\ UNCHANGED <<lock, log, sdk>>

\* start_turn refuses the input, before it accepts a turn: nothing to prove.
InputRefused(r) ==
  /\ run[r].at = "starting" /\ sdk[r] = "none"
  /\ disk' = [disk EXCEPT ![Session(r)] = NoRun]
  /\ Failed(r, run[r])
  /\ UNCHANGED <<lock, log, sdk>>

\* Any other failure of start_turn, whether or not it accepted: the marker stays.
Cleared(s) == [disk EXCEPT ![s] = NoRun]   \* mutant: every failure is a refusal
AfterFailure(s) == disk
TurnFails(r) ==
  /\ run[r].at = "starting"
  /\ disk' = AfterFailure(Session(r))
  /\ Failed(r, run[r])
  /\ UNCHANGED <<lock, log, sdk>>

-----------------------------------------------------------------------------
(* The SDK's turn *)

\* The SDK calls INPUT_TOOL or another tool; calls may overlap.
ToolCalled(r, c) ==
  /\ sdk[r] = "running" /\ call[r][c].server = "none" /\ Used < Budget
  /\ \A d \in 1 .. c - 1 : call[r][d].server # "none"
  /\ \E typing \in BOOLEAN :
       call' = [call EXCEPT ![r][c] = [@ EXCEPT !.server = "waiting", !.typing = typing]]
  /\ UNCHANGED <<run, disk, lock, log, sdk, tab>>

\* The turn ends when its calls have returned.  Its record gets into the
\* history, or the commit fails.
TurnEnds(r) ==
  /\ sdk[r] = "running" /\ InFlight(r) = {}
  /\ sdk' = [sdk EXCEPT ![r] = "ended"]
  /\ log' \in {log, [log EXCEPT ![Session(r)] = Append(@, r)]}
  /\ UNCHANGED <<run, disk, lock, call, tab>>

\* The pump has the last event, or fails on one; then the turn may run on.
PumpEnds(r) ==
  /\ run[r].turn /\ ~run[r].pumped /\ Registered(r)
  /\ run' = [run EXCEPT ![r].pumped = TRUE]
  /\ UNCHANGED <<disk, lock, log, sdk, call, tab>>

\* The stream ends after the pump, with success or an error frame; or the page
\* goes away first, and the stream's cleanup or the response's closes the run.
StreamEnds(r) ==
  /\ run[r].at = "prepared" /\ ~run[r].closing
  /\ run[r].pumped \/ tab[r].at = "over"
  /\ run' = [run EXCEPT ![r].closing = TRUE]
  /\ call' = [call EXCEPT ![r] = Fenced(Unanswered(@))]
  /\ tab' = Over(r)
  /\ UNCHANGED <<disk, lock, log, sdk>>

\* The lifespan's end closes every run.
Shutdown ==
  /\ \E r \in Runs : Registered(r) /\ ~run[r].closing
  /\ run' = [r \in Runs |-> IF Registered(r) THEN [run[r] EXCEPT !.closing = TRUE] ELSE run[r]]
  /\ call' = [r \in Runs |-> IF Registered(r) THEN Unanswered(call[r]) ELSE call[r]]
  /\ UNCHANGED <<disk, lock, log, sdk, tab>>

-----------------------------------------------------------------------------
(* BrowserBridge.invoke and resolve *)

Returns(r, c, report) ==
  call' = [call EXCEPT ![r][c] = [@ EXCEPT !.server = report, !.answer = "none"]]

Unbarred(r, c) == FALSE   \* mutant: the bridge does not remember a refusal
Barred(r, c) == call[r][c].typing /\ run[r].blocked

\* The serial lock is free and the call's turn comes: it is refused, or
\* registered and put into the stream.
Dispatch(r, c) ==
  /\ call[r][c].server = "waiting"
  /\ \A d \in Calls : call[r][d].server \notin {"pending", "resolved"}
  /\ IF run[r].closing \/ run[r].uncertain THEN Returns(r, c, "unknown")
     ELSE IF Barred(r, c) THEN Returns(r, c, "failed")
     ELSE call' = [call EXCEPT ![r][c] = [@ EXCEPT !.server = "pending", !.page = "unseen"]]
  /\ UNCHANGED <<run, disk, lock, log, sdk, tab>>

\* The deadline passes, or the SDK cancels its handler: even a call whose
\* answer is there but has not been picked up is reported as unknown.
Expire(r, c) ==
  /\ call[r][c].server \in {"pending", "resolved"}
  /\ Returns(r, c, "unknown")
  /\ run' = [run EXCEPT ![r].uncertain = TRUE]
  /\ UNCHANGED <<disk, lock, log, sdk, tab>>

\* The handler has its answer.
Return(r, c) ==
  LET answer == call[r][c].answer
  IN  /\ call[r][c].server = "resolved"
      /\ Returns(r, c, answer)
      /\ run' = [run EXCEPT ![r].uncertain = @ \/ answer = "unknown",
                            ![r].blocked = @ \/ (answer = "failed" /\ call[r][c].typing)]
      /\ UNCHANGED <<disk, lock, log, sdk, tab>>

\* resolve: the first answer to a call that is open is taken; what it latches,
\* it latches at receipt.
MayResolve(r, c) == Registered(r) /\ ~run[r].closing /\ call[r][c].server = "pending"
Resolved(r, c, outcome) ==
  /\ call' = [call EXCEPT ![r][c] =
                [@ EXCEPT !.server = "resolved", !.answer = outcome, !.page = "done"]]
  /\ run' = [run EXCEPT ![r].blocked = @ \/ (outcome # "completed" /\ call[r][c].typing),
                        ![r].uncertain = @ \/ outcome = "unknown"]

-----------------------------------------------------------------------------
(* The page *)

Page(r, c, state) == call' = [call EXCEPT ![r][c].page = state]

\* Stop, a new conversation, the page closed, the connection lost.
TabStops(r) ==
  /\ tab[r].at \in {"asking", "reading"}
  /\ tab' = Over(r)
  /\ call' = [call EXCEPT ![r] = Fenced(@)]
  /\ UNCHANGED <<run, disk, lock, log, sdk>>

\* The page's queue is serial: it takes a call when it is done with the others.
\* Typing that is blocked, or a call that is too late, fails as it stands.
Take(r, c) ==
  /\ tab[r].at = "reading" /\ call[r][c].page = "unseen"
  /\ \A d \in Calls : call[r][d].page \in {"hidden", "unseen", "done"}
  /\ \/ ~(call[r][c].typing /\ tab[r].blocked) /\ Page(r, c, "asked")
     \/ Page(r, c, "failed")
  /\ UNCHANGED <<run, disk, lock, log, sdk, tab>>

\* The dialog: declined, or closed by the deadline's timer.
Decline(r, c) ==
  /\ tab[r].at = "reading" /\ call[r][c].page = "asked" /\ call[r][c].typing
  /\ Page(r, c, "failed")
  /\ tab' \in {tab, [tab EXCEPT ![r].blocked = TRUE]}
  /\ UNCHANGED <<run, disk, lock, log, sdk>>

\* Confirmed, or no typing: the request that has the effect goes out.
Issue(r, c) ==
  /\ tab[r].at = "reading" /\ call[r][c].page = "asked"
  /\ call' = [call EXCEPT ![r][c] = [@ EXCEPT !.page = "issued", !.effect = "sent"]]
  /\ UNCHANGED <<run, disk, lock, log, sdk, tab>>

\* The dashboard's own endpoint does it, or refuses it.
EffectLands(r, c) ==
  /\ call[r][c].effect = "sent"
  /\ call' \in {[call EXCEPT ![r][c].effect = e] : e \in {"done", "refused"}}
  /\ UNCHANGED <<run, disk, lock, log, sdk, tab>>

\* What the response says of it: a server error or a lost response is unknown.
Hoped(effect) == {IF effect = "done" THEN "completed" ELSE "failed"}   \* mutant
Seen(effect) ==
  {"unknown"} \cup (IF effect = "done" THEN {"completed"} ELSE {})
              \cup (IF effect = "refused" THEN {"failed"} ELSE {})
Respond(r, c) ==
  /\ tab[r].at = "reading" /\ call[r][c].page = "issued"
  /\ \E outcome \in Seen(call[r][c].effect) :
       /\ Page(r, c, outcome)
       /\ tab' = [tab EXCEPT ![r].blocked =
                    @ \/ (call[r][c].typing /\ outcome # "completed")]
  /\ UNCHANGED <<run, disk, lock, log, sdk>>

\* The one POST of the result: taken and acknowledged; taken, and the page does
\* not hear of it; or refused or lost.  Without an acknowledgment the page
\* closes its turn.
Post(r, c) ==
  LET outcome == call[r][c].page
  IN  /\ tab[r].at = "reading" /\ outcome \in Outcomes
      /\ \/ MayResolve(r, c) /\ Resolved(r, c, outcome) /\ tab' \in {tab, Over(r)}
         \/ call' = [call EXCEPT ![r] = Fenced(@)] /\ tab' = Over(r) /\ UNCHANGED run
      /\ UNCHANGED <<disk, lock, log, sdk>>

-----------------------------------------------------------------------------
\* The process dies: locks and runs go; files, history and the page stay, and
\* so do requests that are on their way.
Restart ==
  /\ \E r \in Runs : Registered(r)
  /\ run' = [r \in Runs |-> IF Registered(r) THEN Gone(r) ELSE run[r]]
  /\ lock' = [s \in Runs |-> Nobody]
  /\ sdk' = [r \in Runs |-> IF sdk[r] = "running" THEN "lost" ELSE sdk[r]]
  /\ tab' = [r \in Runs |-> IF tab[r].at \in {"asking", "reading"}
                            THEN Over(r)[r] ELSE tab[r]]
  /\ call' = [r \in Runs |-> Fenced([c \in Calls |->
                IF c \in InFlight(r) THEN [call[r][c] EXCEPT !.server = "lost", !.answer = "none"]
                ELSE call[r][c]])]
  /\ UNCHANGED <<disk, log>>

Init ==
  /\ run = [r \in Runs |-> NewRun]
  /\ disk = [r \in Runs |-> NoRecord]
  /\ lock = [r \in Runs |-> Nobody]
  /\ log = [r \in Runs |-> <<>>]
  /\ sdk = [r \in Runs |-> "none"]
  /\ call = [r \in Runs |-> [c \in Calls |-> NewCall]]
  /\ tab = [r \in Runs |-> NewTab]

Prepares(r) ==
  AgentIsMade(r) \/ SessionOpens(r) \/ TurnStarts(r) \/ InputRefused(r) \/ TurnFails(r)
Handles(r, c) == Dispatch(r, c) \/ Expire(r, c) \/ Return(r, c)
Uses(r, c) ==
  \/ Take(r, c) \/ Decline(r, c) \/ Issue(r, c)
  \/ EffectLands(r, c) \/ Respond(r, c) \/ Post(r, c)

Next ==
  \/ \E r \in Runs :
       \/ \E s \in Runs : Request(r, s)
       \/ Prepares(r) \/ TurnAccepted(r) \/ TurnEnds(r) \/ PumpEnds(r)
       \/ StreamEnds(r) \/ Cleanup(r) \/ TabStops(r)
       \/ \E c \in Calls : ToolCalled(r, c) \/ Handles(r, c) \/ Uses(r, c)
  \/ Shutdown \/ Restart

\* The event loop runs what is ready: admissions, handlers and their timers,
\* the pump after the turn's end, the stream and the cleanup; and the SDK ends
\* a turn that is cancelled.
Progress(r) ==
  \/ Prepares(r) \/ StreamEnds(r) \/ Cleanup(r)
  \/ run[r].closing /\ TurnEnds(r)
  \/ sdk[r] # "running" /\ PumpEnds(r)
  \/ \E c \in Calls : Handles(r, c)
Fairness == WF_vars(\E r \in Runs : Progress(r))

Spec == Init /\ [][Next]_vars /\ Fairness

-----------------------------------------------------------------------------
(* Properties *)

\* A turn is accepted in a session only when every earlier turn that was
\* accepted in it is in its history: an effect whose outcome nobody knows is
\* never followed by a turn that may repeat it, whatever died in between.
NothingReplayed ==
  [][\A r \in Runs : (sdk[r] = "none" /\ sdk'[r] = "running") =>
       \A q \in Runs \ {r} : (Session(q) = Session(r) /\ sdk[q] # "none") =>
         \E i \in DOMAIN log[Session(r)] : log[Session(r)][i] = q]_vars

\* A turn that runs has its session locked by its run, through quarantine and
\* shutdown: no other run opens the session while its tools may still act.
LeaseCoversTurn == \A r \in Runs : sdk[r] = "running" => lock[Session(r)] = r

\* Once typing that the page was asked for is declined, refused or left unknown,
\* on either side, its run types nothing more.
SaidNo(r, c) ==
  /\ call[r][c].typing /\ call[r][c].page # "hidden"
  /\ \E told \in {call[r][c].page, call[r][c].answer, call[r][c].server} :
       told \in {"failed", "unknown"}
NoTypingAfterNo ==
  [][\A r \in Runs : \A c \in Calls :
       call[r][c].typing /\ call[r][c].effect = "none" /\ call'[r][c].effect = "sent" =>
         \A d \in Calls \ {c} : ~SaidNo(r, d)]_vars

\* What the SDK is told of typing is so: completed has been typed, failed was
\* not and will not be.
ReportsAreTrue ==
  \A r \in Runs : \A c \in Calls : call[r][c].typing =>
    /\ call[r][c].server = "completed" => call[r][c].effect = "done"
    /\ call[r][c].server = "failed" => call[r][c].effect \in {"none", "refused"}

\* Turns that their page has left end, and give their sessions back: again and
\* again none of them is registered.
LeftTurnsEnd == []<>(\A r \in Runs : tab[r].at = "over" => ~Registered(r))
=============================================================================
