----------------------------- MODULE Followups -----------------------------
(***************************************************************************)
(* The per-session follow-up queue: the HTTP handlers that edit it, the    *)
(* coroutine that types its head item when the session's bell rings, the   *)
(* poll cycle that drops the queues of vanished sessions, and the browser  *)
(* panel that edits it from a snapshot.                                    *)
(*                                                                         *)
(* Concurrency.  The server is one asyncio event loop: code between two    *)
(* awaits is one step.  A handler that does all its work in one `async     *)
(* with state_lock` block is one action, enabled when no poll cycle holds  *)
(* the lock; _advance_followup_queue has an await per tmux command and one *)
(* for the lock, so it is a coroutine with a phase.  The poll cycle holds  *)
(* state_lock across its awaits, from the enumeration to the save.         *)
(*                                                                         *)
(* What may change between any two steps is no variable but an answer      *)
(* chosen where the code asks: whether tmux has the session (an            *)
(* enumeration, a send-keys), whether the input fence admits it (operators *)
(* edit its settings), whether the bell hook is armed (setup-hooks), and   *)
(* whether the settle window after the last send has passed (time): no     *)
(* property may rest on how fast bells follow each other.                  *)
(***************************************************************************)
EXTENDS FollowupQueue, FiniteSets

CONSTANTS Clients,     \* browser tabs showing a follow-up panel
          Bells,       \* bell handlers that may run at the same time
          MaxStamp     \* bound: requests that create items

ASSUME NamesAssumption == "none" \notin Names
ASSUME MaxStampAssumption == MaxStamp \in Nat \ {0}

VARIABLES queue,     \* state["followups"]
          sending,   \* _followup_sending
          advance,   \* the running _advance_followup_queue coroutines
          cache,     \* get_session_list(): what the last poll saw
          poll,      \* the names a running poll cycle enumerated
          viewing,   \* per tab: _viewingSession
          panel,     \* per tab: _followupsData
          request,   \* per tab: progress of _followupsPut
          stamp,     \* next unused request number
          typed,     \* history: items whose text reached a pane
          torn       \* history: ids typed, then not acknowledged

serverVars == <<queue, sending, advance>>
worldVars  == <<cache, poll>>
clientVars == <<viewing, panel, request>>
historyVars == <<stamp, typed, torn>>
vars == <<serverVars, worldVars, clientVars, historyVars>>

-----------------------------------------------------------------------------
(* Values *)

NoNames == [held |-> FALSE, names |-> {}]

Idle == [phase |-> "idle"]
Phase == {"text", "enter", "sent", "failed"}
Running(b) == advance[b].phase # "idle"

Snapshot == [session : Names, revision : Nat, items : Seq(Item)]
NoPanel  == [session |-> "none"]
NoSession == "none"
Advance  == [phase : {"idle"}]
            \cup [phase : Phase, name : Names, item : Item]
Panel    == Snapshot \cup {NoPanel}
Request  == [stage : {"quiet"}]
            \cup [stage : {"put"}, session : Names, items : Seq(Item),
                  expected : Nat, retried : BOOLEAN]
            \cup [stage : {"refetch"}, items : Seq(Item), retry : BOOLEAN]
            \cup [stage : {"again"}, items : Seq(Item)]

Quiet == [stage |-> "quiet"]

Init ==
    /\ queue   = [n \in Names |-> EmptyQueue]
    /\ sending = {}
    /\ advance = [b \in Bells |-> Idle]
    /\ cache   = Names
    /\ poll    = NoNames
    /\ viewing = [c \in Clients |-> NoSession]
    /\ panel   = [c \in Clients |-> NoPanel]
    /\ request = [c \in Clients |-> Quiet]
    /\ stamp   = 1
    /\ typed   = {}
    /\ torn    = {}

LockFree == ~poll.held

-----------------------------------------------------------------------------
(* Handlers that edit the queue *)

\* POST .../followups, when the fence admits n and the hook is armed; the lock
\* is taken for the capacity check and the append.
AppendFollowup(n) ==
    /\ n \in cache
    /\ LockFree
    /\ stamp < MaxStamp
    /\ HasRoom(queue[n])
    /\ LET item == [id |-> <<stamp, 1>>, intent |-> stamp]
       IN  queue' = [queue EXCEPT ![n] = AppendItem(@, item)]
    /\ stamp' = stamp + 1
    /\ UNCHANGED <<sending, advance, worldVars, clientVars, typed, torn>>

\* DELETE .../followups
ClearFollowups(n) ==
    /\ n \in cache
    /\ LockFree
    /\ queue' = [queue EXCEPT ![n] = EmptyQueue]
    /\ UNCHANGED <<sending, advance, worldVars, clientVars, historyVars>>

\* POST .../followups/resume
ResumeFollowups(n) ==
    /\ n \in cache
    /\ LockFree
    /\ queue[n].halted # NoItem
    /\ queue' = [queue EXCEPT ![n] = ResumeQueue(@)]
    /\ UNCHANGED <<sending, advance, worldVars, clientVars, historyVars>>

-----------------------------------------------------------------------------
(* _advance_followup_queue *)

\* mutant: a second bell may advance while the first one's send is in flight.
AcceptanceIgnoringMarker(n, settled) == Ready(queue[n]) /\ settled

\* settled: FOLLOWUP_SETTLE_SECONDS have passed since the last send to n.
AcceptanceOk(n, settled) == Ready(queue[n]) /\ n \notin sending /\ settled

\* Step 1 and the fence of step 2: no await separates them.  A closed fence or
\* a session missing from the cache makes the item fail without typing it.  A
\* fence that raises takes the marker back at once: nothing here has changed.
BeginAdvance(b, n) ==
    /\ ~Running(b)
    /\ LockFree
    /\ \E settled \in BOOLEAN : AcceptanceOk(n, settled)
    /\ sending' = sending \cup {n}
    /\ \E phase \in {"failed"} \cup {p \in {"text"} : n \in cache} :
          advance' = [advance EXCEPT ![b] =
              [phase |-> phase, name |-> n, item |-> Head(queue[n].items)]]
    /\ UNCHANGED <<queue, worldVars, clientVars, historyVars>>

\* send-keys of the text.  An item with enter = false is done after it.
TypeText(b) ==
    /\ advance[b].phase = "text"
    /\ \/ /\ \E next \in {"enter", "sent"} :
                advance' = [advance EXCEPT ![b].phase = next]
          /\ typed' = typed \cup {advance[b].item}
       \/ /\ advance' = [advance EXCEPT ![b].phase = "failed"]
          /\ UNCHANGED typed
    /\ UNCHANGED <<queue, sending, worldVars, clientVars, stamp, torn>>

\* send-keys Enter; a failure leaves the text on the command line.
TypeEnter(b) ==
    /\ advance[b].phase = "enter"
    /\ \/ /\ advance' = [advance EXCEPT ![b].phase = "sent"]
          /\ UNCHANGED torn
       \/ /\ advance' = [advance EXCEPT ![b].phase = "failed"]
          /\ torn' = torn \cup {advance[b].item.id}
    /\ UNCHANGED <<queue, sending, worldVars, clientVars, stamp, typed>>

Outcome(q, a) ==
    IF ~q.present THEN q
    ELSE IF a.phase = "sent" THEN RemoveItemById(q, a.item.id)
    ELSE SetHalted(q, a.item.id)

MarkersAfter(n) == sending \ {n}

\* Step 3 and the final discard of the marker.
FinishAdvance(b) ==
    /\ advance[b].phase \in {"sent", "failed"}
    /\ LockFree
    /\ LET n == advance[b].name
       IN  /\ queue'   = [queue EXCEPT ![n] = Outcome(@, advance[b])]
           /\ sending' = MarkersAfter(n)
    /\ advance' = [advance EXCEPT ![b] = Idle]
    /\ UNCHANGED <<worldVars, clientVars, historyVars>>

-----------------------------------------------------------------------------
(* The poll cycle *)

\* It takes state_lock and enumerates the sessions.
PollEnumerate ==
    /\ LockFree
    /\ \E names \in SUBSET Names : poll' = [held |-> TRUE, names |-> names]
    /\ UNCHANGED <<serverVars, cache, clientVars, historyVars>>

\* mutant: the reap compares with the session list of the cycle before.
ReapedByCache(q) == [n \in Names |-> IF n \in cache THEN q[n] ELSE EmptyQueue]

\* reap_stale_queues
Reaped(q) == [n \in Names |-> IF n \in poll.names THEN q[n] ELSE EmptyQueue]

\* The rest of the locked section.  probe_tmux_epoch() may answer None.
PollApply ==
    /\ poll.held
    /\ cache' = poll.names
    /\ queue' \in {queue, Reaped(queue)}
    /\ poll'  = NoNames
    /\ UNCHANGED <<sending, advance, clientVars, historyVars>>

-----------------------------------------------------------------------------
(* The browser panel *)

CanFetch(c) == viewing[c] # NoSession /\ viewing[c] \in cache /\ LockFree

PanelOf(n) == [session |-> n, revision |-> queue[n].revision, items |-> queue[n].items]

\* openSession: the panel still shows the session viewed before until the
\* refresh it starts has answered.
OpenSession(c, n) ==
    /\ viewing[c] # n
    /\ viewing' = [viewing EXCEPT ![c] = n]
    /\ UNCHANGED <<panel, request, serverVars, worldVars, historyVars>>

\* _followupsRefresh; a GET that fails, and no session in view, leave no panel.
Fetch(c) ==
    panel' \in {[panel EXCEPT ![c] = NoPanel]}
              \cup {[panel EXCEPT ![c] = PanelOf(n)] : n \in {m \in {viewing[c]} : CanFetch(c)}}

Refresh(c) ==
    /\ Fetch(c)
    /\ UNCHANGED <<viewing, request, serverVars, worldVars, historyVars>>

\* The lists the panel's buttons can build: an edited text (the same items),
\* one item fewer, or two neighbours swapped.
Edits(items) ==
    {items}
    \cup {DropAt(items, k) : k \in 1..Len(items)}
    \cup {[items EXCEPT ![k] = items[k + 1], ![k + 1] = items[k]] : k \in 1..(Len(items) - 1)}

\* _followupsPut: refuses a panel of another session, else sends the request.
StartPut(c, items, retried) ==
    /\ panel[c] # NoPanel
    /\ panel[c].session = viewing[c]
    /\ request' = [request EXCEPT ![c] =
                      [stage |-> "put", session |-> viewing[c], items |-> items,
                       expected |-> panel[c].revision, retried |-> retried]]

EditPanel(c) ==
    /\ request[c] = Quiet
    /\ panel[c] # NoPanel
    /\ panel[c].items # <<>>
    /\ \E items \in Edits(panel[c].items) : StartPut(c, items, FALSE)
    /\ UNCHANGED <<viewing, panel, serverVars, worldVars, historyVars>>

\* PUT .../followups accepted; its answer may be lost.
PutAccepted(c) ==
    /\ request[c].stage = "put"
    /\ LockFree
    /\ stamp < MaxStamp
    /\ LET n == request[c].session
       IN  /\ n \in cache
           /\ Len(request[c].items) <= MaxFollowups
           /\ n \notin sending
           /\ request[c].expected = queue[n].revision
           /\ LET q == ReplaceItems(queue[n], request[c].items, stamp)
              IN  /\ queue' = [queue EXCEPT ![n] = q]
                  /\ panel' \in {panel, [panel EXCEPT ![c] =
                        [session |-> n, revision |-> q.revision, items |-> q.items]]}
    /\ stamp' = stamp + 1
    /\ request' = [request EXCEPT ![c] = Quiet]
    /\ UNCHANGED <<sending, advance, worldVars, viewing, typed, torn>>

\* PUT refused with 409: a send in flight, or another revision.  The panel
\* refreshes, once; only send_in_flight is retried.
PutRefused(c) ==
    /\ request[c].stage = "put"
    /\ LockFree
    /\ LET n == request[c].session
           busy == n \in sending
       IN  /\ n \in cache
           /\ busy \/ request[c].expected # queue[n].revision
           /\ request' = [request EXCEPT ![c] =
                 IF request[c].retried THEN Quiet
                 ELSE [stage |-> "refetch", items |-> request[c].items, retry |-> busy]]
    /\ UNCHANGED <<viewing, panel, serverVars, worldVars, historyVars>>

\* PUT refused with 404, or never answered.
PutLost(c) ==
    /\ request[c].stage = "put"
    /\ request' = [request EXCEPT ![c] = Quiet]
    /\ UNCHANGED <<viewing, panel, serverVars, worldVars, historyVars>>

\* After a refusal: re-read the queue ...
Refetch(c) ==
    /\ request[c].stage = "refetch"
    /\ Fetch(c)
    /\ request' = [request EXCEPT ![c] =
          IF @.retry THEN [stage |-> "again", items |-> @.items] ELSE Quiet]
    /\ UNCHANGED <<viewing, serverVars, worldVars, historyVars>>

\* ... and, after send_in_flight, 300 ms later send the same list again, with the revision just read.
PutAgain(c) ==
    /\ request[c].stage = "again"
    /\ StartPut(c, request[c].items, TRUE)
    /\ UNCHANGED <<viewing, panel, serverVars, worldVars, historyVars>>

\* The tab moved to another session meanwhile: the retry is dropped.
PutAgainDropped(c) ==
    /\ request[c].stage = "again"
    /\ panel[c] # NoPanel => panel[c].session # viewing[c]
    /\ request' = [request EXCEPT ![c] = Quiet]
    /\ UNCHANGED <<viewing, panel, serverVars, worldVars, historyVars>>

-----------------------------------------------------------------------------
(* Restarts *)

\* The process dies and starts again: the markers, the cache and the running
\* coroutines are memory; the queue is state.json.
Restart ==
    /\ sending' = {}
    /\ advance' = [b \in Bells |-> Idle]
    /\ cache'   = {}
    /\ poll'    = NoNames
    /\ torn' = torn \cup {advance[b].item.id :
                             b \in {x \in Bells : advance[x].phase \in {"enter", "sent"}}}
    /\ UNCHANGED <<queue, clientVars, stamp, typed>>

-----------------------------------------------------------------------------
HandlerStep ==
    \E n \in Names : AppendFollowup(n) \/ ClearFollowups(n) \/ ResumeFollowups(n)

AdvanceStep ==
    \/ \E b \in Bells, n \in Names : BeginAdvance(b, n)
    \/ \E b \in Bells : TypeText(b) \/ TypeEnter(b) \/ FinishAdvance(b)

PollStep == PollEnumerate \/ PollApply

ClientStep ==
    \/ \E c \in Clients, n \in Names : OpenSession(c, n)
    \/ \E c \in Clients :
          \/ Refresh(c) \/ EditPanel(c)
          \/ PutAccepted(c) \/ PutRefused(c) \/ PutLost(c)
          \/ Refetch(c) \/ PutAgain(c) \/ PutAgainDropped(c)

Next == HandlerStep \/ AdvanceStep \/ PollStep \/ ClientStep \/ Restart

Spec == Init /\ [][Next]_vars

-----------------------------------------------------------------------------
(* Properties *)

TypeOK ==
    /\ queue \in [Names -> Entry]
    /\ \A n \in Names : Len(queue[n].items) <= MaxFollowups
    /\ sending \subseteq Names
    /\ advance \in [Bells -> Advance]
    /\ cache \subseteq Names
    /\ poll \in [held : BOOLEAN, names : SUBSET Names]
    /\ viewing \in [Clients -> Names \cup {NoSession}]
    /\ panel \in [Clients -> Panel]
    /\ request \in [Clients -> Request]
    /\ stamp \in 1..MaxStamp
    /\ typed \subseteq Item
    /\ torn \subseteq Id

Pending == UNION {ItemSet(queue[n].items) : n \in Names}
InFlight == {advance[b].item.id : b \in {x \in Bells : Running(x)}}

\* Two bells never type into one session at the same time, and the in-flight
\* marker is set exactly while a coroutine works for the session: without it
\* the second bell would send the item the first one is still sending.
SingleFlight ==
    /\ \A a, b \in Bells :
          Running(a) /\ Running(b) /\ advance[a].name = advance[b].name => a = b
    /\ sending = {advance[b].name : b \in {x \in Bells : Running(x)}}

TypedIds == {it.id : it \in typed}

\* An item that is still queued although its text was typed is the one being
\* sent right now, or one whose send was cut short (Enter failed, or the
\* process died): a completed send always takes its item off the queue, so no
\* later bell types it again.
NoSilentRepeat ==
    \A it \in Pending : it.id \in TypedIds => it.id \in InFlight \cup torn

\* While a queue is halted nothing is being typed for it: the halt is the last
\* step of the send that failed, and no bell starts another.
HaltedIsQuiet ==
    \A n \in Names : queue[n].halted # NoItem => n \notin sending

\* An id names one place in one queue; remove_item_by_id can rely on it.
IdsUnique ==
    \A n, m \in Names : \A j \in 1..Len(queue[n].items), k \in 1..Len(queue[m].items) :
        queue[n].items[j].id = queue[m].items[k].id => n = m /\ j = k

\* An item leaves its queue only because its text was typed, because a user
\* replaced or cleared the list, or because a poll saw its session gone.
ItemsLeaveForAReason ==
    [][\A n \in Names : \A it \in ItemSet(queue[n].items) \ ItemSet(queue'[n].items) :
          \/ it \in typed
          \/ poll.held /\ n \notin poll.names
          \/ ~poll.held /\ stamp' # stamp
          \/ ~poll.held /\ ~queue'[n].present /\ advance' = advance]_queue

\* A halt ends by itself: a step that lifts it changes nothing else of the
\* queue, or drops the queue whole.
HaltLiftedAlone ==
    [][\A n \in Names : queue[n].halted # NoItem /\ queue'[n].halted = NoItem =>
          \/ queue'[n] = EmptyQueue
          \/ queue'[n].items = queue[n].items /\ queue'[n].revision = queue[n].revision]_queue

\* The ids' life cycle, as FollowupContract states it.
Contract == INSTANCE FollowupContract WITH
    Ids     <- (1..MaxStamp) \X (1..MaxFollowups),
    fresh   <- {id \in (1..MaxStamp) \X (1..MaxFollowups) : id[1] >= stamp},
    pending <- {it.id : it \in Pending},
    typing  <- [n \in Names |->
                  {advance[b].item.id : b \in {x \in Bells : Running(x) /\ advance[x].name = n}}]

\* Every step of the queue is a step of the contract: an id that left the
\* queue never returns, and a send begins on a queued item of a quiet session.
ImplementsContract == Contract!Spec

\* What one instruction of the user leads to: it is typed under one id only.
NoSecondExecution ==
    \A x, y \in typed : x.intent = y.intent => x.id = y.id
=============================================================================
