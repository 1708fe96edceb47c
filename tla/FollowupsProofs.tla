-------------------------- MODULE FollowupsProofs --------------------------
(***************************************************************************)
(* Proofs about the follow-up queue, for any set of sessions, tabs and     *)
(* concurrent bells.                                                       *)
(***************************************************************************)
EXTENDS Followups, SequenceTheorems, TLAPS

USE MaxFollowupsAssumption, MaxStampAssumption, NamesAssumption

-----------------------------------------------------------------------------
(* Lists of items *)

\* Dropping a position from a list of items leaves a list of items.
LEMMA DropAtType ==
  ASSUME NEW items \in Seq(Item), NEW k \in 1..Len(items)
  PROVE  /\ DropAt(items, k) \in Seq(Item)
         /\ Len(DropAt(items, k)) = Len(items) - 1
<1>1. Len(items) \in Nat /\ Len(items) - 1 \in Nat
  BY LenProperties
<1>2. \A i \in 1..(Len(items) - 1) : items[i] \in Item /\ items[i + 1] \in Item
  BY <1>1, ElementOfSeq
<1>3. DropAt(items, k) \in [1..(Len(items) - 1) -> Item]
  BY <1>1, <1>2 DEF DropAt
<1> QED BY <1>1, <1>3, SeqDef

\* An edited list is a list of items, no longer than the one it was made from.
LEMMA EditsType ==
  ASSUME NEW items \in Seq(Item), NEW e \in Edits(items)
  PROVE  e \in Seq(Item) /\ Len(e) <= Len(items)
<1>0. Len(items) \in Nat
  BY LenProperties
<1>1. CASE e = items
  BY <1>0, <1>1
<1>2. ASSUME NEW k \in 1..Len(items), e = DropAt(items, k)
      PROVE  e \in Seq(Item) /\ Len(e) <= Len(items)
  BY <1>0, <1>2, DropAtType
<1>3. ASSUME NEW k \in 1..(Len(items) - 1),
             e = [items EXCEPT ![k] = items[k + 1], ![k + 1] = items[k]]
      PROVE  e \in Seq(Item) /\ Len(e) <= Len(items)
  <2>1. k \in 1..Len(items) /\ k + 1 \in 1..Len(items)
    BY <1>0, <1>3
  <2>2. items[k] \in Item /\ items[k + 1] \in Item
    BY <2>1, ElementOfSeq
  <2> DEFINE first == [items EXCEPT ![k] = items[k + 1]]
  <2>3. first \in Seq(Item) /\ Len(first) = Len(items)
    BY <2>1, <2>2, ExceptSeq
  <2> HIDE DEF first
  <2>4. /\ [first EXCEPT ![k + 1] = items[k]] \in Seq(Item)
        /\ Len([first EXCEPT ![k + 1] = items[k]]) = Len(first)
    BY <2>1, <2>2, <2>3, ExceptSeq
  <2>5. e = [first EXCEPT ![k + 1] = items[k]]
    BY <1>3 DEF first
  <2> QED BY <1>0, <2>3, <2>4, <2>5
<1> QED BY <1>1, <1>2, <1>3 DEF Edits

-----------------------------------------------------------------------------
(* The helpers of followups.py keep an entry well formed. *)

\* An absent queue is a well-formed entry.
LEMMA EmptyQueueIsEntry == EmptyQueue \in Entry /\ EmptyQueue.items = <<>>
  BY EmptySeq DEF EmptyQueue, Entry, Id, NoItem

\* prune_if_empty keeps an entry well formed, its list and its halt.
LEMMA PruneType ==
  ASSUME NEW q \in Entry
  PROVE  /\ PruneIfEmpty(q) \in Entry
         /\ PruneIfEmpty(q).items = q.items
         /\ PruneIfEmpty(q).halted = q.halted
  BY EmptyQueueIsEntry DEF PruneIfEmpty, EmptyQueue

\* append_item adds one item and keeps the halt.
LEMMA AppendType ==
  ASSUME NEW q \in Entry, NEW item \in Item
  PROVE  /\ AppendItem(q, item) \in Entry
         /\ AppendItem(q, item).items = Append(q.items, item)
         /\ Len(AppendItem(q, item).items) = Len(q.items) + 1
         /\ AppendItem(q, item).halted = q.halted
<1>1. q.items \in Seq(Item) /\ q.revision + 1 \in Nat
  BY DEF Entry
<1>2. /\ Append(q.items, item) \in Seq(Item)
      /\ Len(Append(q.items, item)) = Len(q.items) + 1
  BY <1>1, AppendProperties
<1> QED BY <1>1, <1>2 DEF AppendItem, Entry

\* The list replace_items stores is as long as the one it was sent.
LEMMA RenewedType ==
  ASSUME NEW q \in Entry, NEW raw \in Seq(Item), NEW s \in Nat
  PROVE  Renewed(q, raw, s) \in Seq(Item) /\ Len(Renewed(q, raw, s)) = Len(raw)
<1>1. Len(raw) \in Nat
  BY LenProperties
<1>2. \A k \in 1..Len(raw) : raw[k] \in Item
  BY ElementOfSeq
<1>3. \A k \in 1..Len(raw) : [raw[k] EXCEPT !.id = <<s, k>>] \in Item
  <2> SUFFICES ASSUME NEW k \in 1..Len(raw)
               PROVE  [raw[k] EXCEPT !.id = <<s, k>>] \in Item
    OBVIOUS
  <2>1. raw[k] \in Item /\ <<s, k>> \in Id
    BY <1>1, <1>2 DEF Id
  <2> QED BY <2>1 DEF Item
<1>4. Renewed(q, raw, s) \in [1..Len(raw) -> Item]
  BY <1>2, <1>3 DEF Renewed
<1> QED BY <1>1, <1>4, SeqDef

\* replace_items keeps the halt.
LEMMA ReplaceType ==
  ASSUME NEW q \in Entry, NEW raw \in Seq(Item), NEW s \in Nat
  PROVE  /\ ReplaceItems(q, raw, s) \in Entry
         /\ ReplaceItems(q, raw, s).items = Renewed(q, raw, s)
         /\ Len(ReplaceItems(q, raw, s).items) = Len(raw)
         /\ ReplaceItems(q, raw, s).halted = q.halted
<1>1. Renewed(q, raw, s) \in Seq(Item) /\ Len(Renewed(q, raw, s)) = Len(raw)
  BY RenewedType
<1>2. [present |-> TRUE, revision |-> q.revision + 1,
       items |-> Renewed(q, raw, s), halted |-> q.halted] \in Entry
  BY <1>1 DEF Entry
<1> QED BY <1>1, <1>2, PruneType DEF ReplaceItems

\* remove_item_by_id never lengthens the list and keeps the halt.
LEMMA RemoveType ==
  ASSUME NEW q \in Entry, NEW id
  PROVE  /\ RemoveItemById(q, id) \in Entry
         /\ Len(RemoveItemById(q, id).items) <= Len(q.items)
         /\ RemoveItemById(q, id).halted = q.halted
<1>0. q.items \in Seq(Item) /\ Len(q.items) \in Nat
  BY LenProperties DEF Entry
<1>1. CASE id \notin IdSet(q.items)
  BY <1>0, <1>1 DEF RemoveItemById
<1>2. CASE id \in IdSet(q.items)
  <2> DEFINE w == WithoutId(q.items, id)
             r == [q EXCEPT !.revision = @ + 1, !.items = w]
  <2>1. PositionOf(q.items, id) \in 1..Len(q.items)
    BY <1>2 DEF IdSet, PositionOf
  <2>2. w \in Seq(Item) /\ Len(w) = Len(q.items) - 1
    BY <1>0, <2>1, DropAtType DEF WithoutId
  <2>4. RemoveItemById(q, id) = PruneIfEmpty(r)
    BY <1>2 DEF RemoveItemById
  <2> HIDE DEF w
  <2>5. q \in [present : BOOLEAN, revision : Nat, items : Seq(Item), halted : Id]
        /\ q.revision + 1 \in Nat
    BY DEF Entry
  <2>3. r \in Entry /\ r.items = w /\ r.halted = q.halted
    BY <2>2, <2>5 DEF Entry
  <2> HIDE DEF r
  <2>6. /\ PruneIfEmpty(r) \in Entry
        /\ PruneIfEmpty(r).items = r.items
        /\ PruneIfEmpty(r).halted = r.halted
    BY <2>3, PruneType
  <2> QED BY <1>0, <2>2, <2>3, <2>4, <2>6
<1> QED BY <1>1, <1>2

\* set_halted keeps the list.
LEMMA SetHaltedType ==
  ASSUME NEW q \in Entry, NEW id \in Id
  PROVE  /\ SetHalted(q, id) \in Entry
         /\ SetHalted(q, id).items = q.items
         /\ SetHalted(q, id).halted = id
  BY DEF SetHalted, Entry

-----------------------------------------------------------------------------
(* Types *)

\* A coroutine that is not idle has a session and an item; a new phase keeps
\* them.
LEMMA RunningAdvance ==
  ASSUME NEW a \in Advance, a.phase # "idle"
  PROVE  /\ a.phase \in Phase /\ a.name \in Names /\ a.item \in Item
         /\ a.item.id \in Id
         /\ \A p \in Phase : [a EXCEPT !.phase = p] \in Advance
<1>1. a \in [phase : Phase, name : Names, item : Item]
  BY DEF Advance
<1> QED BY <1>1 DEF Advance, Item

\* An item at the head of a queue.
LEMMA HeadType ==
  ASSUME NEW q \in Entry, q.items # <<>>
  PROVE  Head(q.items) \in Item
  BY HeadTailProperties DEF Entry

\* The initial state is well typed.
LEMMA TypeInit == Init => TypeOK
<1> SUFFICES ASSUME Init PROVE TypeOK
  OBVIOUS
<1>1. queue \in [Names -> Entry] /\ \A n \in Names : Len(queue[n].items) <= MaxFollowups
  BY EmptyQueueIsEntry, EmptySeq DEF Init
<1>2. advance \in [Bells -> Advance]
  BY DEF Init, Idle, Advance
<1>3. panel \in [Clients -> Panel] /\ request \in [Clients -> Request]
  BY DEF Init, Panel, Request, Quiet
<1>4. poll \in [held : BOOLEAN, names : SUBSET Names]
  BY DEF Init, NoNames
<1>5. viewing \in [Clients -> Names \cup {NoSession}] /\ stamp \in 1..MaxStamp
  BY DEF Init
<1> QED BY <1>1, <1>2, <1>3, <1>4, <1>5 DEF Init, TypeOK

\* Every step keeps the types.
LEMMA TypeNext == TypeOK /\ [Next]_vars => TypeOK'
<1> SUFFICES ASSUME TypeOK, [Next]_vars PROVE TypeOK'
  OBVIOUS
<1> USE DEF serverVars, worldVars, clientVars, historyVars
<1>0. \A n \in Names : queue[n] \in Entry /\ queue[n].items \in Seq(Item)
                        /\ Len(queue[n].items) \in Nat
  BY LenProperties DEF TypeOK, Entry
<1>1. ASSUME NEW n \in Names, AppendFollowup(n) PROVE TypeOK'
  <2> DEFINE item == [id |-> <<stamp, 1>>, intent |-> stamp]
  <2>1. item \in Item /\ stamp + 1 \in 1..MaxStamp
    BY <1>1 DEF AppendFollowup, TypeOK, Item, Id
  <2>2. queue' = [queue EXCEPT ![n] = AppendItem(queue[n], item)]
    BY <1>1 DEF AppendFollowup
  <2> HIDE DEF item
  <2>3. AppendItem(queue[n], item) \in Entry
        /\ Len(AppendItem(queue[n], item).items) = Len(queue[n].items) + 1
    BY <1>0, <2>1, AppendType
  <2>4. Len(queue[n].items) + 1 <= MaxFollowups
    BY <1>0, <1>1 DEF AppendFollowup, HasRoom
  <2>5. queue' \in [Names -> Entry] /\ \A m \in Names : Len(queue'[m].items) <= MaxFollowups
    BY <2>2, <2>3, <2>4 DEF TypeOK
  <2> QED BY <1>1, <2>1, <2>5 DEF AppendFollowup, TypeOK
<1>2. ASSUME NEW n \in Names, ClearFollowups(n) PROVE TypeOK'
  BY <1>2, EmptyQueueIsEntry, EmptySeq DEF ClearFollowups, TypeOK
<1>3. ASSUME NEW n \in Names, ResumeFollowups(n) PROVE TypeOK'
  <2>1. ResumeQueue(queue[n]) \in Entry /\ ResumeQueue(queue[n]).items = queue[n].items
    BY <1>0 DEF ResumeQueue, Entry, Id, NoItem
  <2> QED BY <1>3, <2>1 DEF ResumeFollowups, TypeOK
<1>5. ASSUME NEW b \in Bells, NEW n \in Names, BeginAdvance(b, n) PROVE TypeOK'
  <2>1. Head(queue[n].items) \in Item
    BY <1>0, <1>5, HeadType DEF BeginAdvance, AcceptanceOk, Ready
  <2>2. advance' \in [Bells -> Advance]
    BY <1>5, <2>1 DEF BeginAdvance, TypeOK, Advance, Phase
  <2> QED BY <1>5, <2>2 DEF BeginAdvance, TypeOK
<1>7. ASSUME NEW b \in Bells, TypeText(b) PROVE TypeOK'
  <2>1. advance[b] \in Advance /\ advance[b].phase # "idle"
    BY <1>7 DEF TypeText, TypeOK
  <2>2. PICK p \in Phase : advance' = [advance EXCEPT ![b].phase = p]
    BY <1>7 DEF TypeText, Phase
  <2>3. /\ [advance[b] EXCEPT !.phase = p] \in Advance
        /\ advance[b].item \in Item /\ advance[b].item.id \in Id
    BY <2>1, RunningAdvance
  <2>4. advance' \in [Bells -> Advance]
    BY <2>2, <2>3 DEF TypeOK
  <2>5. typed' \subseteq Item
    BY <1>7, <2>3 DEF TypeText, TypeOK
  <2> QED BY <1>7, <2>4, <2>5 DEF TypeText, TypeOK
<1>8. ASSUME NEW b \in Bells, TypeEnter(b) PROVE TypeOK'
  <2>1. advance[b] \in Advance /\ advance[b].phase # "idle"
    BY <1>8 DEF TypeEnter, TypeOK
  <2>2. PICK p \in Phase : advance' = [advance EXCEPT ![b].phase = p]
    BY <1>8 DEF TypeEnter, Phase
  <2>3. /\ [advance[b] EXCEPT !.phase = p] \in Advance
        /\ advance[b].item \in Item /\ advance[b].item.id \in Id
    BY <2>1, RunningAdvance
  <2>4. advance' \in [Bells -> Advance]
    BY <2>2, <2>3 DEF TypeOK
  <2>5. torn' \subseteq Id
    BY <1>8, <2>3 DEF TypeEnter, TypeOK
  <2> QED BY <1>8, <2>4, <2>5 DEF TypeEnter, TypeOK
<1>9. ASSUME NEW b \in Bells, FinishAdvance(b) PROVE TypeOK'
  <2> DEFINE n == advance[b].name
             q == Outcome(queue[n], advance[b])
  <2>1. advance[b] \in Advance /\ advance[b].phase # "idle"
    BY <1>9 DEF FinishAdvance, TypeOK
  <2>2. n \in Names /\ advance[b].item.id \in Id
    BY <2>1, RunningAdvance
  <2>3. q \in Entry /\ Len(q.items) <= Len(queue[n].items)
    <3>1. CASE q = queue[n]
      BY <1>0, <2>2, <3>1
    <3>2. CASE q = RemoveItemById(queue[n], advance[b].item.id)
      BY <1>0, <2>2, <3>2, RemoveType
    <3>3. CASE q = SetHalted(queue[n], advance[b].item.id)
      BY <1>0, <2>2, <3>3, SetHaltedType
    <3> QED BY <3>1, <3>2, <3>3 DEF Outcome
  <2>4. queue' = [queue EXCEPT ![n] = q] /\ sending' \subseteq sending
    BY <1>9 DEF FinishAdvance, MarkersAfter
  <2> HIDE DEF q
  <2>5. Len(q.items) <= MaxFollowups
    BY <1>0, <2>2, <2>3, LenProperties DEF TypeOK, Entry
  <2>6. queue' \in [Names -> Entry] /\ \A m \in Names : Len(queue'[m].items) <= MaxFollowups
    BY <2>2, <2>3, <2>4, <2>5 DEF TypeOK
  <2>7. advance' \in [Bells -> Advance]
    BY <1>9 DEF FinishAdvance, TypeOK, Idle, Advance
  <2> QED BY <1>9, <2>4, <2>6, <2>7 DEF FinishAdvance, TypeOK
<1>11. CASE PollEnumerate
  BY <1>11 DEF PollEnumerate, TypeOK
<1>12. CASE PollApply
  <2>1. Reaped(queue) \in [Names -> Entry]
        /\ \A m \in Names : Len(Reaped(queue)[m].items) <= MaxFollowups
    BY EmptyQueueIsEntry, EmptySeq DEF Reaped, TypeOK
  <2> QED BY <1>12, <2>1 DEF PollApply, TypeOK, NoNames
<1>13. ASSUME NEW c \in Clients, NEW n \in Names, OpenSession(c, n) PROVE TypeOK'
  BY <1>13 DEF OpenSession, TypeOK
<1>14. ASSUME NEW c \in Clients, Fetch(c) PROVE panel' \in [Clients -> Panel]
  <2>1. \A n \in Names : PanelOf(n) \in Panel
    BY <1>0 DEF PanelOf, Panel, Snapshot, Entry
  <2>2. CanFetch(c) => viewing[c] \in Names
    BY DEF CanFetch, TypeOK
  <2> QED BY <1>14, <2>1, <2>2 DEF Fetch, TypeOK, Panel
<1>15. ASSUME NEW c \in Clients, Refresh(c) PROVE TypeOK'
  BY <1>14, <1>15 DEF Refresh, TypeOK
<1>16. ASSUME NEW c \in Clients, NEW items \in Seq(Item), NEW r \in BOOLEAN,
              StartPut(c, items, r)
       PROVE  request' \in [Clients -> Request]
  <2>1. panel[c] \in Snapshot
    BY <1>16 DEF StartPut, TypeOK, Panel
  <2>2. panel[c].session \in Names /\ panel[c].revision \in Nat
    BY <2>1 DEF Snapshot
  <2> QED BY <1>16, <2>2 DEF StartPut, TypeOK, Request
<1>17. ASSUME NEW c \in Clients, EditPanel(c) PROVE TypeOK'
  <2>1. PICK items \in Edits(panel[c].items) : StartPut(c, items, FALSE)
    BY <1>17 DEF EditPanel
  <2>2. panel[c].items \in Seq(Item)
    BY <1>17 DEF EditPanel, TypeOK, Panel, Snapshot
  <2>3. request' \in [Clients -> Request]
    BY <1>16, <2>1, <2>2, EditsType
  <2> QED BY <1>17, <2>3 DEF EditPanel, TypeOK
<1>18. ASSUME NEW c \in Clients, PutAccepted(c) PROVE TypeOK'
  <2> DEFINE n == request[c].session
             q == ReplaceItems(queue[n], request[c].items, stamp)
  <2>1. n \in Names /\ request[c].items \in Seq(Item) /\ stamp \in Nat
    BY <1>18 DEF PutAccepted, TypeOK, Request
  <2>2. q \in Entry /\ Len(q.items) = Len(request[c].items)
    BY <1>0, <2>1, ReplaceType
  <2>3. Len(q.items) <= MaxFollowups
    BY <1>18, <2>2 DEF PutAccepted
  <2>4. /\ queue' = [queue EXCEPT ![n] = q]
        /\ panel' \in {panel, [panel EXCEPT ![c] =
              [session |-> n, revision |-> q.revision, items |-> q.items]]}
    BY <1>18 DEF PutAccepted
  <2> HIDE DEF q
  <2>5. queue' \in [Names -> Entry] /\ \A m \in Names : Len(queue'[m].items) <= MaxFollowups
    BY <2>1, <2>2, <2>3, <2>4 DEF TypeOK
  <2>6. [session |-> n, revision |-> q.revision, items |-> q.items] \in Panel
    BY <2>1, <2>2 DEF Panel, Snapshot, Entry
  <2>7. panel' \in [Clients -> Panel]
    BY <2>4, <2>6 DEF TypeOK
  <2>8. request' \in [Clients -> Request] /\ stamp' \in 1..MaxStamp
    BY <1>18 DEF PutAccepted, TypeOK, Quiet, Request
  <2> QED BY <1>18, <2>5, <2>7, <2>8 DEF PutAccepted, TypeOK
<1>19. ASSUME NEW c \in Clients, PutRefused(c) PROVE TypeOK'
  <2>1. request[c].items \in Seq(Item)
    BY <1>19 DEF PutRefused, TypeOK, Request
  <2>2. request' \in [Clients -> Request]
    BY <1>19, <2>1 DEF PutRefused, TypeOK, Quiet, Request
  <2> QED BY <1>19, <2>2 DEF PutRefused, TypeOK
<1>20. ASSUME NEW c \in Clients, PutLost(c) PROVE TypeOK'
  BY <1>20 DEF PutLost, TypeOK, Quiet, Request
<1>21. ASSUME NEW c \in Clients, Refetch(c) PROVE TypeOK'
  <2>1. request[c].items \in Seq(Item)
    BY <1>21 DEF Refetch, TypeOK, Request
  <2>2. request' \in [Clients -> Request]
    BY <1>21, <2>1 DEF Refetch, TypeOK, Quiet, Request
  <2> QED BY <1>14, <1>21, <2>2 DEF Refetch, TypeOK
<1>22. ASSUME NEW c \in Clients, PutAgain(c) PROVE TypeOK'
  <2>1. request[c].items \in Seq(Item)
    BY <1>22 DEF PutAgain, TypeOK, Request
  <2>2. request' \in [Clients -> Request]
    BY <1>16, <1>22, <2>1 DEF PutAgain
  <2> QED BY <1>22, <2>2 DEF PutAgain, TypeOK
<1>23. ASSUME NEW c \in Clients, PutAgainDropped(c) PROVE TypeOK'
  BY <1>23 DEF PutAgainDropped, TypeOK, Quiet, Request
<1>25. CASE Restart
  <2>1. \A b \in Bells : advance[b].phase \in {"enter", "sent"} => advance[b].item.id \in Id
    BY RunningAdvance DEF TypeOK
  <2>2. advance' \in [Bells -> Advance]
    BY <1>25 DEF Restart, Idle, Advance
  <2>3. torn' \subseteq Id
    BY <1>25, <2>1 DEF Restart, TypeOK
  <2>4. poll' \in [held : BOOLEAN, names : SUBSET Names]
    BY <1>25 DEF Restart, NoNames
  <2> QED BY <1>25, <2>2, <2>3, <2>4 DEF Restart, TypeOK
<1>26. CASE UNCHANGED vars
  BY <1>26 DEF vars, TypeOK
<1> QED
  BY <1>1, <1>2, <1>3, <1>5, <1>7, <1>8, <1>9, <1>11, <1>12, <1>13,
     <1>15, <1>17, <1>18, <1>19, <1>20, <1>21, <1>22, <1>23, <1>25, <1>26
  DEF Next, HandlerStep, AdvanceStep, PollStep, ClientStep

\* The queue, the coroutines and the panels keep their shapes, and no queue
\* grows beyond MAX_FOLLOWUPS: append_followup checks the capacity under the
\* lock, replace_followups checks what it was sent.
THEOREM TypeCorrect == Spec => []TypeOK
  BY TypeInit, TypeNext, PTL DEF Spec

-----------------------------------------------------------------------------
(* One send at a time *)

\* Only four operations touch the coroutines and the markers.
LEMMA FlightStep ==
  ASSUME Next
  PROVE  \/ \E b \in Bells, n \in Names : BeginAdvance(b, n)
         \/ \E b \in Bells : TypeText(b) \/ TypeEnter(b)
         \/ \E b \in Bells : FinishAdvance(b)
         \/ Restart
         \/ UNCHANGED <<advance, sending>>
BY DEF Next, HandlerStep, AdvanceStep, PollStep, ClientStep, serverVars,
       AppendFollowup, ClearFollowups, ResumeFollowups, PollEnumerate,
       PollApply, OpenSession, Refresh, EditPanel, PutAccepted, PutRefused,
       PutLost, Refetch, PutAgain, PutAgainDropped

\* Every step keeps the marker in step with the coroutines.
LEMMA SingleFlightNext == TypeOK /\ SingleFlight /\ [Next]_vars => SingleFlight'
<1> SUFFICES ASSUME TypeOK, SingleFlight, [Next]_vars PROVE SingleFlight'
  OBVIOUS
<1>0. advance \in [Bells -> Advance]
  BY DEF TypeOK
<1>1. ASSUME NEW b \in Bells, NEW n \in Names, BeginAdvance(b, n) PROVE SingleFlight'
  <2>1. n \notin sending /\ sending' = sending \cup {n} /\ ~Running(b)
    BY <1>1 DEF BeginAdvance, AcceptanceOk
  <2>2. /\ advance'[b].phase # "idle" /\ advance'[b].name = n
        /\ \A x \in Bells \ {b} : advance'[x] = advance[x]
    BY <1>0, <1>1 DEF BeginAdvance
  <2> QED BY <2>1, <2>2 DEF SingleFlight, Running
<1>2. ASSUME NEW b \in Bells, TypeText(b) \/ TypeEnter(b) PROVE SingleFlight'
  <2>1. sending' = sending /\ Running(b)
    BY <1>2 DEF TypeText, TypeEnter, Running
  <2>2. PICK p \in Phase : advance' = [advance EXCEPT ![b].phase = p]
    BY <1>2 DEF TypeText, TypeEnter, Phase
  <2>3. advance[b] \in [phase : Phase, name : Names, item : Item]
    BY <1>0, <2>1 DEF Running, Advance
  <2>4. /\ advance'[b].phase # "idle" /\ advance'[b].name = advance[b].name
        /\ \A x \in Bells \ {b} : advance'[x] = advance[x]
    BY <1>0, <2>2, <2>3 DEF Phase
  <2> QED BY <2>1, <2>4 DEF SingleFlight, Running
<1>3. ASSUME NEW b \in Bells, FinishAdvance(b) PROVE SingleFlight'
  <2>1. sending' = sending \ {advance[b].name} /\ Running(b)
    BY <1>3 DEF FinishAdvance, MarkersAfter, Running
  <2>2. /\ advance'[b].phase = "idle"
        /\ \A x \in Bells \ {b} : advance'[x] = advance[x]
    BY <1>0, <1>3 DEF FinishAdvance, Idle
  <2> QED BY <2>1, <2>2 DEF SingleFlight, Running
<1>4. CASE Restart
  BY <1>4 DEF Restart, SingleFlight, Running, Idle
<1>5. CASE UNCHANGED <<advance, sending>>
  BY <1>5 DEF SingleFlight, Running
<1>6. CASE UNCHANGED vars
  BY <1>5, <1>6 DEF vars, serverVars
<1> QED BY <1>1, <1>2, <1>3, <1>4, <1>5, <1>6, FlightStep

\* The in-flight marker excludes: for any number of bells at once, one session
\* has one send, and its marker stands exactly as long as that send.
THEOREM OneSendPerSession == Spec => []SingleFlight
<1>1. Init => SingleFlight
  BY DEF Init, SingleFlight, Running, Idle
<1> QED BY <1>1, TypeCorrect, SingleFlightNext, PTL DEF Spec

-----------------------------------------------------------------------------
(* A halted queue sends nothing *)

\* Every step keeps a halted queue quiet.
LEMMA HaltedNext == TypeOK /\ HaltedIsQuiet /\ [Next]_vars => HaltedIsQuiet'
<1> SUFFICES ASSUME TypeOK, HaltedIsQuiet, [Next]_vars,
                    NEW m \in Names, queue'[m].halted # NoItem
             PROVE  m \notin sending'
  BY DEF HaltedIsQuiet
<1> USE DEF serverVars, worldVars, clientVars, historyVars
<1>0. queue \in [Names -> Entry]
  BY DEF TypeOK
<1>1. ASSUME sending' \subseteq sending, queue'[m].halted = queue[m].halted
      PROVE  m \notin sending'
  BY <1>1 DEF HaltedIsQuiet
<1>2. ASSUME NEW n \in Names, AppendFollowup(n) PROVE m \notin sending'
  <2>1. PICK item : queue' = [queue EXCEPT ![n] = AppendItem(queue[n], item)]
    BY <1>2 DEF AppendFollowup
  <2>2. AppendItem(queue[n], item).halted = queue[n].halted
    BY <1>0 DEF AppendItem, Entry
  <2> QED BY <1>0, <1>1, <1>2, <2>1, <2>2 DEF AppendFollowup
<1>3. ASSUME NEW n \in Names, ClearFollowups(n) \/ ResumeFollowups(n) PROVE m \notin sending'
  <2>1. n # m
    BY <1>0, <1>3 DEF ClearFollowups, ResumeFollowups, EmptyQueue, ResumeQueue, Entry
  <2> QED BY <1>0, <1>1, <1>3, <2>1 DEF ClearFollowups, ResumeFollowups
<1>4. ASSUME NEW b \in Bells, NEW n \in Names, BeginAdvance(b, n) PROVE m \notin sending'
  BY <1>4 DEF BeginAdvance, AcceptanceOk, Ready, HaltedIsQuiet
<1>5. ASSUME NEW b \in Bells, FinishAdvance(b) PROVE m \notin sending'
  BY <1>0, <1>1, <1>5 DEF FinishAdvance, MarkersAfter
<1>6. CASE PollApply
  <2>1. queue'[m] = queue[m]
    BY <1>0, <1>6 DEF PollApply, Reaped, EmptyQueue
  <2> QED BY <1>1, <1>6, <2>1 DEF PollApply
<1>7. ASSUME NEW c \in Clients, PutAccepted(c) PROVE m \notin sending'
  <2> DEFINE n == request[c].session
             q == ReplaceItems(queue[n], request[c].items, stamp)
  <2>1. n \in Names /\ request[c].items \in Seq(Item) /\ stamp \in Nat
    BY <1>7 DEF PutAccepted, TypeOK, Request
  <2>2. q.halted = queue[n].halted
    BY <1>0, <2>1, ReplaceType
  <2>3. queue' = [queue EXCEPT ![n] = q] /\ sending' = sending
    BY <1>7 DEF PutAccepted
  <2> HIDE DEF q
  <2> QED BY <1>0, <1>1, <2>1, <2>2, <2>3
<1>8. CASE Restart
  BY <1>8 DEF Restart
<1>9. CASE UNCHANGED <<queue, sending>>
  BY <1>1, <1>9
<1>10. ASSUME NEW b \in Bells, TypeText(b) \/ TypeEnter(b) PROVE m \notin sending'
  BY <1>9, <1>10 DEF TypeText, TypeEnter
<1>11. CASE UNCHANGED vars
  BY <1>9, <1>11 DEF vars
<1>12. CASE PollEnumerate
  BY <1>9, <1>12 DEF PollEnumerate
<1>13. CASE \E c \in Clients :
             \/ \E n \in Names : OpenSession(c, n)
             \/ Refresh(c) \/ EditPanel(c) \/ PutRefused(c) \/ PutLost(c)
             \/ Refetch(c) \/ PutAgain(c) \/ PutAgainDropped(c)
  BY <1>9, <1>13 DEF OpenSession, Refresh, EditPanel, PutRefused, PutLost, Refetch,
                     PutAgain, PutAgainDropped
<1> QED
  BY <1>2, <1>3, <1>4, <1>5, <1>6, <1>7, <1>8, <1>10, <1>11, <1>12, <1>13
  DEF Next, HandlerStep, AdvanceStep, PollStep, ClientStep

\* acceptance_ok keeps a halted queue still, and set_halted is the last thing
\* a send does: no bell, tab or poll starts a send for a halted session.
THEOREM HaltStopsSends == Spec => []HaltedIsQuiet
<1>1. Init => HaltedIsQuiet
  BY DEF Init, HaltedIsQuiet
<1> QED BY <1>1, TypeCorrect, HaltedNext, PTL DEF Spec

-----------------------------------------------------------------------------
(* An id is one item, in one place *)

Distinct(s) == \A j, k \in 1..Len(s) : s[j].id = s[k].id => j = k

\* Dropping a position takes away that item and no other.
LEMMA DropAtKeeps ==
  ASSUME NEW items \in Seq(Item), Distinct(items), NEW k \in 1..Len(items)
  PROVE  /\ Distinct(DropAt(items, k))
         /\ ItemSet(DropAt(items, k)) = ItemSet(items) \ {items[k]}
<1> DEFINE d == DropAt(items, k)
<1>0. Len(items) \in Nat /\ Len(d) = Len(items) - 1
  BY LenProperties, DropAtType
<1>1. \A i \in 1..Len(d) : d[i] = IF i < k THEN items[i] ELSE items[i + 1]
  BY <1>0 DEF DropAt
<1> HIDE DEF d
<1>2. Distinct(d)
  BY <1>0, <1>1 DEF Distinct
<1>3. ASSUME NEW x \in ItemSet(d) PROVE x \in ItemSet(items) \ {items[k]}
  <2>1. PICK i \in 1..Len(d) : x = d[i]
    BY DEF ItemSet
  <2>2. PICK j \in 1..Len(items) : x = items[j] /\ j # k
    BY <1>0, <1>1, <2>1
  <2> QED BY <2>2 DEF Distinct, ItemSet
<1>4. ASSUME NEW x \in ItemSet(items), x # items[k] PROVE x \in ItemSet(d)
  <2>1. PICK j \in 1..Len(items) : x = items[j] /\ j # k
    BY <1>4 DEF ItemSet
  <2>2. CASE j < k
    BY <1>0, <1>1, <2>1, <2>2 DEF ItemSet
  <2>3. CASE j > k
    <3>1. j - 1 \in 1..Len(d) /\ d[j - 1] = items[j]
      BY <1>0, <1>1, <2>1, <2>3
    <3> QED BY <2>1, <3>1 DEF ItemSet
  <2> QED BY <1>0, <2>1, <2>2, <2>3
<1> QED BY <1>2, <1>3, <1>4 DEF d

\* An edited list has no item the list it was made from had not.
LEMMA EditsKeep ==
  ASSUME NEW items \in Seq(Item), Distinct(items), NEW e \in Edits(items)
  PROVE  Distinct(e) /\ ItemSet(e) \subseteq ItemSet(items)
<1>0. Len(items) \in Nat
  BY LenProperties
<1>1. CASE e = items
  BY <1>1
<1>2. ASSUME NEW k \in 1..Len(items), e = DropAt(items, k)
      PROVE  Distinct(e) /\ ItemSet(e) \subseteq ItemSet(items)
  BY <1>2, DropAtKeeps
<1>3. ASSUME NEW k \in 1..(Len(items) - 1),
             e = [items EXCEPT ![k] = items[k + 1], ![k + 1] = items[k]]
      PROVE  Distinct(e) /\ ItemSet(e) \subseteq ItemSet(items)
  <2>1. k \in 1..Len(items) /\ k + 1 \in 1..Len(items) /\ k # k + 1
    BY <1>0, <1>3
  <2>2. items \in [1..Len(items) -> Item]
    BY LenProperties
  <2>3. Len(e) = Len(items)
    <3>1. e \in [1..Len(items) -> Item]
      BY <1>3, <2>1, <2>2
    <3> QED BY <1>0, <3>1, IsASeq, LenProperties
  <2>4. \A i \in 1..Len(items) :
          e[i] = IF i = k + 1 THEN items[k] ELSE IF i = k THEN items[k + 1] ELSE items[i]
    BY <1>3, <2>1, <2>2
  <2>5. Distinct(e)
    BY <1>0, <2>1, <2>3, <2>4 DEF Distinct
  <2>6. ItemSet(e) \subseteq ItemSet(items)
    BY <1>0, <2>1, <2>3, <2>4 DEF ItemSet
  <2> QED BY <2>5, <2>6
<1> QED BY <1>1, <1>2, <1>3 DEF Edits

\* The items a request with number s may make.
Made(s) == {x \in Item : x.id \in {s} \X (1..MaxFollowups)}

\* append_item adds the item it was given.
LEMMA AppendKeeps ==
  ASSUME NEW items \in Seq(Item), Distinct(items), NEW item \in Item,
         \A x \in ItemSet(items) : x.id # item.id
  PROVE  /\ Distinct(Append(items, item))
         /\ ItemSet(Append(items, item)) = ItemSet(items) \cup {item}
<1> DEFINE a == Append(items, item)
<1>1. Len(items) \in Nat /\ Len(a) = Len(items) + 1 /\ a[Len(items) + 1] = item
      /\ \A k \in 1..Len(items) : a[k] = items[k]
  BY LenProperties, AppendProperties
<1> HIDE DEF a
<1>2. Distinct(a)
  BY <1>1 DEF Distinct, ItemSet
<1>3. ItemSet(a) = ItemSet(items) \cup {item}
  BY <1>1 DEF ItemSet
<1> QED BY <1>2, <1>3 DEF a

\* What replace_items stores is new, or was in the queue and in what was sent.
LEMMA RenewedKeeps ==
  ASSUME NEW q \in Entry, NEW raw \in Seq(Item), Distinct(raw), Len(raw) <= MaxFollowups,
         NEW s \in Nat, \A x \in ItemSet(raw) : x.id[1] < s
  PROVE  /\ Distinct(Renewed(q, raw, s))
         /\ \A x \in ItemSet(Renewed(q, raw, s)) :
              x \in Made(s) \/ (x \in ItemSet(raw) /\ x.id \in IdSet(q.items))
<1> DEFINE r == Renewed(q, raw, s)
<1>0. Len(raw) \in Nat /\ r \in Seq(Item) /\ Len(r) = Len(raw)
  BY LenProperties, RenewedType
<1>1. ASSUME NEW k \in 1..Len(raw)
      PROVE  /\ raw[k] \in Item /\ raw[k].id[1] < s /\ r[k] \in Item
             /\ \/ r[k] = raw[k] /\ raw[k].id \in IdSet(q.items)
                \/ r[k].id = <<s, k>>
  <2>1. raw[k] \in Item /\ r[k] \in Item
    BY <1>0, ElementOfSeq
  <2>2. r[k] = IF raw[k].id \in IdSet(q.items) THEN raw[k] ELSE [raw[k] EXCEPT !.id = <<s, k>>]
    BY DEF Renewed
  <2>3. raw[k] \in ItemSet(raw)
    BY DEF ItemSet
  <2> QED BY <2>1, <2>2, <2>3 DEF Item
<1> HIDE DEF r
<1>2. \A k \in 1..Len(raw) : k \in 1..MaxFollowups
  BY <1>0
<1>3. Distinct(r)
  <2> SUFFICES ASSUME NEW j \in 1..Len(raw), NEW k \in 1..Len(raw), r[j].id = r[k].id
               PROVE  j = k
    BY <1>0 DEF Distinct
  <2>1. raw[j].id = raw[k].id => j = k
    BY DEF Distinct
  <2>2. <<s, j>>[1] = s /\ <<s, k>>[1] = s /\ (<<s, j>> = <<s, k>> => j = k)
    OBVIOUS
  <2>3. raw[j].id[1] # s /\ raw[k].id[1] # s
    <3>1. raw[j].id[1] \in Nat /\ raw[k].id[1] \in Nat
      BY <1>1 DEF Item, Id
    <3> QED BY <1>1, <3>1
  <2>4. \/ r[j] = raw[j]
        \/ r[j].id = <<s, j>>
    BY <1>1
  <2>5. \/ r[k] = raw[k]
        \/ r[k].id = <<s, k>>
    BY <1>1
  <2> QED BY <2>1, <2>2, <2>3, <2>4, <2>5
<1>4. ASSUME NEW x \in ItemSet(r)
      PROVE  x \in Made(s) \/ (x \in ItemSet(raw) /\ x.id \in IdSet(q.items))
  <2>1. PICK k \in 1..Len(raw) : x = r[k]
    BY <1>0 DEF ItemSet
  <2>2. CASE r[k] = raw[k] /\ raw[k].id \in IdSet(q.items)
    BY <2>1, <2>2 DEF ItemSet
  <2>3. CASE r[k].id = <<s, k>>
    BY <1>1, <1>2, <2>1, <2>3 DEF Made
  <2> QED BY <1>1, <2>2, <2>3
<1> QED BY <1>3, <1>4 DEF r

\* remove_item_by_id takes away the item with that id and no other.
LEMMA RemoveKeeps ==
  ASSUME NEW q \in Entry, Distinct(q.items), NEW id
  PROVE  /\ Distinct(RemoveItemById(q, id).items)
         /\ ItemSet(RemoveItemById(q, id).items) = {x \in ItemSet(q.items) : x.id # id}
<1>0. q.items \in Seq(Item)
  BY DEF Entry
<1>1. CASE id \notin IdSet(q.items)
  BY <1>1 DEF RemoveItemById, IdSet, ItemSet
<1>2. CASE id \in IdSet(q.items)
  <2> DEFINE k == PositionOf(q.items, id)
             w == DropAt(q.items, k)
             r == [q EXCEPT !.revision = @ + 1, !.items = w]
  <2>1. k \in 1..Len(q.items) /\ q.items[k].id = id
    BY <1>2 DEF IdSet, PositionOf
  <2>2. Distinct(w) /\ ItemSet(w) = ItemSet(q.items) \ {q.items[k]} /\ w \in Seq(Item)
    BY <1>0, <2>1, DropAtKeeps, DropAtType
  <2>3. \A x \in ItemSet(q.items) : x.id = id => x = q.items[k]
    BY <2>1 DEF ItemSet, Distinct
  <2>4. RemoveItemById(q, id) = PruneIfEmpty(r)
    BY <1>2 DEF RemoveItemById, WithoutId
  <2> HIDE DEF k, w
  <2>7. q \in [present : BOOLEAN, revision : Nat, items : Seq(Item), halted : Id]
        /\ q.revision + 1 \in Nat
    BY DEF Entry
  <2>5. r \in Entry /\ r.items = w
    BY <2>2, <2>7 DEF Entry
  <2> HIDE DEF r
  <2>6. RemoveItemById(q, id).items = w
    BY <2>4, <2>5, PruneType
  <2> QED BY <2>1, <2>2, <2>3, <2>6
<1> QED BY <1>1, <1>2

\* The lists of items there are, and every item in them, in a send or typed.
Shown == {c \in Clients : panel[c] # NoPanel}
Sent == {c \in Clients : request[c] # Quiet}
Lists == {queue[n].items : n \in Names} \cup {panel[c].items : c \in Shown}
                                        \cup {request[c].items : c \in Sent}
Held == (UNION {ItemSet(s) : s \in Lists})
        \cup {advance[b].item : b \in {x \in Bells : Running(x)}} \cup typed

\* A tab may bring back only what a queue has had: the ids are of requests that
\* were, an id is one item, and a list has it once.
Known ==
  /\ \A x \in Held : x \in Item /\ x.id \in (1..(stamp - 1)) \X (1..MaxFollowups)
  /\ \A x, y \in Held : x.id = y.id => x = y
  /\ \A s \in Lists : Distinct(s)

\* A step makes no list but of what was held, or one with what it makes itself.
Derived(s) == Distinct(s) /\ ItemSet(s) \subseteq Held
MadeFrom(s) ==
  /\ s \in Seq(Item) /\ Distinct(s)
  /\ \A x \in ItemSet(s) : x \in Held \/ x \in Made(stamp)

\* What the type invariant says of the lists.
LEMMA ListTypes ==
  ASSUME TypeOK
  PROVE  /\ Lists \subseteq Seq(Item) /\ stamp \in Nat \ {0}
         /\ \A n \in Names : queue[n] \in Entry /\ queue[n].items \in Lists
         /\ \A c \in Clients : panel[c] # NoPanel => panel[c].items \in Lists
                                                     /\ panel[c].session \in Names
         /\ \A c \in Clients : request[c] # Quiet => request[c].items \in Lists
<1>1. \A n \in Names : queue[n] \in Entry /\ queue[n].items \in Seq(Item)
  BY DEF TypeOK, Entry
<1>2. \A c \in Shown : panel[c] \in Snapshot /\ panel[c].items \in Seq(Item)
                       /\ panel[c].session \in Names
  BY DEF TypeOK, Panel, Snapshot, Shown
<1>3. \A c \in Sent : request[c].items \in Seq(Item)
  <2> SUFFICES ASSUME NEW c \in Clients, request[c] # Quiet PROVE request[c].items \in Seq(Item)
    BY DEF Sent
  <2>1. request[c] \in Request
    BY DEF TypeOK
  <2>2. request[c] \notin [stage : {"quiet"}]
    BY DEF Quiet
  <2> QED BY <2>1, <2>2 DEF Request
<1> QED BY <1>1, <1>2, <1>3 DEF Lists, TypeOK, Shown, Sent

\* Every item of a list is held, and every list is distinct.
LEMMA ListsAreDerived == Known => \A s \in Lists : Derived(s)
  BY DEF Known, Derived, Held

\* Steps that change no list but those named.
LEMMA ListsNext ==
  ASSUME TypeOK, Known, Next
  PROVE  \/ stamp' = stamp /\ \A s \in Lists' : Derived(s)
         \/ /\ stamp' = stamp + 1
            /\ \E new : MadeFrom(new) /\ \A s \in Lists' : s = new \/ Derived(s)
<1> USE DEF serverVars, worldVars, clientVars, historyVars
<1>0. /\ \A s \in Lists : Derived(s) /\ s \in Seq(Item)
      /\ queue \in [Names -> Entry] /\ panel \in [Clients -> Panel] /\ request \in [Clients -> Request]
  BY ListTypes, ListsAreDerived DEF TypeOK
<1>2. Derived(<<>>)
  BY EmptySeq DEF Derived, Distinct, ItemSet
<1>q. ASSUME UNCHANGED <<panel, request>>, stamp' = stamp,
             \A n \in Names : queue'[n].items \in Lists \/ Derived(queue'[n].items)
      PROVE  stamp' = stamp /\ \A s \in Lists' : Derived(s)
  BY <1>0, <1>q, ListTypes DEF Lists, Shown, Sent
<1>r. ASSUME UNCHANGED <<panel, queue>>, stamp' = stamp,
             \A c \in Clients : request'[c] # Quiet => request'[c].items \in Lists \/ Derived(request'[c].items)
      PROVE  stamp' = stamp /\ \A s \in Lists' : Derived(s)
  BY <1>0, <1>r, ListTypes DEF Lists, Shown, Sent
<1>3. ASSUME NEW n \in Names, AppendFollowup(n)
      PROVE  /\ stamp' = stamp + 1
             /\ \E new : MadeFrom(new) /\ \A s \in Lists' : s = new \/ Derived(s)
  <2> DEFINE item == [id |-> <<stamp, 1>>, intent |-> stamp]
             new == Append(queue[n].items, item)
  <2>1. item \in Made(stamp) /\ item \in Item /\ \A x \in Held : x.id # item.id
    <3>1. stamp \in Nat /\ 1 \in 1..MaxFollowups
      BY ListTypes
    <3>2. \A x \in Held : x.id[1] < stamp
      BY <3>1 DEF Known
    <3> QED BY <3>1, <3>2 DEF Made, Item, Id
  <2>2. /\ queue' = [queue EXCEPT ![n] = AppendItem(queue[n], item)]
        /\ stamp' = stamp + 1 /\ UNCHANGED <<panel, request>>
    BY <1>3 DEF AppendFollowup
  <2>3. /\ queue[n].items \in Seq(Item) /\ Distinct(queue[n].items)
        /\ ItemSet(queue[n].items) \subseteq Held
    BY <1>0, ListTypes DEF Derived
  <2> HIDE DEF item
  <2>4. /\ new \in Seq(Item) /\ Distinct(new)
        /\ ItemSet(new) = ItemSet(queue[n].items) \cup {item}
    BY <2>1, <2>3, AppendKeeps, AppendProperties
  <2>5. AppendItem(queue[n], item).items = new
    BY <2>1, AppendType, ListTypes
  <2> HIDE DEF new
  <2>6. MadeFrom(new)
    BY <2>1, <2>3, <2>4 DEF MadeFrom
  <2>7. \A m \in Names : queue'[m].items = new \/ queue'[m].items \in Lists
    BY <1>0, <2>2, <2>5, ListTypes
  <2>8. \A s \in Lists' : s = new \/ s \in Lists
    BY <2>2, <2>7 DEF Lists, Shown, Sent
  <2> QED BY <1>0, <2>2, <2>6, <2>8
<1>4. ASSUME NEW n \in Names, ClearFollowups(n) \/ ResumeFollowups(n)
      PROVE  stamp' = stamp /\ \A s \in Lists' : Derived(s)
  <2>1. /\ UNCHANGED <<panel, request>> /\ stamp' = stamp
        /\ queue' = [queue EXCEPT ![n] = EmptyQueue] \/ queue' = [queue EXCEPT ![n] = ResumeQueue(queue[n])]
    BY <1>4 DEF ClearFollowups, ResumeFollowups
  <2>2. EmptyQueue.items = <<>> /\ ResumeQueue(queue[n]).items = queue[n].items
    BY <1>0 DEF EmptyQueue, ResumeQueue, Entry
  <2> QED BY <1>0, <1>2, <1>q, <2>1, <2>2, ListTypes
<1>5. ASSUME NEW b \in Bells, FinishAdvance(b)
      PROVE  stamp' = stamp /\ \A s \in Lists' : Derived(s)
  <2> DEFINE n == advance[b].name
             id == advance[b].item.id
             q == Outcome(queue[n], advance[b])
  <2>1. /\ UNCHANGED <<panel, request>> /\ stamp' = stamp
        /\ queue' = [queue EXCEPT ![n] = q]
    BY <1>5 DEF FinishAdvance
  <2>2. n \in Names /\ id \in Id
    BY <1>5, RunningAdvance DEF FinishAdvance, TypeOK
  <2>3. /\ queue[n] \in Entry /\ Distinct(queue[n].items)
        /\ ItemSet(queue[n].items) \subseteq Held
    BY <1>0, <2>2, ListTypes DEF Derived
  <2>4. q.items = queue[n].items \/ Derived(q.items)
    <3>1. CASE q = queue[n]
      BY <3>1
    <3>2. CASE q = RemoveItemById(queue[n], id)
      BY <2>3, <3>2, RemoveKeeps DEF Derived
    <3>3. CASE q = SetHalted(queue[n], id)
      BY <2>2, <2>3, <3>3, SetHaltedType
    <3> QED BY <3>1, <3>2, <3>3 DEF Outcome
  <2> HIDE DEF q
  <2>5. \A m \in Names : queue'[m].items \in Lists \/ Derived(queue'[m].items)
    BY <1>0, <2>1, <2>2, <2>4, ListTypes
  <2> QED BY <1>q, <2>1, <2>5
<1>6. CASE PollApply
  <2>1. \A n \in Names : queue'[n].items = queue[n].items \/ queue'[n].items = <<>>
    BY <1>0, <1>6 DEF PollApply, Reaped, EmptyQueue
  <2> QED BY <1>0, <1>2, <1>6, <1>q, <2>1, ListTypes DEF PollApply
<1>7. ASSUME NEW c \in Clients, Fetch(c), queue' = queue,
             \A d \in Clients : request'[d] # Quiet => request'[d].items \in Lists
      PROVE  \A s \in Lists' : Derived(s)
  <2>1. PICK p : panel' = [panel EXCEPT ![c] = p]
                 /\ (p = NoPanel \/ \E n \in Names : p = PanelOf(n))
    <3>1. \A n \in {m \in {viewing[c]} : CanFetch(c)} : n \in Names
      BY DEF CanFetch, TypeOK
    <3> QED BY <1>7, <3>1 DEF Fetch
  <2>2. \A d \in Clients : panel'[d] # NoPanel => panel'[d].items \in Lists
    BY <1>0, <2>1, ListTypes DEF PanelOf
  <2> QED BY <1>0, <1>7, <2>2, ListTypes DEF Lists, Shown, Sent
<1>8. ASSUME NEW c \in Clients, Refresh(c) PROVE stamp' = stamp /\ \A s \in Lists' : Derived(s)
  BY <1>7, <1>8, ListTypes DEF Refresh
<1>9. ASSUME NEW c \in Clients, Refetch(c) PROVE stamp' = stamp /\ \A s \in Lists' : Derived(s)
  <2>1. request[c] # Quiet
    BY <1>9 DEF Refetch, Quiet
  <2>2. \A d \in Clients : request'[d] # Quiet => request'[d].items \in Lists
    BY <1>0, <1>9, <2>1, ListTypes DEF Refetch, Quiet
  <2> QED BY <1>7, <1>9, <2>2 DEF Refetch
<1>10. ASSUME NEW c \in Clients, EditPanel(c) PROVE stamp' = stamp /\ \A s \in Lists' : Derived(s)
  <2>1. PICK items \in Edits(panel[c].items) : StartPut(c, items, FALSE)
    BY <1>10 DEF EditPanel
  <2>2. panel[c].items \in Seq(Item) /\ Derived(panel[c].items)
    BY <1>0, <1>10, ListTypes DEF EditPanel
  <2>3. Derived(items)
    BY <2>1, <2>2, EditsKeep DEF Derived
  <2>4. \A d \in Clients : request'[d] # Quiet => request'[d].items \in Lists \/ Derived(request'[d].items)
    BY <1>0, <2>1, <2>3, ListTypes DEF StartPut
  <2> QED BY <1>10, <1>r, <2>4 DEF EditPanel
<1>11. ASSUME NEW c \in Clients, PutAgain(c) \/ PutRefused(c) \/ PutLost(c) \/ PutAgainDropped(c)
       PROVE  stamp' = stamp /\ \A s \in Lists' : Derived(s)
  <2>4. request[c].stage \in {"put", "again"}
    BY <1>11 DEF PutAgain, PutRefused, PutLost, PutAgainDropped
  <2>1. request[c] # Quiet
    BY <2>4 DEF Quiet
  <2>2. \A d \in Clients : request'[d] # Quiet => request'[d].items \in Lists
    BY <1>0, <1>11, <2>1, ListTypes DEF PutAgain, StartPut, PutRefused, PutLost, PutAgainDropped, Quiet
  <2>3. UNCHANGED <<panel, queue, stamp>>
    BY <1>11 DEF PutAgain, PutRefused, PutLost, PutAgainDropped
  <2> QED BY <1>r, <2>2, <2>3
<1>12. ASSUME NEW c \in Clients, PutAccepted(c)
       PROVE  /\ stamp' = stamp + 1
              /\ \E new : MadeFrom(new) /\ \A s \in Lists' : s = new \/ Derived(s)
  <2> DEFINE n == request[c].session
             raw == request[c].items
             q == ReplaceItems(queue[n], raw, stamp)
             new == Renewed(queue[n], raw, stamp)
  <2>1. request[c] # Quiet /\ n \in Names
    BY <1>12 DEF PutAccepted, Quiet, TypeOK
  <2>2. raw \in Seq(Item) /\ Derived(raw) /\ queue[n] \in Entry /\ stamp \in Nat
    BY <1>0, <2>1, ListTypes
  <2>3. \A x \in ItemSet(raw) : x.id[1] < stamp
    BY <2>2 DEF Derived, Known
  <2>4. Len(raw) <= MaxFollowups
    BY <1>12 DEF PutAccepted
  <2>5. new \in Seq(Item) /\ q.items = new
    BY <2>2, RenewedType, ReplaceType
  <2>6. MadeFrom(new)
    BY <2>2, <2>3, <2>4, <2>5, RenewedKeeps DEF MadeFrom, Derived
  <2>7. /\ queue' = [queue EXCEPT ![n] = q]
        /\ panel' \in {panel, [panel EXCEPT ![c] =
              [session |-> n, revision |-> q.revision, items |-> q.items]]}
        /\ stamp' = stamp + 1 /\ request' = [request EXCEPT ![c] = Quiet]
    BY <1>12 DEF PutAccepted
  <2> HIDE DEF q, new
  <2>8. \A m \in Names : queue'[m].items = new \/ queue'[m].items \in Lists
    BY <1>0, <2>1, <2>5, <2>7, ListTypes
  <2>9. \A d \in Clients : panel'[d] # NoPanel => panel'[d].items = new \/ panel'[d].items \in Lists
    BY <1>0, <2>5, <2>7, ListTypes
  <2>10. \A d \in Clients : request'[d] # Quiet => request'[d].items \in Lists
    BY <1>0, <2>7, ListTypes
  <2>11. \A s \in Lists' : s = new \/ s \in Lists
    BY <2>8, <2>9, <2>10 DEF Lists, Shown, Sent
  <2> QED BY <1>0, <2>6, <2>7, <2>11
<1>13. CASE UNCHANGED <<queue, panel, request, stamp>>
  BY <1>0, <1>13 DEF Lists, Shown, Sent
<1> QED
  BY <1>3, <1>4, <1>5, <1>6, <1>8, <1>9, <1>10, <1>11, <1>12, <1>13
  DEF Next, HandlerStep, AdvanceStep, PollStep, ClientStep, BeginAdvance, TypeText,
      TypeEnter, PollEnumerate, OpenSession, Restart

\* What is being sent and what was typed came out of a queue.
LEMMA HeldNext ==
  ASSUME TypeOK, Known, Next
  PROVE  /\ \A b \in Bells : Running(b)' => advance'[b].item \in Held
         /\ typed' \subseteq Held
<1>0. advance \in [Bells -> Advance]
  BY DEF TypeOK
<1>a. ASSUME NEW b \in Bells, Running(b) PROVE advance[b].item \in Held
  <2> DEFINE A == {x \in Bells : Running(x)}
  <2>1. b \in A
    BY <1>a
  <2> HIDE DEF A
  <2>2. advance[b].item \in {advance[x].item : x \in A}
    BY <2>1
  <2> QED BY <2>2 DEF Held, A
<1>s. typed \subseteq Held /\ \A b \in Bells : Running(b) => advance[b].item \in Held
  <2>1. typed \subseteq Held
    BY DEF Held
  <2> QED BY <1>a, <2>1
<1>l. \A s \in Lists : ItemSet(s) \subseteq Held
  BY Zenon DEF Held
<1>r. \A b \in Bells : Running(b)' <=> advance'[b].phase # "idle"
  BY DEF Running
<1>i. Idle.phase = "idle"
  BY DEF Idle
<1> HIDE DEF Held
<1>1. ASSUME NEW b \in Bells, NEW n \in Names, BeginAdvance(b, n)
      PROVE  \A x \in Bells : Running(x)' => advance'[x].item \in Held
  <2>1. queue[n].items \in Seq(Item) /\ queue[n].items # <<>> /\ queue[n].items \in Lists
    BY <1>1, ListTypes DEF BeginAdvance, AcceptanceOk, Ready
  <2>2. Head(queue[n].items) \in ItemSet(queue[n].items)
    BY <2>1, HeadTailProperties, EmptySeq DEF ItemSet
  <2>3. Head(queue[n].items) \in Held
    BY <1>l, <2>1, <2>2
  <2>4. /\ advance'[b].item = Head(queue[n].items)
        /\ \A x \in Bells \ {b} : advance'[x] = advance[x]
    BY <1>0, <1>1 DEF BeginAdvance
  <2> QED BY <1>r, <1>s, <2>3, <2>4 DEF Running
<1>2. ASSUME NEW b \in Bells, TypeText(b) \/ TypeEnter(b)
      PROVE  /\ \A x \in Bells : Running(x)' => advance'[x].item \in Held
             /\ typed' \subseteq Held
  <2>1. advance[b].phase # "idle" /\ advance[b] \in Advance
    BY <1>0, <1>2 DEF TypeText, TypeEnter
  <2>2. PICK p \in Phase : advance' = [advance EXCEPT ![b].phase = p]
    BY <1>2 DEF TypeText, TypeEnter, Phase
  <2>3. advance[b] \in [phase : Phase, name : Names, item : Item]
    BY <2>1 DEF Advance
  <2>4. /\ advance'[b].item = advance[b].item
        /\ \A x \in Bells \ {b} : advance'[x] = advance[x]
    BY <1>0, <2>2, <2>3
  <2>5. typed' \subseteq typed \cup {advance[b].item}
    BY <1>2 DEF TypeText, TypeEnter
  <2>6. advance[b].item \in Held
    BY <1>s, <2>1 DEF Running
  <2>7. typed' \subseteq Held
    BY <1>s, <2>5, <2>6
  <2> QED BY <1>r, <1>s, <2>4, <2>6, <2>7 DEF Running
<1>3. ASSUME NEW b \in Bells, FinishAdvance(b)
      PROVE  \A x \in Bells : Running(x)' => advance'[x].item \in Held
  <2>1. advance' = [advance EXCEPT ![b] = Idle]
    BY <1>3 DEF FinishAdvance
  <2> QED BY <1>0, <1>r, <1>s, <1>i, <2>1 DEF Running
<1>4. ASSUME Restart
      PROVE  \A x \in Bells : Running(x)' => advance'[x].item \in Held
  <2>1. advance' = [b \in Bells |-> Idle]
    BY <1>4 DEF Restart
  <2> QED BY <1>r, <1>i, <2>1
<1>5. ASSUME advance' = advance
      PROVE  \A x \in Bells : Running(x)' => advance'[x].item \in Held
  BY <1>r, <1>s, <1>5 DEF Running
<1>6. (\E b \in Bells : TypeText(b)) \/ typed' = typed
  BY DEF Next, HandlerStep, AdvanceStep, PollStep, ClientStep, historyVars, AppendFollowup,
         ClearFollowups, ResumeFollowups, BeginAdvance, TypeEnter, FinishAdvance, PollEnumerate,
         PollApply, OpenSession, Refresh, EditPanel, PutAccepted, PutRefused, PutLost, Refetch,
         PutAgain, PutAgainDropped, Restart
<1>7. typed' \subseteq Held
  BY <1>s, <1>2, <1>6
<1> QED BY <1>1, <1>2, <1>3, <1>4, <1>5, <1>7, FlightStep

\* Every step keeps an id one item.
LEMMA KnownNext == TypeOK /\ Known /\ [Next]_vars => Known'
<1> SUFFICES ASSUME TypeOK, Known, [Next]_vars PROVE Known'
  OBVIOUS
<1>0. stamp \in Nat \ {0} /\ TypeOK'
  BY ListTypes, TypeNext
<1>1. CASE UNCHANGED vars
  BY <1>1 DEF Known, Held, Lists, Shown, Sent, Running, vars, serverVars, clientVars, historyVars
<1>2. ASSUME Next, NEW new \in SUBSET Item,
             \A x \in Held' : x \in Held \/ x \in new,
             \A x \in new : x \in Held \/ x \in Made(stamp),
             \A x, y \in new : x.id = y.id => x = y,
             stamp' = stamp + 1
      PROVE  /\ \A x \in Held' : x \in Item /\ x.id \in (1..(stamp' - 1)) \X (1..MaxFollowups)
             /\ \A x, y \in Held' : x.id = y.id => x = y
  <2>1. \A x \in Held : x \in Item /\ x.id \in (1..(stamp - 1)) \X (1..MaxFollowups)
    BY DEF Known
  <2>2. \A x \in Made(stamp) : x \in Item /\ x.id \in {stamp} \X (1..MaxFollowups)
    BY DEF Made
  <2>3. \A x \in Held, y \in Made(stamp) : x.id # y.id
    BY <1>0, <2>1, <2>2
  <2>4. \A x, y \in Held : x.id = y.id => x = y
    BY DEF Known
  <2>5. ASSUME NEW x \in Held'
        PROVE  x \in Item /\ x.id \in (1..(stamp' - 1)) \X (1..MaxFollowups)
    BY <1>0, <1>2, <2>1, <2>2
  <2>6. ASSUME NEW x \in Held', NEW y \in Held', x.id = y.id
        PROVE  x = y
    BY <1>2, <2>3, <2>4, <2>6
  <2> QED BY <2>5, <2>6
<1>3. CASE Next /\ stamp' = stamp /\ \A s \in Lists' : Derived(s)
  <2>1. \A x \in Held' : x \in Held
    BY <1>3, HeldNext DEF Held, Derived
  <2>2. /\ \A x \in Held' : x \in Item /\ x.id \in (1..(stamp' - 1)) \X (1..MaxFollowups)
        /\ \A x, y \in Held' : x.id = y.id => x = y
    <3> HIDE DEF Held
    <3> QED BY <1>3, <2>1 DEF Known
  <2>3. \A s \in Lists' : Distinct(s)'
    BY <1>3 DEF Derived, Distinct
  <2> QED BY <2>2, <2>3 DEF Known
<1>4. CASE Next /\ stamp' = stamp + 1
           /\ \E new : MadeFrom(new) /\ \A s \in Lists' : s = new \/ Derived(s)
  <2>1. PICK new : MadeFrom(new) /\ \A s \in Lists' : s = new \/ Derived(s)
    BY <1>4
  <2>2. /\ ItemSet(new) \in SUBSET Item
        /\ \A x \in ItemSet(new) : x \in Held \/ x \in Made(stamp)
    BY <2>1, ElementOfSeq DEF MadeFrom, ItemSet
  <2>3. \A x, y \in ItemSet(new) : x.id = y.id => x = y
    BY <2>1 DEF MadeFrom, Distinct, ItemSet
  <2>4. \A x \in Held' : x \in Held \/ x \in ItemSet(new)
    <3>1. \A x \in Held' : \/ \E s \in Lists' : x \in ItemSet(s)
                           \/ \E b \in Bells : Running(b)' /\ x = advance'[b].item
                           \/ x \in typed'
      BY DEF Held
    <3>2. \A s \in Lists' : \A x \in ItemSet(s) : x \in Held \/ x \in ItemSet(new)
      BY <2>1 DEF Derived
    <3>3. Next
      BY <1>4
    <3>4. /\ \A b \in Bells : Running(b)' => advance'[b].item \in Held
          /\ typed' \subseteq Held
      BY <3>3, HeldNext
    <3> QED BY <3>1, <3>2, <3>4
  <2>5. /\ \A x \in Held' : x \in Item /\ x.id \in (1..(stamp' - 1)) \X (1..MaxFollowups)
        /\ \A x, y \in Held' : x.id = y.id => x = y
    BY <1>2, <1>4, <2>2, <2>3, <2>4
  <2> QED BY <2>1, <2>5 DEF Known, Derived, MadeFrom
<1> QED BY <1>1, <1>3, <1>4, ListsNext

\* replace_items renews every id its queue does not know: an id is one item for
\* ever, whatever old lists the tabs bring back.
THEOREM IdsAreKnown == Spec => []Known
<1>1. Init => Known
  <2> SUFFICES ASSUME Init PROVE Known
    OBVIOUS
  <2>1. Lists \subseteq {<<>>}
    BY DEF Init, Lists, Shown, Sent, EmptyQueue, NoPanel, Quiet
  <2>2. \A s \in Lists : Distinct(s) /\ ItemSet(s) = {}
    BY <2>1, EmptySeq DEF Distinct, ItemSet
  <2>3. {advance[b].item : b \in {x \in Bells : Running(x)}} = {} /\ typed = {}
    BY DEF Init, Running, Idle
  <2>4. Held = {}
    BY <2>2, <2>3 DEF Held
  <2> QED BY <2>2, <2>4 DEF Known
<1> QED BY <1>1, TypeCorrect, KnownNext, PTL DEF Spec

-----------------------------------------------------------------------------
(* An item is queued for one session *)

Items(n) == ItemSet(queue[n].items)

Absent == \A n \in Names : ~queue[n].present => queue[n].items = <<>>

Apart == \A n, m \in Names : \A x \in Items(n) : x \in Items(m) => n = m

\* A running send's item is in no queue but its session's, and in no other send.
Home ==
  /\ \A b \in Bells, n \in Names :
        Running(b) /\ advance[b].item \in Items(n) => n = advance[b].name
  /\ \A a, b \in Bells :
        Running(a) /\ Running(b) /\ advance[a].item = advance[b].item => a = b

\* Only six operations touch the queues.
LEMMA QueueStep ==
  ASSUME Next
  PROVE  \/ \E n \in Names : AppendFollowup(n) \/ ClearFollowups(n) \/ ResumeFollowups(n)
         \/ \E b \in Bells : FinishAdvance(b)
         \/ \E c \in Clients : PutAccepted(c)
         \/ PollApply
         \/ queue' = queue
BY DEF Next, HandlerStep, AdvanceStep, PollStep, ClientStep, serverVars, BeginAdvance,
       TypeText, TypeEnter, PollEnumerate, OpenSession, Refresh, EditPanel, PutRefused,
       PutLost, Refetch, PutAgain, PutAgainDropped, Restart

\* A new item has an id that nothing held has.
LEMMA MadeIsNew ==
  ASSUME TypeOK, Known, NEW x \in Held, NEW y \in Made(stamp)
  PROVE  x.id # y.id
<1>1. stamp \in Nat /\ x.id \in (1..(stamp - 1)) \X (1..MaxFollowups)
  BY ListTypes DEF Known
<1>2. y.id \in {stamp} \X (1..MaxFollowups)
  BY DEF Made
<1> QED BY <1>1, <1>2

\* What is queued, sent or typed is held.
LEMMA QueuedIsHeld ==
  ASSUME TypeOK
  PROVE  /\ \A n \in Names : Items(n) \subseteq Held
         /\ \A b \in Bells : Running(b) => advance[b].item \in Held
         /\ typed \subseteq Held
<1>1. \A n \in Names : Items(n) \subseteq Held
  <2>1. \A n \in Names : queue[n].items \in Lists
    BY ListTypes
  <2>2. \A s \in Lists : ItemSet(s) \subseteq Held
    BY DEF Held
  <2> QED BY <2>1, <2>2 DEF Items
<1>2. \A b \in Bells : Running(b) => advance[b].item \in Held
  BY DEF Held
<1>3. typed \subseteq Held
  BY DEF Held
<1> QED BY <1>1, <1>2, <1>3

\* An absent entry stays an empty one.
LEMMA AbsentNext == TypeOK /\ Absent /\ [Next]_vars => Absent'
<1> SUFFICES ASSUME TypeOK, Absent, [Next]_vars PROVE Absent'
  OBVIOUS
<1>0. queue \in [Names -> Entry] /\ EmptyQueue.items = <<>>
  BY EmptyQueueIsEntry DEF TypeOK
<1> DEFINE Tidy(q) == ~q.present => q.items = <<>>
<1>1. ASSUME NEW n, NEW q, Tidy(q), queue' = [queue EXCEPT ![n] = q] PROVE Absent'
  BY <1>0, <1>1 DEF Absent
<1>p. ASSUME NEW q, q.present PROVE Tidy(PruneIfEmpty(q))
  BY <1>0, <1>p DEF PruneIfEmpty
<1>2. ASSUME NEW n \in Names, AppendFollowup(n) PROVE Absent'
  <2>1. PICK item : queue' = [queue EXCEPT ![n] = AppendItem(queue[n], item)]
    BY <1>2 DEF AppendFollowup
  <2>2. AppendItem(queue[n], item).present
    BY <1>0 DEF AppendItem, Entry
  <2> QED BY <1>1, <2>1, <2>2
<1>3. ASSUME NEW n \in Names, ClearFollowups(n) PROVE Absent'
  BY <1>0, <1>1, <1>3 DEF ClearFollowups
<1>4. ASSUME NEW n \in Names, ResumeFollowups(n) PROVE Absent'
  <2>1. Tidy(ResumeQueue(queue[n]))
    BY <1>0 DEF ResumeQueue, Entry, Absent
  <2> QED BY <1>1, <1>4, <2>1 DEF ResumeFollowups
<1>5. ASSUME NEW b \in Bells, FinishAdvance(b) PROVE Absent'
  <2> DEFINE n == advance[b].name
             q == Outcome(queue[n], advance[b])
  <2>1. n \in Names /\ queue' = [queue EXCEPT ![n] = q]
    BY <1>5, RunningAdvance DEF FinishAdvance, TypeOK
  <2>2. Tidy(queue[n]) /\ queue[n] \in Entry
    BY <1>0, <2>1 DEF Absent
  <2>3. CASE q = queue[n]
    BY <1>1, <2>1, <2>2, <2>3
  <2>4. CASE q = SetHalted(queue[n], advance[b].item.id)
    <3>1. q.present
      BY <2>2, <2>4 DEF SetHalted, Entry
    <3> QED BY <1>1, <2>1, <3>1
  <2>5. CASE queue[n].present /\ q = RemoveItemById(queue[n], advance[b].item.id)
    <3>1. PICK r : r.present /\ q \in {queue[n], PruneIfEmpty(r)}
      <4> DEFINE w == WithoutId(queue[n].items, advance[b].item.id)
                 r == [queue[n] EXCEPT !.revision = @ + 1, !.items = w]
      <4>1. r.present
        BY <2>2, <2>5 DEF Entry
      <4>2. q \in {queue[n], PruneIfEmpty(r)}
        BY <2>5 DEF RemoveItemById
      <4> QED BY <4>1, <4>2
    <3>2. Tidy(q)
      BY <1>p, <2>2, <3>1
    <3> QED BY <1>1, <2>1, <3>2
  <2> QED BY <2>3, <2>4, <2>5 DEF Outcome
<1>6. CASE PollApply
  BY <1>0, <1>6 DEF PollApply, Reaped, Absent
<1>7. ASSUME NEW c \in Clients, PutAccepted(c) PROVE Absent'
  <2> DEFINE n == request[c].session
             r == [present |-> TRUE, revision |-> queue[n].revision + 1,
                   items |-> Renewed(queue[n], request[c].items, stamp), halted |-> queue[n].halted]
  <2>1. queue' = [queue EXCEPT ![n] = PruneIfEmpty(r)]
    BY <1>7 DEF PutAccepted, ReplaceItems
  <2>2. r.present
    OBVIOUS
  <2> HIDE DEF r
  <2>3. Tidy(PruneIfEmpty(r))
    BY <1>p, <2>2
  <2> QED BY <1>1, <2>1, <2>3
<1>8. CASE queue' = queue
  BY <1>8 DEF Absent
<1>9. CASE UNCHANGED vars
  BY <1>8, <1>9 DEF vars, serverVars
<1> QED BY <1>2, <1>3, <1>4, <1>5, <1>6, <1>7, <1>8, <1>9, QueueStep

\* In one step items leave queues, and new ones come into at most one.
LEMMA Arrivals ==
  ASSUME TypeOK, Known, Next
  PROVE  \E k : \A n \in Names : \A x \in Items(n)' :
            x \in Items(n) \/ (x \in Made(stamp) /\ n = k)
<1> DEFINE Only(k) == \A n \in Names : \A x \in Items(n)' :
                         x \in Items(n) \/ (x \in Made(stamp) /\ n = k)
<1> SUFFICES \E k : Only(k)
  OBVIOUS
<1>0. /\ queue \in [Names -> Entry] /\ stamp \in Nat \ {0}
      /\ \A n \in Names : Distinct(queue[n].items) /\ queue[n].items \in Seq(Item)
  BY ListTypes DEF TypeOK, Known
<1>n. ItemSet(<<>>) = {}
  BY EmptySeq DEF ItemSet
<1>1. ASSUME NEW k \in Names, NEW q, queue' = [queue EXCEPT ![k] = q],
             \A x \in ItemSet(q.items) : x \in Items(k) \/ x \in Made(stamp)
      PROVE  Only(k)
  BY <1>0, <1>1 DEF Items
<1>2. ASSUME NEW n \in Names, AppendFollowup(n) PROVE Only(n)
  <2> DEFINE item == [id |-> <<stamp, 1>>, intent |-> stamp]
  <2>1. item \in Made(stamp) /\ item \in Item
    <3>1. 1 \in 1..MaxFollowups /\ stamp \in Nat
      BY <1>0
    <3> QED BY <3>1 DEF Made, Item, Id
  <2>2. queue' = [queue EXCEPT ![n] = AppendItem(queue[n], item)]
    BY <1>2 DEF AppendFollowup
  <2> HIDE DEF item
  <2>3. \A x \in Items(n) : x.id # item.id
    BY <2>1, MadeIsNew, QueuedIsHeld
  <2>4. ItemSet(AppendItem(queue[n], item).items) = Items(n) \cup {item}
    <3>1. ItemSet(Append(queue[n].items, item)) = ItemSet(queue[n].items) \cup {item}
      BY <1>0, <2>1, <2>3, AppendKeeps DEF Items
    <3>2. AppendItem(queue[n], item).items = Append(queue[n].items, item)
      BY <1>0, <2>1, AppendType
    <3> QED BY <3>1, <3>2 DEF Items
  <2> QED BY <1>1, <2>1, <2>2, <2>4
<1>3. ASSUME NEW n \in Names, ClearFollowups(n) PROVE Only(n)
  BY <1>1, <1>3, <1>n DEF ClearFollowups, EmptyQueue
<1>4. ASSUME NEW n \in Names, ResumeFollowups(n) PROVE Only(n)
  <2>1. ResumeQueue(queue[n]).items = queue[n].items
    BY <1>0 DEF ResumeQueue, Entry
  <2> QED BY <1>1, <1>4, <2>1 DEF ResumeFollowups, Items
<1>5. ASSUME NEW b \in Bells, FinishAdvance(b) PROVE Only(advance[b].name)
  <2> DEFINE n == advance[b].name
             i == advance[b].item.id
             q == Outcome(queue[n], advance[b])
  <2>1. n \in Names /\ queue' = [queue EXCEPT ![n] = q] /\ i \in Id
    BY <1>5, RunningAdvance DEF FinishAdvance, TypeOK
  <2>2. ItemSet(q.items) \subseteq Items(n)
    <3>1. CASE q = queue[n]
      BY <3>1 DEF Items
    <3>2. CASE q = SetHalted(queue[n], i)
      BY <1>0, <2>1, <3>2, SetHaltedType DEF Items
    <3>3. CASE q = RemoveItemById(queue[n], i)
      BY <1>0, <2>1, <3>3, RemoveKeeps DEF Items
    <3> QED BY <3>1, <3>2, <3>3 DEF Outcome
  <2> HIDE DEF q
  <2> QED BY <1>1, <2>1, <2>2
<1>6. CASE PollApply
  <2>1. \A n \in Names : queue'[n].items = queue[n].items \/ queue'[n].items = <<>>
    BY <1>0, <1>6 DEF PollApply, Reaped, EmptyQueue
  <2>2. Only(0)
    BY <1>n, <2>1 DEF Items
  <2> QED BY <2>2
<1>7. ASSUME NEW c \in Clients, PutAccepted(c) PROVE Only(request[c].session)
  <2> DEFINE n == request[c].session
             raw == request[c].items
  <2>1. /\ n \in Names /\ queue' = [queue EXCEPT ![n] = ReplaceItems(queue[n], raw, stamp)]
        /\ request[c] # Quiet /\ Len(raw) <= MaxFollowups
    BY <1>7 DEF PutAccepted, Quiet, TypeOK
  <2>2. raw \in Lists /\ raw \in Seq(Item) /\ Distinct(raw)
    BY <2>1, ListTypes DEF Known
  <2>3. ItemSet(raw) \subseteq Held
    BY <2>2, ListsAreDerived DEF Derived
  <2>4. \A x \in ItemSet(raw) : x.id[1] < stamp
    BY <1>0, <2>3 DEF Known
  <2>5. ReplaceItems(queue[n], raw, stamp).items = Renewed(queue[n], raw, stamp)
    BY <1>0, <2>1, <2>2, ReplaceType
  <2>6. \A x \in ItemSet(Renewed(queue[n], raw, stamp)) :
            x \in Made(stamp) \/ (x \in ItemSet(raw) /\ x.id \in IdSet(queue[n].items))
    BY <1>0, <2>1, <2>2, <2>4, RenewedKeeps
  <2>7. ASSUME NEW x \in ItemSet(raw), x.id \in IdSet(queue[n].items) PROVE x \in Items(n)
    <3>1. PICK y \in Items(n) : x.id = y.id
      BY <2>7 DEF IdSet, Items, ItemSet
    <3> QED BY <2>1, <2>3, <3>1, QueuedIsHeld DEF Known
  <2> QED BY <1>1, <2>1, <2>5, <2>6, <2>7
<1>8. ASSUME queue' = queue PROVE Only(0)
  BY <1>8 DEF Items
<1> QED BY <1>2, <1>3, <1>4, <1>5, <1>6, <1>7, <1>8, QueueStep

\* Every step keeps an item in one queue.
LEMMA ApartNext == TypeOK /\ Known /\ Apart /\ [Next]_vars => Apart'
<1> SUFFICES ASSUME TypeOK, Known, Apart, [Next]_vars PROVE Apart'
  OBVIOUS
<1>1. CASE UNCHANGED vars
  BY <1>1 DEF Apart, Items, vars, serverVars
<1>2. CASE Next
  <2>1. PICK k : \A n \in Names : \A x \in Items(n)' :
            x \in Items(n) \/ (x \in Made(stamp) /\ n = k)
    BY <1>2, Arrivals
  <2> SUFFICES ASSUME NEW n \in Names, NEW m \in Names, NEW x, x \in Items(n)', x \in Items(m)'
               PROVE  n = m
    BY DEF Apart
  <2>2. ~ \E j \in Names : x \in Items(j) /\ x \in Made(stamp)
    BY MadeIsNew, QueuedIsHeld
  <2> QED BY <2>1, <2>2 DEF Apart
<1> QED BY <1>1, <1>2

\* Every step keeps a send's item to itself and to its queue.
LEMMA HomeNext ==
  TypeOK /\ Known /\ SingleFlight /\ Apart /\ Home /\ [Next]_vars => Home'
<1> SUFFICES ASSUME TypeOK, Known, SingleFlight, Apart, Home, [Next]_vars PROVE Home'
  OBVIOUS
<1>0. advance \in [Bells -> Advance] /\ Idle.phase = "idle"
  BY DEF TypeOK, Idle
<1>r. \A b \in Bells : Running(b)' <=> advance'[b].phase # "idle"
  BY DEF Running
<1>1. ASSUME \A n \in Names, b \in Bells :
                Running(b) /\ advance[b].item \in Items(n)' => advance[b].item \in Items(n),
             \A b \in Bells : Running(b)' =>
                Running(b) /\ advance'[b].item = advance[b].item /\ advance'[b].name = advance[b].name
      PROVE  Home'
  BY <1>1 DEF Home
<1>2. ASSUME Next
      PROVE  \A n \in Names, b \in Bells :
                Running(b) /\ advance[b].item \in Items(n)' => advance[b].item \in Items(n)
  BY <1>2, Arrivals, MadeIsNew, QueuedIsHeld
<1>3. ASSUME NEW b \in Bells, NEW n \in Names, BeginAdvance(b, n) PROVE Home'
  <2> DEFINE item == Head(queue[n].items)
  <2>1. queue[n].items \in Seq(Item) /\ queue[n].items # <<>> /\ n \notin sending /\ queue' = queue
    BY <1>3, ListTypes DEF BeginAdvance, AcceptanceOk, Ready
  <2>2. item \in Items(n)
    BY <2>1, HeadTailProperties, EmptySeq DEF Items, ItemSet
  <2>3. \A x \in Bells : Running(x) => advance[x].name # n
    BY <2>1 DEF SingleFlight
  <2>4. \A x \in Bells : Running(x) => advance[x].item # item
    BY <2>2, <2>3 DEF Home
  <2>5. /\ advance'[b].item = item /\ advance'[b].name = n
        /\ \A x \in Bells \ {b} : advance'[x] = advance[x]
    BY <1>0, <1>3 DEF BeginAdvance
  <2> HIDE DEF item
  <2>6. \A m \in Names : Items(m)' = Items(m)
    BY <2>1 DEF Items
  <2>7. \A x \in Bells \ {b} : Running(x)' <=> Running(x)
    BY <2>5 DEF Running
  <2>8. \A x \in Bells, m \in Names : Running(x)' /\ advance'[x].item \in Items(m) => m = advance'[x].name
    BY <2>2, <2>5, <2>7 DEF Home, Apart
  <2>9. \A x, y \in Bells : Running(x)' /\ Running(y)' /\ advance'[x].item = advance'[y].item => x = y
    BY <2>4, <2>5, <2>7 DEF Home
  <2> QED BY <2>6, <2>8, <2>9 DEF Home
<1>4. ASSUME NEW b \in Bells, TypeText(b) \/ TypeEnter(b) PROVE Home'
  <2>1. Running(b) /\ advance[b] \in Advance /\ queue' = queue
    BY <1>0, <1>4 DEF TypeText, TypeEnter, Running, serverVars
  <2>2. PICK p \in Phase : advance' = [advance EXCEPT ![b].phase = p]
    BY <1>4 DEF TypeText, TypeEnter, Phase
  <2>3. advance[b] \in [phase : Phase, name : Names, item : Item]
    BY <2>1 DEF Running, Advance
  <2>4. /\ advance'[b].item = advance[b].item /\ advance'[b].name = advance[b].name
        /\ \A x \in Bells \ {b} : advance'[x] = advance[x]
    BY <1>0, <2>2, <2>3
  <2>5. \A x \in Bells : Running(x)' =>
           Running(x) /\ advance'[x].item = advance[x].item /\ advance'[x].name = advance[x].name
    BY <1>r, <2>1, <2>4 DEF Running
  <2> QED BY <1>1, <2>1, <2>5 DEF Items
<1>5. ASSUME Next, NEW b \in Bells, FinishAdvance(b) PROVE Home'
  <2>1. advance' = [advance EXCEPT ![b] = Idle]
    BY <1>5 DEF FinishAdvance
  <2>2. \A x \in Bells : Running(x)' => Running(x) /\ advance'[x] = advance[x]
    BY <1>0, <1>r, <2>1 DEF Running
  <2> QED BY <1>1, <1>2, <1>5, <2>2
<1>6. CASE Next /\ Restart
  <2>1. advance' = [b \in Bells |-> Idle]
    BY <1>6 DEF Restart
  <2> QED BY <1>0, <1>1, <1>2, <1>6, <1>r, <2>1
<1>7. CASE Next /\ advance' = advance
  BY <1>1, <1>2, <1>7, <1>r DEF Running
<1>8. CASE UNCHANGED vars
  BY <1>8 DEF Home, Items, Running, vars, serverVars
<1> QED BY <1>3, <1>4, <1>5, <1>6, <1>7, <1>8, FlightStep

-----------------------------------------------------------------------------
(* An item that was typed *)

\* A send that has not typed its item has one nobody typed, or one that was torn;
\* one that has, has it in the history.
Told ==
  \A b \in Bells :
     /\ advance[b].phase \in {"text", "failed"} /\ advance[b].item \in typed =>
           advance[b].item.id \in torn
     /\ advance[b].phase \in {"enter", "sent"} => advance[b].item \in typed

\* What a completed send leaves of the queues.
LEMMA FinishItems ==
  ASSUME TypeOK, Known, Absent, Home, NEW b \in Bells, FinishAdvance(b)
  PROVE  /\ advance[b].phase = "sent" =>
              \A n \in Names : Items(n)' = {x \in Items(n) : x.id # advance[b].item.id}
         /\ advance[b].phase = "failed" => \A n \in Names : Items(n)' = Items(n)
<1> PICK m \in Names, i \in Id : m = advance[b].name /\ i = advance[b].item.id
  BY RunningAdvance DEF FinishAdvance, TypeOK
<1> DEFINE q == Outcome(queue[m], advance[b])
<1>0. queue \in [Names -> Entry] /\ \A n \in Names : Distinct(queue[n].items)
  BY ListTypes DEF TypeOK, Known
<1>1. /\ queue' = [queue EXCEPT ![m] = q] /\ Running(b)
      /\ advance[b].phase \in {"sent", "failed"}
  BY DEF FinishAdvance, Running
<1>2. ASSUME NEW n \in Names, n # m
      PROVE  Items(n)' = Items(n) /\ \A x \in Items(n) : x.id # i
  <2>1. \A x \in Items(n) : x.id = i => x = advance[b].item
    BY <1>1, QueuedIsHeld DEF Known
  <2>2. advance[b].item \notin Items(n)
    BY <1>1, <1>2 DEF Home
  <2> QED BY <1>0, <1>1, <1>2, <2>1, <2>2 DEF Items
<1>3. Items(m)' = ItemSet(q.items)
  <2> HIDE DEF q
  <2> QED BY <1>0, <1>1 DEF Items
<1>6. ASSUME Items(m)' = {x \in Items(m) : x.id # i}, NEW n \in Names
      PROVE  Items(n)' = {x \in Items(n) : x.id # i}
  BY <1>2, <1>6
<1>4. CASE advance[b].phase = "sent"
  <2>1. CASE ~queue[m].present
    <3>1. q = queue[m] /\ queue[m].items = <<>>
      BY <1>1, <2>1 DEF Outcome, Absent
    <3>2. ItemSet(q.items) = {} /\ Items(m) = {}
      BY <3>1, EmptySeq DEF ItemSet, Items
    <3>3. Items(m)' = {x \in Items(m) : x.id # i}
      BY <1>3, <3>2
    <3> QED BY <1>4, <1>6, <3>3
  <2>2. CASE queue[m].present
    <3>1. q = RemoveItemById(queue[m], i)
      BY <1>4, <2>2 DEF Outcome
    <3>2. ItemSet(q.items) = {x \in Items(m) : x.id # i}
      <4>1. queue[m] \in Entry /\ Distinct(queue[m].items)
        BY <1>0
      <4>2. ItemSet(RemoveItemById(queue[m], i).items) = {x \in ItemSet(queue[m].items) : x.id # i}
        BY <4>1, RemoveKeeps
      <4> QED BY <3>1, <4>2 DEF Items
    <3>3. Items(m)' = {x \in Items(m) : x.id # i}
      BY <1>3, <3>2
    <3> QED BY <1>4, <1>6, <3>3
  <2> QED BY <2>1, <2>2
<1>5. CASE advance[b].phase = "failed"
  <2>1. q.items = queue[m].items
    BY <1>0, <1>1, <1>5, SetHaltedType DEF Outcome
  <2> QED BY <1>1, <1>2, <1>3, <1>5, <2>1 DEF Items
<1> QED BY <1>1, <1>4, <1>5

\* A step that is no send's step types nothing and forgets nothing.
LEMMA TypedStep ==
  ASSUME Next
  PROVE  \/ \E b \in Bells : TypeText(b) \/ TypeEnter(b)
         \/ Restart
         \/ UNCHANGED <<typed, torn>>
BY DEF Next, HandlerStep, AdvanceStep, PollStep, ClientStep, historyVars, AppendFollowup,
       ClearFollowups, ResumeFollowups, BeginAdvance, FinishAdvance, PollEnumerate,
       PollApply, OpenSession, Refresh, EditPanel, PutAccepted, PutRefused, PutLost, Refetch,
       PutAgain, PutAgainDropped

\* Every step keeps the history in step with the sends.
LEMMA ToldNext ==
  TypeOK /\ Known /\ SingleFlight /\ Home /\ Told /\ NoSilentRepeat /\ [Next]_vars => Told'
<1> SUFFICES ASSUME TypeOK, Known, SingleFlight, Home, Told, NoSilentRepeat, [Next]_vars PROVE Told'
  OBVIOUS
<1>0. advance \in [Bells -> Advance] /\ Idle.phase = "idle"
  BY DEF TypeOK, Idle
<1>1. ASSUME NEW b \in Bells, NEW n \in Names, BeginAdvance(b, n) PROVE Told'
  <2> DEFINE item == Head(queue[n].items)
  <2>1. queue[n].items \in Seq(Item) /\ queue[n].items # <<>> /\ n \notin sending
        /\ UNCHANGED <<typed, torn>>
    BY <1>1, ListTypes DEF BeginAdvance, AcceptanceOk, Ready, historyVars
  <2>2. item \in Items(n)
    BY <2>1, HeadTailProperties, EmptySeq DEF Items, ItemSet
  <2>3. advance'[b].item = item /\ advance'[b].phase \in {"text", "failed"}
        /\ \A x \in Bells \ {b} : advance'[x] = advance[x]
    BY <1>0, <1>1 DEF BeginAdvance
  <2> HIDE DEF item
  <2>4. item.id \notin InFlight
    <3> SUFFICES ASSUME NEW x \in Bells, Running(x), advance[x].item.id = item.id PROVE FALSE
      BY DEF InFlight
    <3>1. advance[x].item = item
      BY <2>2, QueuedIsHeld DEF Known
    <3> QED BY <2>1, <2>2, <3>1 DEF Home, SingleFlight
  <2>5. item \in Pending
    BY <2>2 DEF Pending, Items
  <2>6. item \in typed => item.id \in torn
    BY <2>4, <2>5 DEF NoSilentRepeat, TypedIds
  <2> QED BY <2>1, <2>3, <2>6 DEF Told
<1>2. ASSUME NEW b \in Bells, TypeText(b) \/ TypeEnter(b)
      PROVE  /\ advance'[b].item = advance[b].item /\ Running(b)
             /\ \A x \in Bells \ {b} : advance'[x] = advance[x]
             /\ \A p : [advance EXCEPT ![b].phase = p][b].phase = p
  <2>1. Running(b) /\ advance[b] \in Advance
    BY <1>0, <1>2 DEF TypeText, TypeEnter, Running
  <2>2. PICK p \in Phase : advance' = [advance EXCEPT ![b].phase = p]
    BY <1>2 DEF TypeText, TypeEnter, Phase
  <2>3. advance[b] \in [phase : Phase, name : Names, item : Item]
    BY <2>1 DEF Running, Advance
  <2> QED BY <1>0, <2>1, <2>2, <2>3
<1>3. ASSUME NEW b \in Bells, TypeText(b) PROVE Told'
  <2>p. \A p : advance' = [advance EXCEPT ![b].phase = p] => advance'[b].phase = p
    BY <1>2, <1>3
  <2>1. /\ advance[b].phase = "text" /\ torn' = torn
        /\ \/ advance'[b].phase \in {"enter", "sent"} /\ typed' = typed \cup {advance[b].item}
           \/ advance'[b].phase = "failed" /\ typed' = typed
    BY <1>3, <2>p DEF TypeText
  <2>2. /\ advance'[b].item = advance[b].item /\ Running(b)
        /\ \A x \in Bells \ {b} : advance'[x] = advance[x]
    BY <1>2, <1>3
  <2>3. \A x \in Bells \ {b} : Running(x) => advance[x].item # advance[b].item
    BY <2>2 DEF Home
  <2>4. \A x \in Bells : advance[x].phase \in {"text", "failed"} => Running(x)
    BY DEF Running
  <2> QED BY <2>1, <2>2, <2>3, <2>4 DEF Told
<1>4. ASSUME NEW b \in Bells, TypeEnter(b) PROVE Told'
  <2>p. \A p : advance' = [advance EXCEPT ![b].phase = p] => advance'[b].phase = p
    BY <1>2, <1>4
  <2>1. /\ advance[b].phase = "enter" /\ typed' = typed
        /\ \/ advance'[b].phase = "sent" /\ torn' = torn
           \/ advance'[b].phase = "failed" /\ torn' = torn \cup {advance[b].item.id}
    BY <1>4, <2>p DEF TypeEnter
  <2>2. /\ advance'[b].item = advance[b].item
        /\ \A x \in Bells \ {b} : advance'[x] = advance[x]
    BY <1>2, <1>4
  <2> QED BY <2>1, <2>2 DEF Told
<1>5. ASSUME Next, NEW b \in Bells, FinishAdvance(b) PROVE Told'
  <2>1. advance' = [advance EXCEPT ![b] = Idle] /\ UNCHANGED <<typed, torn>>
    BY <1>5 DEF FinishAdvance, historyVars
  <2>2. advance'[b].phase = "idle" /\ \A x \in Bells \ {b} : advance'[x] = advance[x]
    BY <1>0, <2>1
  <2> QED BY <2>1, <2>2 DEF Told
<1>6. CASE Restart
  <2>1. \A x \in Bells : advance'[x].phase = "idle"
    BY <1>0, <1>6 DEF Restart
  <2> QED BY <2>1 DEF Told
<1>7. CASE UNCHANGED <<advance, typed, torn>>
  BY <1>7 DEF Told
<1>8. CASE UNCHANGED vars
  BY <1>7, <1>8 DEF vars, serverVars, historyVars
<1> QED BY <1>1, <1>3, <1>4, <1>5, <1>6, <1>7, <1>8, FlightStep, TypedStep

\* Every step keeps the typed items of the queues in flight or torn.
LEMMA RepeatNext ==
  TypeOK /\ Known /\ Absent /\ Home /\ Told /\ NoSilentRepeat /\ [Next]_vars => NoSilentRepeat'
<1> SUFFICES ASSUME TypeOK, Known, Absent, Home, Told, NoSilentRepeat, [Next]_vars
             PROVE  NoSilentRepeat'
  OBVIOUS
<1>0. advance \in [Bells -> Advance] /\ Idle.phase = "idle"
  BY DEF TypeOK, Idle
<1>p. Pending = UNION {Items(n) : n \in Names}
  BY DEF Pending, Items
<1>q. Pending' = UNION {Items(n)' : n \in Names}
  BY DEF Pending, Items
<1>r. \A b \in Bells : Running(b)' <=> advance'[b].phase # "idle"
  BY DEF Running
<1>h. \A x \in Pending : x \in Held
  BY <1>p, QueuedIsHeld
<1>t. ASSUME NEW x \in Held, x.id \in TypedIds PROVE x \in typed
  BY <1>t, QueuedIsHeld DEF TypedIds, Known
<1>1. ASSUME Next
      PROVE  \A x \in Pending' : x \in Pending \/ x.id \notin TypedIds
  <2>1. \A x \in Pending' : x \in Pending \/ x \in Made(stamp)
    BY <1>1, <1>p, <1>q, Arrivals
  <2>2. \A x \in Made(stamp) : x.id \notin TypedIds
    BY MadeIsNew, QueuedIsHeld DEF TypedIds
  <2> QED BY <2>1, <2>2
<1>2. ASSUME Next, typed' = typed, torn \subseteq torn',
             \A i \in InFlight : i \in InFlight' \cup torn' \/ (\A x \in Pending' : x.id # i)
                                 \/ i \notin TypedIds
      PROVE  NoSilentRepeat'
  <2>1. TypedIds' = TypedIds
    BY <1>2 DEF TypedIds
  <2> SUFFICES ASSUME NEW x \in Pending', x.id \in TypedIds
               PROVE  x.id \in InFlight' \cup torn'
    BY <2>1 DEF NoSilentRepeat
  <2>2. x.id \in InFlight \cup torn
    BY <1>1, <1>2 DEF NoSilentRepeat
  <2> QED BY <1>2, <2>2
<1>f. ASSUME NEW b \in Bells, ~Running(b),
             \A x \in Bells \ {b} : advance'[x] = advance[x]
      PROVE  InFlight \subseteq InFlight'
  <2>1. \A x \in Bells : Running(x) => Running(x)' /\ advance'[x].item.id = advance[x].item.id
    BY <1>f, <1>r DEF Running
  <2> QED BY <2>1 DEF InFlight
<1>3. ASSUME Next, NEW b \in Bells, NEW n \in Names, BeginAdvance(b, n) PROVE NoSilentRepeat'
  <2>1. UNCHANGED <<typed, torn>> /\ ~Running(b)
    BY <1>3 DEF BeginAdvance, historyVars
  <2>2. \A x \in Bells \ {b} : advance'[x] = advance[x]
    BY <1>0, <1>3 DEF BeginAdvance
  <2> QED BY <1>2, <1>3, <1>f, <2>1, <2>2
<1>4. ASSUME NEW b \in Bells, TypeText(b) \/ TypeEnter(b)
      PROVE  InFlight' = InFlight /\ Running(b)
  <2>1. Running(b) /\ advance[b] \in Advance
    BY <1>0, <1>4 DEF TypeText, TypeEnter, Running
  <2>2. PICK p \in Phase : advance' = [advance EXCEPT ![b].phase = p]
    BY <1>4 DEF TypeText, TypeEnter, Phase
  <2>3. advance[b] \in [phase : Phase, name : Names, item : Item]
    BY <2>1 DEF Running, Advance
  <2>4. /\ advance'[b].item = advance[b].item /\ advance'[b].phase # "idle"
        /\ \A x \in Bells \ {b} : advance'[x] = advance[x]
    BY <1>0, <2>2, <2>3 DEF Phase
  <2>5. \A x \in Bells : (Running(x)' <=> Running(x)) /\ (Running(x) => advance'[x].item = advance[x].item)
    BY <1>r, <2>1, <2>4 DEF Running
  <2> QED BY <2>1, <2>5 DEF InFlight
<1>5. ASSUME Next, NEW b \in Bells, TypeText(b) PROVE NoSilentRepeat'
  <2>1. queue' = queue /\ torn' = torn /\ typed' \subseteq typed \cup {advance[b].item}
    BY <1>5 DEF TypeText, serverVars
  <2>2. InFlight' = InFlight /\ advance[b].item.id \in InFlight
    BY <1>4, <1>5 DEF InFlight
  <2>3. Pending' = Pending
    BY <2>1 DEF Pending
  <2>4. \A i \in TypedIds' : i \in TypedIds \/ i = advance[b].item.id
    BY <2>1 DEF TypedIds
  <2> QED BY <2>1, <2>2, <2>3, <2>4 DEF NoSilentRepeat
<1>6. ASSUME Next, NEW b \in Bells, TypeEnter(b) PROVE NoSilentRepeat'
  <2>1. typed' = typed /\ torn \subseteq torn'
    BY <1>6 DEF TypeEnter
  <2> QED BY <1>2, <1>4, <1>6, <2>1
<1>7. ASSUME Next, NEW b \in Bells, FinishAdvance(b) PROVE NoSilentRepeat'
  <2> PICK i : i = advance[b].item.id
    OBVIOUS
  <2>1. advance' = [advance EXCEPT ![b] = Idle] /\ UNCHANGED <<typed, torn>> /\ Running(b)
        /\ advance[b].phase \in {"sent", "failed"}
    BY <1>7 DEF FinishAdvance, historyVars, Running
  <2>2. \A x \in Bells \ {b} : advance'[x] = advance[x]
    BY <1>0, <2>1
  <2>3. \A j \in InFlight : j \in InFlight' \/ j = i
    BY <1>r, <2>2 DEF InFlight, Running
  <2>4. CASE advance[b].phase = "sent"
    <3>1. \A n \in Names : \A x \in Items(n)' : x.id # i
      BY <1>7, <2>4, FinishItems
    <3>2. \A x \in Pending' : x.id # i
      BY <1>q, <3>1
    <3> QED BY <1>2, <1>7, <2>1, <2>3, <3>2
  <2>5. CASE advance[b].phase = "failed"
    <3>1. i \in TypedIds => i \in torn
      <4>1. advance[b].item \in Held
        BY <2>1, QueuedIsHeld
      <4> QED BY <1>t, <2>5, <4>1 DEF Told
    <3> QED BY <1>2, <1>7, <2>1, <2>3, <3>1
  <2> QED BY <2>1, <2>4, <2>5
<1>8. CASE Next /\ Restart
  <2>1. typed' = typed /\ torn' = torn \cup {advance[b].item.id :
                             b \in {x \in Bells : advance[x].phase \in {"enter", "sent"}}}
    BY <1>8 DEF Restart
  <2>2. ASSUME NEW i \in InFlight, i \in TypedIds PROVE i \in torn'
    <3>1. PICK b \in Bells : Running(b) /\ i = advance[b].item.id
      BY DEF InFlight
    <3>2. advance[b].phase \in Phase
      BY <1>0, <3>1, RunningAdvance DEF Running
    <3>3. advance[b].item \in typed
      BY <1>t, <2>2, <3>1, QueuedIsHeld
    <3> QED BY <2>1, <3>1, <3>2, <3>3 DEF Told, Phase
  <2> QED BY <1>2, <1>8, <2>1, <2>2
<1>9. CASE Next /\ UNCHANGED <<advance, typed, torn>>
  <2>1. InFlight' = InFlight
    BY <1>9 DEF InFlight, Running
  <2> QED BY <1>2, <1>9, <2>1
<1>10. CASE UNCHANGED vars
  BY <1>10 DEF NoSilentRepeat, Pending, TypedIds, InFlight, Running, vars, serverVars, historyVars
<1> QED BY <1>3, <1>5, <1>6, <1>7, <1>8, <1>9, <1>10, FlightStep, TypedStep

\* The inductive invariant: the two of the sections above, and all of this one.
Settled == /\ TypeOK /\ SingleFlight /\ Known
           /\ Absent /\ Apart /\ Home /\ Told /\ NoSilentRepeat

\* Handlers, sends, polls, tabs and restarts all keep the inductive invariant.
THEOREM QueueStaysSettled == Spec => []Settled
<1>1. Init => Absent /\ Apart /\ Home /\ Told /\ NoSilentRepeat
  <2> SUFFICES ASSUME Init PROVE Absent /\ Apart /\ Home /\ Told /\ NoSilentRepeat
    OBVIOUS
  <2>q. queue = [n \in Names |-> EmptyQueue]
    BY Zenon DEF Init
  <2>0. \A n \in Names : queue[n] = EmptyQueue
    BY <2>q
  <2>1. \A n \in Names : Items(n) = {}
    <3>1. ItemSet(EmptyQueue.items) = {}
      BY EmptySeq DEF EmptyQueue, ItemSet
    <3> QED BY <2>0, <3>1 DEF Items
  <2>4. Absent
    BY <2>0, EmptyQueueIsEntry DEF Absent
  <2>2. \A b \in Bells : advance[b].phase = "idle"
    BY DEF Init, Idle
  <2>3. Pending = {}
    BY <2>1 DEF Pending, Items
  <2> QED BY <2>1, <2>2, <2>3, <2>4 DEF Apart, Home, Told, NoSilentRepeat, Running
<1>2. Settled /\ [Next]_vars => (Absent /\ Apart /\ Home /\ Told /\ NoSilentRepeat)'
  BY AbsentNext, ApartNext, HomeNext, ToldNext, RepeatNext DEF Settled
<1>3. TypeOK /\ SingleFlight /\ Known /\ Absent /\ Apart /\ Home /\ Told /\ NoSilentRepeat <=> Settled
  BY DEF Settled
<1> QED BY <1>1, <1>2, <1>3, TypeCorrect, OneSendPerSession, IdsAreKnown, PTL DEF Spec

\* _advance_followup_queue takes off what it sent: an item whose send was completed
\* is not queued any more, for any number of bells, tabs and restarts.
THEOREM NeverSilentlyRepeated == Spec => []NoSilentRepeat
  BY QueueStaysSettled, PTL DEF Settled

\* remove_item_by_id takes one item, whatever lists the tabs send.
THEOREM IdsAreUnique == Spec => []IdsUnique
<1>1. Settled => IdsUnique
  <2> SUFFICES ASSUME Settled, NEW n \in Names, NEW m \in Names,
                      NEW j \in 1..Len(queue[n].items), NEW k \in 1..Len(queue[m].items),
                      queue[n].items[j].id = queue[m].items[k].id
               PROVE  n = m /\ j = k
    BY DEF IdsUnique
  <2>1. queue[n].items[j] \in Items(n) /\ queue[m].items[k] \in Items(m)
    BY DEF Items, ItemSet
  <2>2. queue[n].items[j] = queue[m].items[k]
    BY <2>1, QueuedIsHeld DEF Settled, Known
  <2>3. n = m
    BY <2>1, <2>2 DEF Settled, Apart
  <2>4. Distinct(queue[n].items)
    BY ListTypes DEF Settled, Known
  <2> QED BY <2>3, <2>4 DEF Distinct
<1> QED BY <1>1, QueueStaysSettled, PTL

\* Neither a send nor a poll nor a handler makes an item vanish that was not
\* typed, reaped with its session, or cleared or replaced by a user.
THEOREM NothingVanishes == Spec => ItemsLeaveForAReason
<1> DEFINE Reason(n, it) == \/ it \in typed
                            \/ poll.held /\ n \notin poll.names
                            \/ ~poll.held /\ stamp' # stamp
                            \/ ~poll.held /\ ~queue'[n].present /\ advance' = advance
           Leaves == \A n \in Names : \A it \in Items(n) \ Items(n)' : Reason(n, it)
<1>1. ASSUME Settled, Next PROVE Leaves
  <2> SUFFICES ASSUME NEW n \in Names, NEW it \in Items(n) \ Items(n)' PROVE Reason(n, it)
    OBVIOUS
  <2>0. TypeOK /\ Known /\ Absent /\ Home /\ Told /\ queue \in [Names -> Entry]
    BY <1>1 DEF Settled, TypeOK
  <2>1. ASSUME NEW m \in Names, AppendFollowup(m) PROVE Reason(n, it)
    BY <2>1, ListTypes, <2>0 DEF AppendFollowup, LockFree
  <2>2. ASSUME NEW m \in Names, ClearFollowups(m) PROVE Reason(n, it)
    <3>1. queue' = [queue EXCEPT ![m] = EmptyQueue] /\ advance' = advance /\ ~poll.held
      BY <2>2 DEF ClearFollowups, LockFree, serverVars
    <3>2. n = m
      BY <2>0, <3>1 DEF Items
    <3> QED BY <2>0, <3>1, <3>2 DEF EmptyQueue
  <2>3. ASSUME NEW m \in Names, ResumeFollowups(m) PROVE FALSE
    <3>1. queue' = [queue EXCEPT ![m] = ResumeQueue(queue[m])]
      BY <2>3 DEF ResumeFollowups
    <3>2. ResumeQueue(queue[m]).items = queue[m].items
      BY <2>0 DEF ResumeQueue, Entry
    <3> QED BY <2>0, <3>1, <3>2 DEF Items
  <2>4. ASSUME NEW b \in Bells, FinishAdvance(b) PROVE it \in typed
    <3>1. Running(b) /\ advance[b].phase \in {"sent", "failed"}
      BY <2>4 DEF FinishAdvance, Running
    <3>2. advance[b].phase = "sent" /\ it.id = advance[b].item.id
      BY <2>0, <2>4, <3>1, FinishItems
    <3>3. it = advance[b].item
      BY <2>0, <3>1, <3>2, QueuedIsHeld DEF Known
    <3> QED BY <2>0, <3>2, <3>3 DEF Told
  <2>5. ASSUME NEW c \in Clients, PutAccepted(c) PROVE Reason(n, it)
    BY <2>5, ListTypes, <2>0 DEF PutAccepted, LockFree
  <2>6. ASSUME PollApply PROVE Reason(n, it)
    <3>1. poll.held /\ queue' \in {queue, Reaped(queue)}
      BY <2>6 DEF PollApply
    <3>2. n \in poll.names => queue'[n] = queue[n]
      BY <3>1 DEF Reaped
    <3> QED BY <3>1, <3>2 DEF Items
  <2>7. ASSUME queue' = queue PROVE FALSE
    BY <2>7 DEF Items
  <2> QED BY <1>1, <2>1, <2>2, <2>3, <2>4, <2>5, <2>6, <2>7, QueueStep
<1>2. Settled /\ [Next]_vars => [Leaves]_queue
  BY <1>1 DEF vars, serverVars
<1>3. [Leaves]_queue <=> [\A n \in Names : \A it \in ItemSet(queue[n].items) \ ItemSet(queue'[n].items) :
          \/ it \in typed
          \/ poll.held /\ n \notin poll.names
          \/ ~poll.held /\ stamp' # stamp
          \/ ~poll.held /\ ~queue'[n].present /\ advance' = advance]_queue
  BY DEF Items
<1> QED BY <1>2, <1>3, QueueStaysSettled, PTL DEF Spec, ItemsLeaveForAReason

\* A halt ends by resume_queue, which leaves the list alone, or with the queue.
THEOREM HaltsEndAlone == Spec => HaltLiftedAlone
<1> DEFINE Alone == \A n \in Names : queue[n].halted # NoItem /\ queue'[n].halted = NoItem =>
          \/ queue'[n] = EmptyQueue
          \/ queue'[n].items = queue[n].items /\ queue'[n].revision = queue[n].revision
<1>1. ASSUME TypeOK, Next PROVE Alone
  <2>0. queue \in [Names -> Entry]
    BY <1>1 DEF TypeOK
  <2>1. ASSUME NEW n, NEW q, queue' = [queue EXCEPT ![n] = q],
               n \in Names => \/ q.halted = queue[n].halted \/ q = EmptyQueue
                              \/ q.items = queue[n].items /\ q.revision = queue[n].revision
        PROVE  Alone
    BY <2>0, <2>1
  <2>2. ASSUME NEW n \in Names, AppendFollowup(n) PROVE Alone
    <3>1. PICK item : queue' = [queue EXCEPT ![n] = AppendItem(queue[n], item)]
      BY <2>2 DEF AppendFollowup
    <3>2. AppendItem(queue[n], item).halted = queue[n].halted
      BY <2>0 DEF AppendItem, Entry
    <3> QED BY <2>1, <3>1, <3>2
  <2>3. ASSUME NEW n \in Names, ClearFollowups(n) PROVE Alone
    BY <2>1, <2>3 DEF ClearFollowups
  <2>4. ASSUME NEW n \in Names, ResumeFollowups(n) PROVE Alone
    <3>1. /\ ResumeQueue(queue[n]).items = queue[n].items
          /\ ResumeQueue(queue[n]).revision = queue[n].revision
      BY <2>0 DEF ResumeQueue, Entry
    <3> QED BY <2>1, <2>4, <3>1 DEF ResumeFollowups
  <2>5. ASSUME NEW b \in Bells, FinishAdvance(b) PROVE Alone
    <3> DEFINE n == advance[b].name
               q == Outcome(queue[n], advance[b])
    <3>1. n \in Names /\ advance[b].item.id \in Id /\ queue' = [queue EXCEPT ![n] = q]
      BY <1>1, <2>5, RunningAdvance DEF FinishAdvance, TypeOK
    <3>2. CASE q = queue[n]
      BY <2>1, <3>1, <3>2
    <3>3. CASE q = SetHalted(queue[n], advance[b].item.id)
      <4>1. q.items = queue[n].items /\ q.revision = queue[n].revision
        BY <2>0, <3>1, <3>3 DEF SetHalted, Entry
      <4> QED BY <2>1, <3>1, <4>1
    <3>4. CASE q = RemoveItemById(queue[n], advance[b].item.id)
      <4>1. q.halted = queue[n].halted
        BY <2>0, <3>1, <3>4, RemoveType
      <4> QED BY <2>1, <3>1, <4>1
    <3> QED BY <3>2, <3>3, <3>4 DEF Outcome
  <2>6. ASSUME PollApply PROVE Alone
    BY <2>0, <2>6 DEF PollApply, Reaped
  <2>7. ASSUME NEW c \in Clients, PutAccepted(c) PROVE Alone
    <3> DEFINE n == request[c].session
               q == ReplaceItems(queue[n], request[c].items, stamp)
    <3>1. n \in Names /\ request[c].items \in Seq(Item) /\ stamp \in Nat
          /\ queue' = [queue EXCEPT ![n] = q]
      BY <1>1, <2>7 DEF PutAccepted, TypeOK, Request
    <3>2. q.halted = queue[n].halted
      BY <2>0, <3>1, ReplaceType
    <3> HIDE DEF q
    <3> QED BY <2>1, <3>1, <3>2
  <2>8. ASSUME queue' = queue PROVE Alone
    BY <2>8
  <2> QED BY <1>1, <2>2, <2>3, <2>4, <2>5, <2>6, <2>7, <2>8, QueueStep
<1>2. TypeOK /\ [Next]_vars => [Alone]_queue
  BY <1>1 DEF vars, serverVars
<1> QED BY <1>2, TypeCorrect, PTL DEF Spec, HaltLiftedAlone

-----------------------------------------------------------------------------
(* The contract *)

FreshIds == {id \in (1..MaxStamp) \X (1..MaxFollowups) : id[1] >= stamp}
PendingIds == {it.id : it \in Pending}
TypingIds == [n \in Names |->
    {advance[b].item.id : b \in {x \in Bells : Running(x) /\ advance[x].name = n}}]

\* Every step of handlers, sends, polls, tabs and restarts is a step of the
\* contract: the ids that left never return, and a send begins on a queued item.
THEOREM QueueKeepsContract == Spec => ImplementsContract
<1> USE DEF FreshIds, PendingIds, TypingIds
<1>1. Init => Contract!Init
  <2> SUFFICES ASSUME Init PROVE Contract!Init
    OBVIOUS
  <2>1. \A n \in Names : ItemSet(queue[n].items) = {}
    <3>1. ItemSet(EmptyQueue.items) = {}
      BY EmptySeq DEF EmptyQueue, ItemSet
    <3>2. queue = [n \in Names |-> EmptyQueue]
      BY Zenon DEF Init
    <3> HIDE DEF Init
    <3> QED BY <3>1, <3>2
  <2>2. PendingIds = {}
    BY <2>1 DEF Pending
  <2>3. TypingIds = [n \in Names |-> {}]
    BY DEF Init, Running, Idle
  <2>4. FreshIds = (1..MaxStamp) \X (1..MaxFollowups)
    BY DEF Init
  <2> QED BY <2>2, <2>3, <2>4 DEF Contract!Init
<1> HIDE DEF FreshIds, PendingIds, TypingIds
<1>2. Settled /\ Settled' /\ [Next]_vars => [Contract!Next]_(Contract!vars)
  <2> SUFFICES ASSUME Settled, Settled', [Next]_vars PROVE [Contract!Next]_(Contract!vars)
    OBVIOUS
  <2>0. /\ TypeOK /\ Known /\ SingleFlight /\ Absent /\ Home
        /\ stamp \in 1..MaxStamp /\ stamp' \in 1..MaxStamp /\ advance \in [Bells -> Advance]
    BY DEF Settled, TypeOK
  <2>p. PendingIds = UNION {{x.id : x \in Items(n)} : n \in Names}
    BY DEF PendingIds, Pending, Items
  <2>q. PendingIds' = UNION {{x.id : x \in Items(n)'} : n \in Names}
    BY DEF PendingIds, Pending, Items
  <2>1. ASSUME Next PROVE PendingIds' \subseteq PendingIds \cup FreshIds
    <3>1. \A x \in Made(stamp) : x.id \in FreshIds
      BY <2>0 DEF Made, FreshIds
    <3>2. \A n \in Names : \A x \in Items(n)' : x \in Items(n) \/ x \in Made(stamp)
      BY <2>0, <2>1, Arrivals
    <3> QED BY <2>p, <2>q, <3>1, <3>2
  <2>2. ASSUME Next PROVE FreshIds' \subseteq FreshIds \ PendingIds'
    <3>1. stamp' \in {stamp, stamp + 1}
      BY <2>0, <2>2, ListsNext
    <3>2. \A n \in Names : \A x \in Items(n)' : x.id[1] < stamp'
      <4>1. \A n \in Names : Items(n)' \subseteq Held'
        <5>1. \A n \in Names : queue'[n].items \in Lists'
          BY DEF Lists
        <5>2. \A s \in Lists' : ItemSet(s) \subseteq Held'
          BY DEF Held
        <5> QED BY <5>1, <5>2 DEF Items
      <4>2. \A x \in Held' : x.id \in (1..(stamp' - 1)) \X (1..MaxFollowups)
        BY DEF Settled, Known
      <4> QED BY <2>0, <4>1, <4>2
    <3>3. \A i \in PendingIds' : i[1] < stamp'
      BY <2>q, <3>2
    <3> QED BY <2>0, <3>1, <3>3 DEF FreshIds
  <2>e. ASSUME Next, TypingIds' = TypingIds PROVE Contract!Next
    BY <2>1, <2>2, <2>e DEF Contract!Next, Contract!Edit, FreshIds, PendingIds, TypingIds
  <2>3. ASSUME NEW b \in Bells, NEW n \in Names, BeginAdvance(b, n) PROVE Contract!Next
    <3> DEFINE i == Head(queue[n].items).id
    <3>1. queue[n].items \in Seq(Item) /\ queue[n].items # <<>> /\ n \notin sending
          /\ queue' = queue /\ stamp' = stamp /\ ~Running(b)
      BY <2>0, <2>3, ListTypes DEF BeginAdvance, AcceptanceOk, Ready, historyVars
    <3>2. Head(queue[n].items) \in Items(n)
      BY <3>1, HeadTailProperties, EmptySeq DEF Items, ItemSet
    <3>3. i \in PendingIds
      BY <2>p, <3>2
    <3>4. i \in (1..MaxStamp) \X (1..MaxFollowups)
      <4>1. i \in (1..(stamp - 1)) \X (1..MaxFollowups)
        BY <2>0, <3>2, QueuedIsHeld DEF Known
      <4> QED BY <2>0, <4>1
    <3>5. /\ advance'[b].item.id = i /\ advance'[b].name = n /\ advance'[b].phase # "idle"
          /\ \A x \in Bells \ {b} : advance'[x] = advance[x]
      BY <2>0, <2>3 DEF BeginAdvance
    <3> HIDE DEF i
    <3>6. TypingIds[n] = {}
      BY <2>0, <3>1 DEF TypingIds, SingleFlight
    <3>7. TypingIds' = [TypingIds EXCEPT ![n] = {i}]
      <4>1. \A x \in Bells : Running(x)' <=> Running(x) \/ x = b
        BY <3>5 DEF Running
      <4>2. \A x \in Bells : Running(x) => advance[x].name # n
        BY <2>0, <3>1 DEF SingleFlight
      <4>3. \A m \in Names : TypingIds'[m] = IF m = n THEN {i} ELSE TypingIds[m]
        BY <3>1, <3>5, <4>1, <4>2 DEF TypingIds
      <4> QED BY <4>3 DEF TypingIds
    <3>8. PendingIds' = PendingIds /\ FreshIds' = FreshIds
      BY <3>1 DEF PendingIds, Pending, FreshIds
    <3> QED BY <3>3, <3>4, <3>6, <3>7, <3>8
            DEF Contract!Next, Contract!Begin, FreshIds, PendingIds, TypingIds
  <2>4. ASSUME NEW b \in Bells, TypeText(b) \/ TypeEnter(b) PROVE TypingIds' = TypingIds
    <3>1. Running(b) /\ advance[b] \in Advance
      BY <2>0, <2>4 DEF TypeText, TypeEnter, Running
    <3>2. PICK p \in Phase : advance' = [advance EXCEPT ![b].phase = p]
      BY <2>4 DEF TypeText, TypeEnter, Phase
    <3>3. advance[b] \in [phase : Phase, name : Names, item : Item]
      BY <3>1 DEF Running, Advance
    <3>4. /\ advance'[b].item = advance[b].item /\ advance'[b].name = advance[b].name
          /\ advance'[b].phase # "idle"
          /\ \A x \in Bells \ {b} : advance'[x] = advance[x]
      BY <2>0, <3>2, <3>3 DEF Phase
    <3>5. \A x \in Bells : /\ Running(x)' <=> Running(x)
                           /\ Running(x) => advance'[x].item = advance[x].item
                                            /\ advance'[x].name = advance[x].name
      BY <3>1, <3>4 DEF Running
    <3> QED BY <3>5 DEF TypingIds
  <2>5. ASSUME Next, NEW b \in Bells, FinishAdvance(b) PROVE Contract!Next
    <3> PICK n \in Names, i \in Id : n = advance[b].name /\ i = advance[b].item.id
      BY <2>0, <2>5, RunningAdvance DEF FinishAdvance
    <3>1. Running(b) /\ advance[b].phase \in {"sent", "failed"} /\ stamp' = stamp
          /\ advance' = [advance EXCEPT ![b] = Idle]
      BY <2>5 DEF FinishAdvance, Running, historyVars
    <3>2. \A x \in Bells : Running(x)' <=> Running(x) /\ x # b
      BY <2>0, <3>1 DEF Running, Idle
    <3>3. \A x \in Bells : Running(x) /\ advance[x].name = n => x = b
      BY <2>0, <3>1 DEF SingleFlight
    <3>4. TypingIds[n] = {i}
      BY <3>1, <3>3 DEF TypingIds
    <3>5. TypingIds' = [TypingIds EXCEPT ![n] = {}]
      <4>1. \A x \in Bells \ {b} : advance'[x] = advance[x]
        BY <2>0, <3>1
      <4>2. \A m \in Names : TypingIds'[m] = IF m = n THEN {} ELSE TypingIds[m]
        BY <3>2, <3>3, <4>1 DEF TypingIds
      <4> QED BY <4>2 DEF TypingIds
    <3>6. PendingIds' \in {PendingIds, PendingIds \ {i}}
      <4>1. CASE advance[b].phase = "sent"
        <5>1. \A m \in Names : Items(m)' = {x \in Items(m) : x.id # i}
          BY <2>0, <2>5, <4>1, FinishItems
        <5> QED BY <2>p, <2>q, <5>1
      <4>2. CASE advance[b].phase = "failed"
        <5>1. \A m \in Names : Items(m)' = Items(m)
          BY <2>0, <2>5, <4>2, FinishItems
        <5> QED BY <2>p, <2>q, <5>1
      <4> QED BY <3>1, <4>1, <4>2
    <3>7. FreshIds' = FreshIds
      BY <3>1 DEF FreshIds
    <3> QED BY <3>4, <3>5, <3>6, <3>7
            DEF Contract!Next, Contract!End, FreshIds, PendingIds, TypingIds
  <2>6. CASE Restart
    <3>1. queue' = queue /\ stamp' = stamp /\ advance' = [b \in Bells |-> Idle]
      BY <2>6 DEF Restart
    <3>2. \A x \in Bells : ~Running(x)'
      BY <3>1 DEF Running, Idle
    <3>3. TypingIds' = [n \in Names |-> {}]
      BY <3>2 DEF TypingIds
    <3>4. PendingIds' = PendingIds /\ FreshIds' = FreshIds
      BY <3>1 DEF PendingIds, Pending, FreshIds
    <3> QED BY <3>3, <3>4 DEF Contract!Next, Contract!Crash, FreshIds, PendingIds, TypingIds
  <2>7. ASSUME advance' = advance PROVE TypingIds' = TypingIds
    BY <2>7 DEF TypingIds, Running
  <2>8. CASE UNCHANGED vars
    <3>1. queue' = queue /\ stamp' = stamp /\ advance' = advance
      BY <2>8 DEF vars, serverVars, historyVars
    <3>2. TypingIds' = TypingIds /\ PendingIds' = PendingIds /\ FreshIds' = FreshIds
      BY <2>7, <3>1 DEF PendingIds, Pending, FreshIds
    <3> QED BY <3>2 DEF Contract!vars, FreshIds, PendingIds, TypingIds
  <2> QED BY <2>3, <2>4, <2>5, <2>6, <2>7, <2>8, <2>e, FlightStep
<1> QED BY <1>1, <1>2, QueueStaysSettled, PTL DEF Spec, ImplementsContract, Contract!Spec
=============================================================================
