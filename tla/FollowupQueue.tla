--------------------------- MODULE FollowupQueue ---------------------------
(***************************************************************************)
(* One entry of state["followups"], and the pure helpers of followups.py   *)
(* that read and change it.                                                *)
(*                                                                         *)
(* An absent entry and an empty one look the same to every reader          *)
(* (get_queue returns a throwaway empty_queue()), so both are records; the *)
(* field "present" tells them apart where the code does.                   *)
(*                                                                         *)
(* An item is [id, intent].  The id is the uuid the server gives it: here  *)
(* <<stamp, position>>, with a stamp that no earlier request used.  The    *)
(* intent names what the user asked for; it stands for the item's text.    *)
(***************************************************************************)
EXTENDS Naturals, Sequences

CONSTANTS Names,         \* session names
          MaxFollowups   \* MAX_FOLLOWUPS

ASSUME MaxFollowupsAssumption == MaxFollowups \in Nat \ {0}

Id     == Nat \X Nat
NoItem == <<0, 0>>                 \* stamps start at 1
Item   == [id : Id, intent : Nat]

\* halted holds the item_id of the halt, NoItem for None.
Entry == [present : BOOLEAN, revision : Nat, items : Seq(Item), halted : Id]

EmptyQueue ==
    [present |-> FALSE, revision |-> 0, items |-> <<>>, halted |-> NoItem]

ItemSet(s) == {s[k] : k \in 1..Len(s)}
IdSet(s)   == {s[k].id : k \in 1..Len(s)}

PruneIfEmpty(q) ==
    IF q.items = <<>> /\ q.halted = NoItem THEN EmptyQueue ELSE q

AppendItem(q, item) ==
    [q EXCEPT !.present = TRUE, !.revision = @ + 1, !.items = Append(@, item)]

\* The check append_followup makes before it appends.
HasRoomOffByOne(q) == Len(q.items) <= MaxFollowups   \* mutant

HasRoom(q) == Len(q.items) < MaxFollowups

\* mutant: the id of a raw item is taken from the client.
RenewedTrustingIds(q, raw, stamp) == raw

\* A raw item whose id the queue does not know becomes a new item, under a
\* new id, with the text the client sent.
Renewed(q, raw, stamp) ==
    [k \in 1..Len(raw) |->
        IF raw[k].id \in IdSet(q.items)
          THEN raw[k]
          ELSE [raw[k] EXCEPT !.id = <<stamp, k>>]]

\* mutant: the list sent is added to the one held.
MergeItems(q, raw, stamp) ==
    [present  |-> TRUE, revision |-> q.revision + 1,
     items    |-> q.items \o Renewed(q, raw, stamp), halted |-> q.halted]

\* mutant: an edit lifts the halt.
ReplaceAndUnhalt(q, raw, stamp) ==
    PruneIfEmpty([present  |-> TRUE, revision |-> q.revision + 1,
                  items    |-> Renewed(q, raw, stamp), halted |-> NoItem])

ReplaceItems(q, raw, stamp) ==
    PruneIfEmpty([present  |-> TRUE,
                  revision |-> q.revision + 1,
                  items    |-> Renewed(q, raw, stamp),
                  halted   |-> q.halted])

ResumeQueue(q) == [q EXCEPT !.halted = NoItem]

SetHalted(q, id) == [q EXCEPT !.present = TRUE, !.halted = id]

DropAt(items, k) ==
    [i \in 1..(Len(items) - 1) |-> IF i < k THEN items[i] ELSE items[i + 1]]

\* An id occurs at most once in a list (IdsUnique in Followups), so filtering
\* it out drops one position.
PositionOf(items, id) == CHOOSE k \in 1..Len(items) : items[k].id = id

\* mutant: the item comes off the wrong end.
WithoutLast(items, id) == DropAt(items, Len(items))

WithoutId(items, id) == DropAt(items, PositionOf(items, id))

RemoveItemById(q, id) ==
    IF id \in IdSet(q.items)
      THEN PruneIfEmpty([q EXCEPT !.revision = @ + 1,
                                  !.items    = WithoutId(@, id)])
      ELSE q

ReadyThoughHalted(q) == q.items # <<>>   \* mutant

\* The part of acceptance_ok that reads the queue alone.
Ready(q) == q.items # <<>> /\ q.halted = NoItem
=============================================================================
