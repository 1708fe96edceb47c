--------------------------- MODULE SettingsStore ---------------------------
(***************************************************************************)
(* settings.json (settings.py): the server and the command line read it,   *)
(* change it under the cross-process lock, and publish it by renaming a    *)
(* staged copy.  Processes die at any step; the user edits it by hand.     *)
(*                                                                         *)
(* What a setting means is left out: an edit is a number, a setting keeps  *)
(* the number of the edit that set it.  Of settings-history only this is   *)
(* kept: whether it has a copy of the file the user broke.  Renaming and   *)
(* locking a file is taken to work.                                        *)
(***************************************************************************)
EXTENDS Naturals

CONSTANTS Procs,        \* the server, and commands that run while it does
          Nobody,       \* not a process
          Settings,     \* the settings, each command pair counted as one
          CommandPairs, \* the command pairs: only the operator's commands set them
          MaxWrites     \* bound: edits

ASSUME NobodyAssumption == Nobody \notin Procs
ASSUME PairsAssumption  == CommandPairs \subseteq Settings

VARIABLES file,   \* settings.json: absent, unreadable, or what is set
          aside,  \* there is a copy of it: settings.json.corrupt-* or a snapshot
          lock,   \* the holder of settings.json.lock
          proc,   \* what each process does
          writes, \* how many edits there were
          wanted, \* history: what the published edits have set
          hand,   \* history: the user has broken the file
          late,   \* history: a load acted on a file that was replaced meanwhile
          uncopied \* history: a reset replaced the broken file, and no snapshot kept it

storeVars == <<file, aside, lock, proc, writes, wanted, hand, late, uncopied>>

Defaults == [k \in Settings |-> 0]
\* legacy: the retired showHoverPreview is still in the file.
Json(set, legacy) == [is |-> "json", set |-> set, legacy |-> legacy]
Absent == [is |-> "absent", set |-> Defaults, legacy |-> FALSE]
Broken == [is |-> "broken", set |-> Defaults, legacy |-> FALSE]

\* at is the next step, then the one after a load, data what was loaded.
AtRest == [at |-> "idle", then |-> "release", op |-> "read", keys |-> {}, edit |-> 0,
         read |-> Absent, data |-> Defaults]

Goes(p, at) == proc' = [proc EXCEPT ![p].at = at]

-----------------------------------------------------------------------------
(* settings_write_lock *)

\* The lock is free, or the process has it already: nesting reuses it.
FreeOnly(p) == lock = Nobody   \* mutant: a second descriptor on the same file
MayLock(p) == lock \in {Nobody, p}

Acquire(p, at) == MayLock(p) /\ lock' = p /\ Goes(p, at)

\* The operation ends, and with it the window it has locked, if any.
Release(p) ==
  /\ proc[p].at = "release"
  /\ lock' = IF lock = p THEN Nobody ELSE lock
  /\ proc' = [proc EXCEPT ![p] = AtRest]
  /\ UNCHANGED <<file, aside, writes, wanted, hand, late, uncopied>>

-----------------------------------------------------------------------------
(* The operations that start *)

\* Every endpoint and command loads the settings, without the lock.
Reader(p) ==
  /\ proc[p].at = "idle"
  /\ proc' = [proc EXCEPT ![p].at = "load"]
  /\ UNCHANGED <<file, aside, lock, writes, wanted, hand, late, uncopied>>

\* A read-modify-write locks its whole window, from the load on.
Unlocked(p) == lock' = lock   \* mutant: only the save is locked
Window(p) == MayLock(p) /\ lock' = p
Begins(p, op, keys, at) ==
  /\ proc[p].at = "idle" /\ writes < MaxWrites
  /\ writes' = writes + 1
  /\ proc' = [proc EXCEPT ![p] = [AtRest EXCEPT
       !.at = at, !.then = "change", !.op = op, !.keys = keys, !.edit = writes + 1]]
  /\ UNCHANGED <<file, aside, wanted, hand, late, uncopied>>

\* PATCH, a peer's push, the poll's own writers, config set, tls setup: whatever
\* they name but the pairs, which patch_settings drops.
Patch(p, keys) == keys \cap CommandPairs = {} /\ Window(p) /\ Begins(p, "patch", keys, "load")

CommandsAdd(p, pair) ==
  Window(p) /\ \E op \in {"add", "replace"} : Begins(p, op, {pair}, "load")
CommandsRemove(p, pair) == Window(p) /\ Begins(p, "remove", {pair}, "load")

\* config reset without a key sets everything, and loads nothing.
Reset(p) == MayLock(p) /\ lock' = p /\ Begins(p, "reset", Settings, "snapshot")

-----------------------------------------------------------------------------
(* load_settings *)

\* The text is read and parsed: nothing, defaults, or what was set.
Load(p) ==
  /\ proc[p].at = "load"
  /\ proc' = [proc EXCEPT ![p] = [@ EXCEPT
       !.read = file, !.data = file.set,
       !.at = IF file.is = "broken" THEN "quarantine"
              ELSE IF file.legacy THEN "migrate" ELSE proc[p].then]]
  /\ UNCHANGED <<file, aside, lock, writes, wanted, hand, late, uncopied>>

\* _quarantine_unreadable_settings: whatever is there now is renamed.
LeftThere == UNCHANGED <<file, aside>>   \* mutant: fall back to defaults, and that is all
MovedAside == file' = Absent /\ aside' = (aside \/ file.is = "broken")
Quarantine(p) ==
  /\ proc[p].at = "quarantine"
  /\ IF file.is = "absent" THEN UNCHANGED <<file, aside>> ELSE MovedAside
  /\ late' = (late \/ file # proc[p].read)
  /\ Goes(p, proc[p].then)
  /\ UNCHANGED <<lock, writes, wanted, hand, uncopied>>

\* The hover preview's migration is saved at once: what was loaded, under a
\* lock of its own unless the caller has it.
Migrate(p) ==
  /\ proc[p].at = "migrate"
  /\ Acquire(p, "snapshot")
  /\ UNCHANGED <<file, aside, writes, wanted, hand, late, uncopied>>

\* The body of a write.  A pair that is there is added only to replace it, one
\* that is not there is not removed; and anything may be refused for what it says.
Allowed(p) ==
  LET there == \E k \in proc[p].keys : proc[p].data[k] # 0
  IN  CASE proc[p].op = "add" -> ~there [] proc[p].op = "remove" -> there [] OTHER -> TRUE
Change(p) ==
  /\ proc[p].at = "change"
  /\ \/ Allowed(p) /\ Acquire(p, "snapshot")
     \/ Goes(p, "release") /\ UNCHANGED lock
  /\ UNCHANGED <<file, aside, writes, wanted, hand, late, uncopied>>

-----------------------------------------------------------------------------
(* save_settings and atomic_write_text *)

\* _snapshot_current_settings copies the file there is.  The copy may fail, or
\* be pruned at once: a process counts its snapshots from one again, so when the
\* history is full of a longer process's the new one sorts first.
Snapshot(p) ==
  /\ proc[p].at = "snapshot"
  /\ Goes(p, "stage")
  /\ IF file.is # "broken" THEN UNCHANGED <<aside, uncopied>>
     ELSE \/ aside' = TRUE /\ UNCHANGED uncopied
          \/ uncopied' = (uncopied \/ proc[p].op = "reset") /\ UNCHANGED aside
  /\ UNCHANGED <<file, lock, writes, wanted, hand, late>>

\* A staged copy of its own beside the file; the disk may be full.
StagedInPlace(p) == file' = Broken   \* mutant: write_text truncates the file
Staged(p) == UNCHANGED file
Stage(p) ==
  /\ proc[p].at = "stage"
  /\ \/ Staged(p) /\ Goes(p, "publish")
     \/ UNCHANGED file /\ Goes(p, "release")
  /\ UNCHANGED <<aside, lock, writes, wanted, hand, late, uncopied>>

\* The file gets the operation's own keys over what was loaded; a migration's
\* save is of what was loaded alone, and its window goes on after it.
Migrating(p) == proc[p].read.legacy
Over(p, set) ==
  LET edit == IF proc[p].op = "remove" THEN 0 ELSE proc[p].edit
  IN  IF Migrating(p) THEN set
      ELSE [k \in Settings |-> IF k \in proc[p].keys THEN edit ELSE set[k]]
Publish(p) ==
  /\ proc[p].at = "publish"
  /\ file' = Json(Over(p, proc[p].data), FALSE)
  /\ wanted' = Over(p, wanted)
  /\ late' = (late \/ (Migrating(p) /\ file # proc[p].read))
  /\ proc' = [proc EXCEPT ![p] = [@ EXCEPT
       !.read = Absent, !.at = IF Migrating(p) THEN proc[p].then ELSE "release"]]
  /\ UNCHANGED <<aside, lock, writes, hand, uncopied>>

-----------------------------------------------------------------------------
\* The process dies: the kernel frees its lock, a staged copy is left over.
Die(p) ==
  /\ proc[p].at # "idle"
  /\ proc' = [proc EXCEPT ![p] = AtRest]
  /\ lock' = IF lock = p THEN Nobody ELSE lock
  /\ UNCHANGED <<file, aside, writes, wanted, hand, late, uncopied>>

\* The user saves something in an editor that is not JSON; not during another's
\* operation, which the lock's comment leaves out as well.
HandEdit ==
  /\ ~hand /\ file.is = "json" /\ \A p \in Procs : proc[p].at = "idle"
  /\ file' = Broken /\ hand' = TRUE
  /\ UNCHANGED <<aside, lock, proc, writes, wanted, late, uncopied>>

StoreInit ==
  /\ file \in {Absent, Json(Defaults, FALSE), Json(Defaults, TRUE)}
  /\ aside = FALSE
  /\ lock = Nobody
  /\ proc = [p \in Procs |-> AtRest]
  /\ writes = 0
  /\ wanted = Defaults
  /\ hand = FALSE
  /\ late = FALSE
  /\ uncopied = FALSE

Step(p) ==
  \/ Load(p) \/ Quarantine(p) \/ Migrate(p) \/ Change(p)
  \/ Snapshot(p) \/ Stage(p) \/ Publish(p) \/ Release(p)

StoreNext ==
  \/ \E p \in Procs :
       \/ Reader(p) \/ Step(p) \/ Die(p)
       \/ Reset(p)
       \/ \E keys \in SUBSET Settings \ {{}} : Patch(p, keys)
       \/ \E pair \in CommandPairs : CommandsAdd(p, pair) \/ CommandsRemove(p, pair)
  \/ HandEdit

\* A process that has begun an operation runs on.
StoreFairness == \A p \in Procs : WF_storeVars(Step(p))

StoreSpec == StoreInit /\ [][StoreNext]_storeVars /\ StoreFairness

-----------------------------------------------------------------------------
(* Properties *)

\* What is published stays: no write drops another's, of the same process or a
\* different one, whoever dies; but for a load that acted too late, and for
\* what the user has broken.
EditsStand ==
  ~late /\ ~hand /\ file.is = "json" => file.set = wanted

\* Only the user's hand makes the file unreadable or removes it: a reader never
\* meets half a write, and a process that dies leaves the old file or the new.
Whole == ~hand => file.is # "broken" /\ (wanted # Defaults => file.is = "json")

\* What the user has broken is never written over while it is the only copy:
\* every load moves it away first.  A reset loads nothing: it relies on its
\* snapshot.
BrokenIsKept == hand /\ ~late /\ ~uncopied => file.is = "broken" \/ aside

\* The lock is free again and again: no holder keeps it, by waiting for a lock of
\* its own or by dying.
LockIsFreed == []<>(lock = Nobody)

\* The comment's own requirement, which the late loads break.
NothingDiscarded == ~hand /\ file.is = "json" => file.set = wanted
=============================================================================
