--------------------------- MODULE SettingsProofs ---------------------------
(***************************************************************************)
(* Proofs about SettingsStore, the file of one machine, SettingsSync, the  *)
(* servers that exchange what is in it, and Pruning, which drops the pins  *)
(* of sessions that are gone.                                              *)
(***************************************************************************)
EXTENDS SettingsStore, SettingsSync, Pruning, TLAPS

-----------------------------------------------------------------------------
(* Whatever the processes, settings and edits: published edits stand, the
   file is whole, and what the user has broken is kept. *)

Valuations == [Settings -> Nat]
Files == {Absent, Broken} \cup {Json(set, legacy) : set \in Valuations, legacy \in BOOLEAN}
Saving == {"snapshot", "stage", "publish"}
Ats == {"idle", "load", "quarantine", "migrate", "change", "release"} \cup Saving
Ops == {"read", "patch", "add", "replace", "remove", "reset"}
Process == [at : Ats, then : {"release", "change"}, op : Ops, keys : SUBSET Settings,
            edit : Nat, read : Files, data : Valuations]

StoreTypeOK ==
  /\ file \in Files
  /\ aside \in BOOLEAN
  /\ lock \in Procs \cup {Nobody}
  /\ proc \in [Procs -> Process]
  /\ writes \in Nat
  /\ wanted \in Valuations
  /\ hand \in BOOLEAN /\ late \in BOOLEAN /\ uncopied \in BOOLEAN

\* What a process has loaded agrees with where it is.
Sound(p) ==
  /\ proc[p].at = "idle" => proc[p] = AtRest
  /\ proc[p].then = IF proc[p].op = "read" THEN "release" ELSE "change"
  /\ proc[p].op = "reset" => /\ proc[p].keys = Settings /\ ~proc[p].read.legacy
                             /\ proc[p].at \in Saving \cup {"release"}
  /\ proc[p].at = "quarantine" => hand /\ ~proc[p].read.legacy
  /\ proc[p].at = "change" => proc[p].op # "read" /\ ~proc[p].read.legacy
  /\ proc[p].at = "migrate" => proc[p].read.legacy
  /\ proc[p].at \in Saving => proc[p].read.legacy \/ proc[p].op # "read"
  /\ proc[p].at \in Saving \cup {"migrate"} /\ proc[p].read.legacy
       => proc[p].data = proc[p].read.set

\* Who saves has the lock, and a writer has it from its load on.
Locked(p) ==
  \/ lock = p
  \/ proc[p].at \in {"idle", "release"}
  \/ proc[p].op = "read" /\ proc[p].at \notin Saving

\* A writer saves over what has been published.
Current(p) ==
  /\ ~late /\ ~hand
  /\ proc[p].at \in Saving \cup {"change"}
  /\ ~proc[p].read.legacy /\ proc[p].op # "reset"
  => proc[p].data = wanted

\* Only a reset is anywhere near saving while the file is broken.
Careful(p) ==
  file.is = "broken" =>
    \/ proc[p].at \in {"idle", "load", "quarantine", "release"}
    \/ /\ proc[p].op = "reset" /\ proc[p].at \in Saving
       /\ proc[p].at = "snapshot" \/ aside \/ uncopied

Published == ~late /\ ~hand => file.set = wanted

StoreInv ==
  /\ StoreTypeOK
  /\ \A p \in Procs : Sound(p)
  /\ \A p \in Procs : Locked(p)
  /\ \A p \in Procs : Current(p)
  /\ \A p \in Procs : Careful(p)
  /\ Published /\ Whole /\ BrokenIsKept

-----------------------------------------------------------------------------
LEMMA FileFacts ==
    /\ Absent \in Files /\ Broken \in Files /\ Defaults \in Valuations
    /\ \A set \in Valuations, legacy \in BOOLEAN :
         /\ Json(set, legacy) \in Files
         /\ Json(set, legacy).is = "json" /\ Json(set, legacy).set = set
         /\ Json(set, legacy).legacy = legacy
    /\ \A f \in Files :
         /\ f.is \in {"absent", "json", "broken"}
         /\ f.set \in Valuations /\ f.legacy \in BOOLEAN
         /\ f.is = "absent" => f = Absent
         /\ f.is = "broken" => f = Broken
         /\ f.legacy => f.is = "json"
    /\ Absent.is = "absent" /\ Absent.set = Defaults /\ ~Absent.legacy
    /\ Broken.is = "broken" /\ Broken.set = Defaults /\ ~Broken.legacy
<1>1. Defaults \in Valuations
  BY DEF Defaults, Valuations
<1>2. \A set, legacy : /\ Json(set, legacy).is = "json" /\ Json(set, legacy).set = set
                       /\ Json(set, legacy).legacy = legacy
  BY DEF Json
<1>3. /\ Absent.is = "absent" /\ Absent.set = Defaults /\ ~Absent.legacy
      /\ Broken.is = "broken" /\ Broken.set = Defaults /\ ~Broken.legacy
  BY DEF Absent, Broken
<1>4. Absent \in Files /\ Broken \in Files
  BY DEF Files
<1>5. \A set \in Valuations, legacy \in BOOLEAN : Json(set, legacy) \in Files
  BY DEF Files
<1>6. ASSUME NEW f \in Files
      PROVE  /\ f.is \in {"absent", "json", "broken"}
             /\ f.set \in Valuations /\ f.legacy \in BOOLEAN
             /\ f.is = "absent" => f = Absent
             /\ f.is = "broken" => f = Broken
             /\ f.legacy => f.is = "json"
  <2>1. CASE f = Absent
    <3>1. f.is = "absent" /\ f.set = Defaults /\ f.legacy = FALSE
      BY <2>1 DEF Absent
    <3> QED
      BY <2>1, <3>1, <1>1
  <2>0. CASE f = Broken
    <3>1. f.is = "broken" /\ f.set = Defaults /\ f.legacy = FALSE
      BY <2>0 DEF Broken
    <3> QED
      BY <2>0, <3>1, <1>1
  <2>2. CASE \E set \in Valuations, legacy \in BOOLEAN : f = Json(set, legacy)
    <3>1. PICK set \in Valuations, legacy \in BOOLEAN : f = Json(set, legacy)
      BY <2>2
    <3>2. f.is = "json" /\ f.set \in Valuations /\ f.legacy \in BOOLEAN
      BY <3>1, <1>2
    <3> QED
      BY <3>2
  <2> QED
    BY <2>0, <2>1, <2>2 DEF Files
<1> QED
  BY <1>1, <1>2, <1>3, <1>4, <1>5, <1>6

LEMMA IdleFacts ==
    /\ AtRest \in Process
    /\ AtRest.at = "idle" /\ AtRest.then = "release" /\ AtRest.op = "read"
    /\ AtRest.read = Absent /\ ~AtRest.read.legacy
<1>1. /\ "idle" \in Ats /\ "release" \in {"release", "change"} /\ "read" \in Ops
      /\ {} \in SUBSET Settings /\ 0 \in Nat
  BY DEF Ats, Ops
<1>2. AtRest \in Process
  BY <1>1, FileFacts DEF AtRest, Process
<1>3. AtRest.at = "idle" /\ AtRest.then = "release" /\ AtRest.op = "read" /\ AtRest.read = Absent
  BY DEF AtRest
<1> QED
  BY <1>2, <1>3, FileFacts

LEMMA StoreInitInv == StoreInit => StoreInv
<1> SUFFICES ASSUME StoreInit PROVE StoreInv
  OBVIOUS
<1>1. StoreTypeOK /\ file.is # "broken" /\ file.set = Defaults
  <2>1. file \in Files /\ file.is # "broken" /\ file.set = Defaults
    BY FileFacts DEF StoreInit
  <2> QED
    BY <2>1, FileFacts, IdleFacts DEF StoreInit, StoreTypeOK
<1>2. \A p \in Procs : proc[p] = AtRest
  BY DEF StoreInit
<1>3. \A p \in Procs : Sound(p) /\ Locked(p) /\ Current(p) /\ Careful(p)
  BY <1>2, IdleFacts DEF Sound, Locked, Current, Careful, Saving
<1> QED
  BY <1>1, <1>3 DEF StoreInv, StoreInit, Published, Whole, BrokenIsKept

\* A step of p leaves what holds of another process alone: it cannot take the
\* lock from it, nor publish beside it.
LEMMA OthersKept ==
    ASSUME StoreInv, NEW p \in Procs, NEW q \in Procs \ {p},
           proc'[q] = proc[q],
           lock = q => lock' = q,
           hand => hand', late => late', aside => aside', uncopied => uncopied',
           file'.is = "broken" => file.is = "broken",
           wanted' # wanted => lock = p
    PROVE  Sound(q)' /\ Locked(q)' /\ Current(q)' /\ Careful(q)'
<1>1. Sound(q) /\ Locked(q) /\ Current(q) /\ Careful(q)
  BY DEF StoreInv
<1>2. Sound(q)'
  BY <1>1 DEF Sound
<1>3. Locked(q)'
  BY <1>1 DEF Locked
<1>4. Careful(q)'
  BY <1>1 DEF Careful
<1>5. ASSUME lock = p
      PROVE  q # lock /\ (proc[q].at \in Saving \cup {"change"} => proc[q].op = "read")
  BY <1>5, <1>1 DEF Locked, Saving
<1>6. Current(q)'
  <2>1. CASE wanted' = wanted
    BY <1>1, <2>1 DEF Current
  <2>2. CASE wanted' # wanted
    BY <1>1, <1>5, <2>2 DEF Current, Sound, Locked, Saving
  <2> QED
    BY <2>1, <2>2
<1> QED
  BY <1>2, <1>3, <1>4, <1>6

\* What is left to show of a step of p.
LEMMA StepKept ==
    ASSUME StoreInv, NEW p \in Procs, NEW after \in Process,
           proc' = [proc EXCEPT ![p] = after],
           StoreTypeOK',
           lock' = lock \/ lock' = p \/ lock = p,
           lock' # lock => lock \in {Nobody, p},
           hand => hand', late => late', aside => aside', uncopied => uncopied',
           file'.is = "broken" => file.is = "broken",
           wanted' # wanted => lock = p,
           Sound(p)' /\ Locked(p)' /\ Current(p)' /\ Careful(p)',
           (Published /\ Whole /\ BrokenIsKept)'
    PROVE  StoreInv'
<1>1. ASSUME NEW q \in Procs \ {p}
      PROVE  Sound(q)' /\ Locked(q)' /\ Current(q)' /\ Careful(q)'
  <2>1. proc'[q] = proc[q]
    BY DEF StoreInv, StoreTypeOK
  <2>2. lock = q => lock' = q
    BY NobodyAssumption
  <2> QED
    BY <2>1, <2>2, OthersKept
<1>2. \A q \in Procs : Sound(q)' /\ Locked(q)' /\ Current(q)' /\ Careful(q)'
  BY <1>1
<1> QED
  BY <1>2 DEF StoreInv
-----------------------------------------------------------------------------
\* What holds of p before its step.
LEMMA Here ==
    ASSUME StoreInv, NEW p \in Procs
    PROVE  /\ StoreTypeOK /\ Sound(p) /\ Locked(p) /\ Current(p) /\ Careful(p)
           /\ proc[p] \in Process
           /\ proc[p].read \in Files /\ proc[p].data \in Valuations /\ file \in Files
  BY DEF StoreInv, StoreTypeOK, Process

\* A process that goes idle, whatever it was doing.
LEMMA EndKept ==
    ASSUME StoreInv, NEW p \in Procs,
           proc' = [proc EXCEPT ![p] = AtRest],
           lock' = IF lock = p THEN Nobody ELSE lock,
           UNCHANGED <<file, aside, writes, wanted, hand, late, uncopied>>
    PROVE  StoreInv'
<1>1. StoreTypeOK'
  BY IdleFacts DEF StoreInv, StoreTypeOK
<1>2. proc'[p] = AtRest
  BY DEF StoreInv, StoreTypeOK
<1>3. Sound(p)' /\ Locked(p)' /\ Current(p)' /\ Careful(p)'
  BY <1>2, IdleFacts DEF Sound, Locked, Current, Careful, Saving
<1>4. (Published /\ Whole /\ BrokenIsKept)'
  BY DEF StoreInv, Published, Whole, BrokenIsKept
<1> QED
  BY <1>1, <1>3, <1>4, IdleFacts, StepKept

\* A process that leaves idle: a reader, or a writer that has locked.
LEMMA BeginKept ==
    ASSUME StoreInv, NEW p \in Procs, NEW after \in Process,
           proc[p].at = "idle",
           proc' = [proc EXCEPT ![p] = after],
           ~after.read.legacy,
           after.then = IF after.op = "read" THEN "release" ELSE "change",
           \/ after.at = "load" /\ after.op = "read" /\ lock' = lock
           \/ after.at = "load" /\ after.op \notin {"read", "reset"}
                /\ MayLock(p) /\ lock' = p
           \/ after.at = "snapshot" /\ after.op = "reset" /\ after.keys = Settings
                /\ MayLock(p) /\ lock' = p,
           writes' \in Nat,
           UNCHANGED <<file, aside, wanted, hand, late, uncopied>>
    PROVE  StoreInv'
<1>1. StoreTypeOK'
  BY DEF StoreInv, StoreTypeOK
<1>2. proc'[p] = after
  BY DEF StoreInv, StoreTypeOK
<1>3. Sound(p)' /\ Locked(p)' /\ Current(p)' /\ Careful(p)'
  BY <1>2 DEF Sound, Locked, Current, Careful, Saving
<1>4. (Published /\ Whole /\ BrokenIsKept)'
  BY DEF StoreInv, Published, Whole, BrokenIsKept
<1> QED
  BY <1>1, <1>3, <1>4, StepKept DEF MayLock

LEMMA ReaderKept ==
    ASSUME StoreInv, NEW p \in Procs, Reader(p) PROVE StoreInv'
<1> DEFINE after == [proc[p] EXCEPT !.at = "load"]
<1>1. proc[p].at = "idle" /\ proc[p] = AtRest /\ proc[p] \in Process
  BY Here DEF Reader, Sound
<1>2. after \in Process /\ after.at = "load" /\ after.op = "read" /\ ~after.read.legacy
      /\ after.then = "release"
  BY <1>1, IdleFacts DEF Process, Ats
<1>3. proc' = [proc EXCEPT ![p] = after]
  BY DEF Reader, StoreInv, StoreTypeOK
<1>4. writes' \in Nat
  BY DEF Reader, StoreInv, StoreTypeOK
<1> HIDE DEF after
<1> QED
  BY <1>1, <1>2, <1>3, <1>4, BeginKept DEF Reader

\* The operations that write, as Begins describes them.
LEMMA BeginsKept ==
    ASSUME StoreInv, NEW p \in Procs, NEW op \in Ops \ {"read"}, NEW keys \in SUBSET Settings,
           NEW at, at = IF op = "reset" THEN "snapshot" ELSE "load",
           op = "reset" => keys = Settings,
           MayLock(p), lock' = p,
           Begins(p, op, keys, at)
    PROVE  StoreInv'
<1> DEFINE after == [AtRest EXCEPT !.at = at, !.then = "change", !.op = op,
                                 !.keys = keys, !.edit = writes + 1]
<1>1. writes \in Nat
  BY DEF StoreInv, StoreTypeOK
<1>2. /\ after \in Process /\ after.at = at /\ after.op = op /\ after.keys = keys
      /\ after.then = "change" /\ after.read = Absent
  <2>1. at \in Ats /\ op \in Ops /\ writes + 1 \in Nat /\ "change" \in {"release", "change"}
    BY <1>1 DEF Ats, Saving
  <2>2. after \in Process
    BY <2>1, IdleFacts DEF Process
  <2>3. after.at = at /\ after.op = op /\ after.keys = keys /\ after.then = "change"
    BY IdleFacts DEF Process
  <2>4. after.read = AtRest.read
    BY IdleFacts DEF Process
  <2> QED
    BY <2>2, <2>3, <2>4, IdleFacts
<1>3. ~after.read.legacy
  BY <1>2, FileFacts
<1>4. proc' = [proc EXCEPT ![p] = after] /\ writes' \in Nat /\ proc[p].at = "idle"
  BY <1>1 DEF Begins
<1>5. UNCHANGED <<file, aside, wanted, hand, late, uncopied>>
  BY DEF Begins
<1> HIDE DEF after
<1> QED
  BY <1>2, <1>3, <1>4, <1>5, BeginKept

LEMMA StartKept ==
    ASSUME StoreInv, NEW p \in Procs,
           \/ Reset(p)
           \/ \E keys \in SUBSET Settings \ {{}} : Patch(p, keys)
           \/ \E pair \in CommandPairs : CommandsAdd(p, pair) \/ CommandsRemove(p, pair)
    PROVE  StoreInv'
<1>1. CASE Reset(p)
  BY <1>1, BeginsKept DEF Reset, Ops
<1>2. ASSUME NEW keys \in SUBSET Settings, Patch(p, keys) PROVE StoreInv'
  BY <1>2, BeginsKept DEF Patch, Window, Ops
<1>3. ASSUME NEW pair \in CommandPairs, CommandsAdd(p, pair) PROVE StoreInv'
  <2>1. {pair} \in SUBSET Settings
    BY PairsAssumption
  <2>2. PICK op \in {"add", "replace"} : Begins(p, op, {pair}, "load")
    BY <1>3 DEF CommandsAdd
  <2> QED
    BY <1>3, <2>1, <2>2, BeginsKept DEF CommandsAdd, Window, Ops
<1>4. ASSUME NEW pair \in CommandPairs, CommandsRemove(p, pair) PROVE StoreInv'
  <2>1. {pair} \in SUBSET Settings
    BY PairsAssumption
  <2> QED
    BY <1>4, <2>1, BeginsKept DEF CommandsRemove, Window, Ops
<1> QED
  BY <1>1, <1>2, <1>3, <1>4

-----------------------------------------------------------------------------
\* Only the place of p changes.
LEMMA GoesFacts ==
    ASSUME StoreInv, NEW p \in Procs, NEW at \in Ats, Goes(p, at)
    PROVE  \E after \in Process :
             /\ proc' = [proc EXCEPT ![p] = after]
             /\ proc' \in [Procs -> Process]
             /\ proc'[p] = after
             /\ after.at = at /\ after.then = proc[p].then /\ after.op = proc[p].op
             /\ after.keys = proc[p].keys /\ after.edit = proc[p].edit
             /\ after.read = proc[p].read /\ after.data = proc[p].data
<1> DEFINE after == [proc[p] EXCEPT !.at = at]
<1>1. after \in Process
  BY Here DEF Process
<1>2. /\ after.at = at /\ after.then = proc[p].then /\ after.op = proc[p].op
      /\ after.keys = proc[p].keys /\ after.edit = proc[p].edit
      /\ after.read = proc[p].read /\ after.data = proc[p].data
  BY Here DEF Process
<1>3. proc' = [proc EXCEPT ![p] = after]
  BY DEF Goes
<1>4. proc \in [Procs -> Process]
  BY DEF StoreInv, StoreTypeOK
<1> HIDE DEF after
<1>5. proc'[p] = after /\ proc' \in [Procs -> Process]
  BY <1>1, <1>3, <1>4
<1> QED
  BY <1>1, <1>2, <1>3, <1>5

\* A step that moves p and may take the lock for it, and touches nothing else.
LEMMA MoveKept ==
    ASSUME StoreInv, NEW p \in Procs, NEW at \in Ats, Goes(p, at),
           lock' = lock \/ (MayLock(p) /\ lock' = p),
           UNCHANGED <<file, writes, wanted, hand, late>>,
           aside' \in BOOLEAN /\ (aside => aside'),
           uncopied' \in BOOLEAN /\ (uncopied => uncopied'),
           Sound(p)' /\ Locked(p)' /\ Current(p)' /\ Careful(p)'
    PROVE  StoreInv'
<1>1. PICK after \in Process :
        proc' = [proc EXCEPT ![p] = after] /\ proc' \in [Procs -> Process]
  BY GoesFacts
<1>2. StoreTypeOK'
  BY <1>1 DEF StoreInv, StoreTypeOK
<1>3. (Published /\ Whole /\ BrokenIsKept)'
  BY DEF StoreInv, Published, Whole, BrokenIsKept
<1> QED
  BY <1>1, <1>2, <1>3, StepKept DEF MayLock

LEMMA MigrateKept ==
    ASSUME StoreInv, NEW p \in Procs, Migrate(p) PROVE StoreInv'
<1>1. proc[p].at = "migrate" /\ Goes(p, "snapshot") /\ lock' = p /\ MayLock(p)
  BY DEF Migrate, Acquire
<1>2. PICK after \in Process :
        /\ proc'[p] = after
        /\ after.at = "snapshot" /\ after.then = proc[p].then /\ after.op = proc[p].op
        /\ after.keys = proc[p].keys
        /\ after.read = proc[p].read /\ after.data = proc[p].data
  BY <1>1, GoesFacts DEF Ats, Saving
<1>3. Sound(p)' /\ Locked(p)' /\ Current(p)' /\ Careful(p)'
  BY <1>1, <1>2, Here DEF Sound, Locked, Current, Careful, Saving, Migrate
<1> QED
  BY <1>1, <1>3, MoveKept DEF Migrate, Ats, Saving, StoreInv, StoreTypeOK

LEMMA ChangeKept ==
    ASSUME StoreInv, NEW p \in Procs, Change(p) PROVE StoreInv'
<1>1. proc[p].at = "change" /\ UNCHANGED <<file, aside, writes, wanted, hand, late, uncopied>>
  BY DEF Change
<1>2. PICK at \in {"snapshot", "release"} :
        Goes(p, at) /\ (at = "release" => lock' = lock)
        /\ (at = "snapshot" => MayLock(p) /\ lock' = p)
  BY DEF Change, Acquire
<1>3. PICK after \in Process :
        /\ proc'[p] = after
        /\ after.at = at /\ after.then = proc[p].then /\ after.op = proc[p].op
        /\ after.keys = proc[p].keys
        /\ after.read = proc[p].read /\ after.data = proc[p].data
  BY <1>2, GoesFacts DEF Ats, Saving
<1>4. file.is # "broken" /\ proc[p].op \notin {"read", "reset"} /\ ~proc[p].read.legacy
  BY <1>1, Here DEF Sound, Careful, Saving
<1>5. Sound(p)' /\ Locked(p)'
  BY <1>1, <1>2, <1>3, <1>4, Here DEF Sound, Locked, Saving
<1>6. Current(p)' /\ Careful(p)'
  BY <1>1, <1>2, <1>3, <1>4, Here DEF Current, Careful, Saving
<1> QED
  BY <1>1, <1>2, <1>5, <1>6, MoveKept DEF Ats, Saving, StoreInv, StoreTypeOK

LEMMA SnapshotKept ==
    ASSUME StoreInv, NEW p \in Procs, Snapshot(p) PROVE StoreInv'
<1>1. /\ proc[p].at = "snapshot" /\ Goes(p, "stage")
      /\ UNCHANGED <<file, lock, writes, wanted, hand, late>>
  BY DEF Snapshot
<1>2. /\ aside' \in BOOLEAN /\ (aside => aside')
      /\ uncopied' \in BOOLEAN /\ (uncopied => uncopied')
  BY DEF Snapshot, StoreInv, StoreTypeOK
<1>3. file.is = "broken" /\ proc[p].op = "reset" => aside' \/ uncopied'
  BY DEF Snapshot
<1>4. PICK after \in Process :
        /\ proc'[p] = after
        /\ after.at = "stage" /\ after.then = proc[p].then /\ after.op = proc[p].op
        /\ after.keys = proc[p].keys
        /\ after.read = proc[p].read /\ after.data = proc[p].data
  BY <1>1, GoesFacts DEF Ats, Saving
<1>5. Sound(p)' /\ Locked(p)' /\ Current(p)' /\ Careful(p)'
  BY <1>1, <1>3, <1>4, Here DEF Sound, Locked, Current, Careful, Saving
<1> QED
  BY <1>1, <1>2, <1>5, MoveKept DEF Ats, Saving

LEMMA StageKept ==
    ASSUME StoreInv, NEW p \in Procs, Stage(p) PROVE StoreInv'
<1>1. /\ proc[p].at = "stage"
      /\ UNCHANGED <<file, aside, lock, writes, wanted, hand, late, uncopied>>
  BY DEF Stage, Staged
<1>2. PICK at \in {"publish", "release"} : Goes(p, at)
  BY DEF Stage
<1>3. PICK after \in Process :
        /\ proc'[p] = after
        /\ after.at = at /\ after.then = proc[p].then /\ after.op = proc[p].op
        /\ after.keys = proc[p].keys
        /\ after.read = proc[p].read /\ after.data = proc[p].data
  BY <1>2, GoesFacts DEF Ats, Saving
<1>4. Sound(p)' /\ Locked(p)' /\ Current(p)' /\ Careful(p)'
  BY <1>1, <1>3, Here DEF Sound, Locked, Current, Careful, Saving
<1> QED
  BY <1>1, <1>2, <1>4, MoveKept DEF Ats, Saving, StoreInv, StoreTypeOK

\* A load: p has what the file holds, and goes where the file sends it.
LEMMA LoadKept ==
    ASSUME StoreInv, NEW p \in Procs, Load(p) PROVE StoreInv'
<1> DEFINE at == IF file.is = "broken" THEN "quarantine"
                 ELSE IF file.legacy THEN "migrate" ELSE proc[p].then
<1> DEFINE after == [proc[p] EXCEPT !.read = file, !.data = file.set, !.at = at]
<1>1. /\ proc[p].at = "load" /\ proc' = [proc EXCEPT ![p] = after]
      /\ UNCHANGED <<file, aside, lock, writes, wanted, hand, late, uncopied>>
  BY DEF Load
<1>2. proc[p].then \in {"release", "change"} /\ at \in {"release", "change", "migrate", "quarantine"}
  <2>1. proc[p].then \in {"release", "change"}
    BY Here DEF Process
  <2> QED
    BY <2>1
<1>3. /\ at \in {"release", "change", "migrate", "quarantine"} /\ at \in Ats
      /\ file.is = "broken" => at = "quarantine"
  BY <1>2 DEF Ats
<1>4. /\ at = "quarantine" => hand /\ ~file.legacy
      /\ at = "migrate" => file.legacy
      /\ at = "change" => ~file.legacy /\ proc[p].then = "change" /\ file.is # "broken"
  BY <1>2, FileFacts, Here DEF StoreInv, Whole
<1> HIDE DEF at
<1>5. /\ after \in Process /\ after.at = at /\ after.read = file /\ after.data = file.set
      /\ after.op = proc[p].op /\ after.then = proc[p].then /\ after.keys = proc[p].keys
  <2>1. proc[p] \in Process /\ file \in Files /\ file.set \in Valuations
    BY Here, FileFacts
  <2>2. after \in Process
    BY <2>1, <1>3 DEF Process
  <2>3. after.at = at /\ after.read = file /\ after.data = file.set
    BY <2>1 DEF Process
  <2>4. after.op = proc[p].op /\ after.then = proc[p].then /\ after.keys = proc[p].keys
    BY <2>1 DEF Process
  <2> QED
    BY <2>2, <2>3, <2>4
<1> HIDE DEF after
<1>6. proc'[p] = after /\ proc' \in [Procs -> Process]
  BY <1>1, <1>5 DEF StoreInv, StoreTypeOK
<1>7. StoreTypeOK'
  BY <1>1, <1>6 DEF StoreInv, StoreTypeOK
<1>8. Sound(p)' /\ Locked(p)'
  BY <1>1, <1>5, <1>3, <1>4, <1>6, Here DEF Sound, Locked, Saving
<1>9. Careful(p)'
  BY <1>1, <1>5, <1>3, <1>6 DEF Careful
<1>10. Current(p)'
  BY <1>1, <1>5, <1>3, <1>6 DEF Current, StoreInv, Published, Saving
<1>11. (Published /\ Whole /\ BrokenIsKept)'
  BY <1>1 DEF StoreInv, Published, Whole, BrokenIsKept
<1> QED
  BY <1>1, <1>5, <1>7, <1>8, <1>9, <1>10, <1>11, StepKept

\* Moving the file aside: only the user's own hand brings a process here.
LEMMA QuarantineKept ==
    ASSUME StoreInv, NEW p \in Procs, Quarantine(p) PROVE StoreInv'
<1>1. /\ proc[p].at = "quarantine" /\ Goes(p, proc[p].then)
      /\ file' \in {file, Absent} /\ file'.is = "absent"
      /\ aside' = (aside \/ file.is = "broken")
      /\ late' = (late \/ file # proc[p].read)
      /\ UNCHANGED <<lock, writes, wanted, hand, uncopied>>
  BY FileFacts, Here DEF Quarantine, MovedAside, StoreTypeOK
<1>2. /\ hand /\ ~proc[p].read.legacy /\ proc[p].then \in {"release", "change"}
      /\ proc[p].then = IF proc[p].op = "read" THEN "release" ELSE "change"
      /\ proc[p].op # "reset"
  BY <1>1, Here DEF Sound, Process, Saving
<1>3. PICK after \in Process :
        /\ proc' = [proc EXCEPT ![p] = after] /\ proc' \in [Procs -> Process]
        /\ proc'[p] = after
        /\ after.at = proc[p].then /\ after.then = proc[p].then /\ after.op = proc[p].op
        /\ after.keys = proc[p].keys
        /\ after.read = proc[p].read /\ after.data = proc[p].data
  BY <1>1, <1>2, GoesFacts DEF Ats, Saving
<1>4. StoreTypeOK'
  BY <1>1, <1>3, FileFacts DEF StoreInv, StoreTypeOK
<1>5. Sound(p)' /\ Locked(p)' /\ Current(p)' /\ Careful(p)'
  BY <1>1, <1>2, <1>3, Here DEF Sound, Locked, Current, Careful, Saving
<1>6. (Published /\ Whole /\ BrokenIsKept)'
  BY <1>1, <1>2 DEF StoreInv, Published, Whole, BrokenIsKept
<1>7. (late => late') /\ (aside => aside') /\ ~(file'.is = "broken")
  BY <1>1
<1> QED
  BY <1>1, <1>3, <1>4, <1>5, <1>6, <1>7, StepKept

LEMMA OverFacts ==
    ASSUME StoreInv, NEW p \in Procs
    PROVE  /\ \A set \in Valuations : Over(p, set) \in Valuations
           /\ \A set : Migrating(p) => Over(p, set) = set
           /\ \A one, other : proc[p].keys = Settings /\ ~Migrating(p)
                                => Over(p, one) = Over(p, other)
<1>1. ASSUME NEW set \in Valuations PROVE Over(p, set) \in Valuations
  <2>1. proc[p].edit \in Nat /\ 0 \in Nat
    BY Here DEF Process
  <2> QED
    BY <2>1 DEF Over, Valuations
<1>2. \A set : Migrating(p) => Over(p, set) = set
  BY DEF Over
<1>3. \A one, other : proc[p].keys = Settings /\ ~Migrating(p) => Over(p, one) = Over(p, other)
  BY DEF Over
<1> QED
  BY <1>1, <1>2, <1>3

\* Publishing: what is written is what the published edits make it, and no copy
\* of the user's broken file is lost by it.
LEMMA PublishKept ==
    ASSUME StoreInv, NEW p \in Procs, Publish(p) PROVE StoreInv'
<1> DEFINE at == IF Migrating(p) THEN proc[p].then ELSE "release"
<1> DEFINE after == [proc[p] EXCEPT !.read = Absent, !.at = at]
<1>1. /\ proc[p].at = "publish" /\ proc' = [proc EXCEPT ![p] = after]
      /\ file' = Json(Over(p, proc[p].data), FALSE)
      /\ wanted' = Over(p, wanted)
      /\ late' = (late \/ (Migrating(p) /\ file # proc[p].read))
      /\ UNCHANGED <<aside, lock, writes, hand, uncopied>>
  BY DEF Publish
<1>2. /\ proc[p].then \in {"release", "change"} /\ at \in {"release", "change"}
      /\ at = "change" => Migrating(p) /\ proc[p].then = "change"
  <2>1. proc[p].then \in {"release", "change"}
    BY Here DEF Process
  <2> QED
    BY <2>1
<1>2a. at \in Ats
  BY <1>2 DEF Ats
<1> HIDE DEF at
<1>3. /\ after \in Process /\ after.at = at /\ after.read = Absent
      /\ after.data = proc[p].data /\ after.op = proc[p].op
      /\ after.then = proc[p].then /\ after.keys = proc[p].keys
  <2>1. proc[p] \in Process /\ Absent \in Files
    BY Here, FileFacts
  <2>2. after \in Process
    BY <2>1, <1>2a DEF Process
  <2>3. after.at = at /\ after.read = Absent /\ after.data = proc[p].data
    BY <2>1 DEF Process
  <2>4. after.op = proc[p].op /\ after.then = proc[p].then /\ after.keys = proc[p].keys
    BY <2>1 DEF Process
  <2> QED
    BY <2>2, <2>3, <2>4
<1>4. lock = p
  BY <1>1, Here DEF Locked, Saving
<1> HIDE DEF after
<1>5. proc'[p] = after /\ proc' \in [Procs -> Process]
  BY <1>1, <1>3 DEF StoreInv, StoreTypeOK
<1>6. /\ Over(p, proc[p].data) \in Valuations /\ wanted' \in Valuations
      /\ file' \in Files /\ file'.is = "json" /\ file'.set = Over(p, proc[p].data)
  <2>1. Over(p, proc[p].data) \in Valuations /\ Over(p, wanted) \in Valuations
    BY OverFacts, Here DEF StoreTypeOK
  <2> QED
    BY <1>1, <2>1, FileFacts
<1>7. StoreTypeOK'
  <2>1. (Migrating(p) /\ file # proc[p].read) \in BOOLEAN
    BY DEF Migrating
  <2>2. late' \in BOOLEAN
    BY <1>1, <2>1 DEF StoreInv, StoreTypeOK
  <2> QED
    BY <1>1, <1>5, <1>6, <2>2 DEF StoreInv, StoreTypeOK
<1>8. ASSUME ~late', ~hand' PROVE file'.set = wanted' /\ (Migrating(p) => proc[p].data = wanted')
  <2>1. ~late /\ ~hand /\ file.set = wanted /\ (Migrating(p) => file = proc[p].read)
    BY <1>1, <1>8 DEF StoreInv, Published
  <2>2. CASE Migrating(p)
    <3>1. proc[p].data = proc[p].read.set
      BY <1>1, <2>2, Here DEF Sound, Saving, Migrating
    <3>2. Over(p, proc[p].data) = proc[p].data /\ Over(p, wanted) = wanted
      BY <2>2, OverFacts
    <3> QED
      BY <1>1, <1>6, <2>1, <2>2, <3>1, <3>2
  <2>3. CASE ~Migrating(p) /\ proc[p].op = "reset"
    <3>1. proc[p].keys = Settings
      BY <2>3, Here DEF Sound
    <3> QED
      BY <1>1, <1>6, <2>3, <3>1, OverFacts
  <2>4. CASE ~Migrating(p) /\ proc[p].op # "reset"
    <3>1. proc[p].data = wanted
      BY <1>1, <2>1, <2>4, Here DEF Current, Saving, Migrating
    <3> QED
      BY <1>1, <1>6, <2>4, <3>1
  <2> QED
    BY <2>2, <2>3, <2>4
<1>9. Sound(p)' /\ Locked(p)'
  <2>1. proc[p].op = "reset" => at = "release"
    BY <1>1, <1>2, Here DEF Sound, Migrating
  <2>2. at = "change" => proc[p].op # "read"
    BY <1>2, Here DEF Sound
  <2> QED
    BY <1>1, <1>2, <1>3, <1>4, <1>5, <2>1, <2>2, Here, FileFacts DEF Sound, Locked, Saving
<1>10. Current(p)'
  BY <1>2, <1>3, <1>5, <1>8 DEF Current, Saving
<1>11. Careful(p)' /\ Published' /\ Whole'
  BY <1>6, <1>8 DEF Careful, Published, Whole
<1>12. BrokenIsKept'
  <2>1. CASE file.is = "broken"
    <3>1. proc[p].op = "reset" /\ (aside \/ uncopied)
      BY <1>1, <2>1, Here DEF Careful
    <3> QED
      BY <1>1, <3>1 DEF BrokenIsKept
  <2>2. CASE file.is # "broken"
    BY <1>1, <2>2 DEF StoreInv, BrokenIsKept
  <2> QED
    BY <2>1, <2>2
<1> QED
  BY <1>1, <1>3, <1>4, <1>6, <1>7, <1>9, <1>10, <1>11, <1>12, StepKept

\* The user's editor: everyone is idle.
LEMMA HandEditKept ==
    ASSUME StoreInv, HandEdit PROVE StoreInv'
<1>1. /\ file' = Broken /\ hand' = TRUE
      /\ \A p \in Procs : proc[p].at = "idle"
      /\ UNCHANGED <<aside, lock, proc, writes, wanted, late, uncopied>>
  BY DEF HandEdit
<1>2. StoreTypeOK'
  BY <1>1, FileFacts DEF StoreInv, StoreTypeOK
<1>3. ASSUME NEW p \in Procs PROVE Sound(p)' /\ Locked(p)' /\ Current(p)' /\ Careful(p)'
  BY <1>1, Here DEF Sound, Locked, Current, Careful, Saving
<1>4. (Published /\ Whole /\ BrokenIsKept)'
  BY <1>1, FileFacts DEF Published, Whole, BrokenIsKept
<1> QED
  BY <1>2, <1>3, <1>4 DEF StoreInv

LEMMA StutterKept ==
    ASSUME StoreInv, UNCHANGED storeVars PROVE StoreInv'
  BY DEF StoreInv, StoreTypeOK, Sound, Locked, Current, Careful, Published, Whole, BrokenIsKept, storeVars,
         Migrating

LEMMA StoreNextInv == StoreInv /\ [StoreNext]_storeVars => StoreInv'
<1> SUFFICES ASSUME StoreInv, [StoreNext]_storeVars PROVE StoreInv'
  OBVIOUS
<1>1. ASSUME NEW p \in Procs, Step(p) PROVE StoreInv'
  <2>1. CASE Release(p)
    BY <2>1, EndKept DEF Release
  <2> QED
    BY <1>1, <2>1, LoadKept, QuarantineKept, MigrateKept, ChangeKept, SnapshotKept,
       StageKept, PublishKept DEF Step
<1>2. ASSUME NEW p \in Procs, Die(p) PROVE StoreInv'
  BY <1>2, EndKept DEF Die
<1> QED
  BY <1>1, <1>2, ReaderKept, StartKept, HandEditKept, StutterKept DEF StoreNext

\* A published edit is never dropped: whoever writes, in whatever order, and
\* whoever dies (settings_write_lock, settings.py:1167).
THEOREM EditsAlwaysStand == StoreSpec => []EditsStand
<1>1. StoreInv => EditsStand
  BY DEF StoreInv, Published, EditsStand
<1> QED
  BY <1>1, StoreInitInv, StoreNextInv, PTL DEF StoreSpec

\* No one but the user leaves the file unreadable, or without what was set
\* (atomic_write_text, settings.py:1246).
THEOREM AlwaysWhole == StoreSpec => []Whole
<1>1. StoreInv => Whole
  BY DEF StoreInv
<1> QED
  BY <1>1, StoreInitInv, StoreNextInv, PTL DEF StoreSpec

\* What the user has broken is moved aside or copied before it is written over
\* (_quarantine_unreadable_settings, settings.py:1345).
THEOREM BrokenAlwaysKept == StoreSpec => []BrokenIsKept
<1>1. StoreInv => BrokenIsKept
  BY DEF StoreInv
<1> QED
  BY <1>1, StoreInitInv, StoreNextInv, PTL DEF StoreSpec

-----------------------------------------------------------------------------
(* For any servers, views, keys and stamps.  First the algebra of
   merge_views: servers merge in different orders and as often as they like;
   that they end alike, and stop talking, rests on these facts.  Then the
   type correctness of SettingsSync, for any clocks.  Last, for clocks that
   agree, what the servers may rely on: those of the same time have the same
   settings, and what a user did on a server stands there. *)

\* What the documents of the program are: a key is pinned in views that exist.
WellFormed(d) == d \in ViewState /\ \A e \in d.pins : e[1] \in d.has

\* No tombstone is old enough at time t to be collected.
Lives(d, t) ==
    /\ \A v \in Views : d.at[v] # None => t <= d.at[v] + TTL
    /\ \A e \in Pairs : d.memberAt[e] # None => t <= d.memberAt[e] + TTL

-----------------------------------------------------------------------------
(* Lemmas *)

\* A pair's view is a view.
LEMMA PairView == \A e \in Pairs : e[1] \in Views
  BY DEF Pairs

\* Collecting changes no presence.
LEMMA CollectedSignature ==
  ASSUME NEW d \in ViewState, NEW t
  PROVE  Collected(d, t).has = d.has /\ Collected(d, t).pins = d.pins
  BY DEF Collected, ViewState

\* The stamps collecting leaves.
LEMMA CollectedStamps ==
  ASSUME NEW d \in ViewState, NEW t
  PROVE  /\ \A v \in Views : Collected(d, t).at[v] =
              IF v \in d.has \/ t <= d.at[v] + TTL THEN d.at[v] ELSE None
         /\ \A e \in Pairs : Collected(d, t).memberAt[e] =
              IF e[1] \in d.has /\ (e \in d.pins \/ t <= d.memberAt[e] + TTL)
                THEN d.memberAt[e] ELSE None
  BY DEF Collected, ViewState

\* Collecting keeps the shape of the state.
LEMMA CollectedType ==
  ASSUME NEW d \in ViewState, NEW t
  PROVE  Collected(d, t) \in ViewState
  <1>1. /\ [v \in Views |-> IF v \in d.has \/ t <= d.at[v] + TTL THEN d.at[v] ELSE None]
              \in [Views -> Nat]
        /\ [e \in Pairs |-> IF e[1] \in d.has /\ (e \in d.pins \/ t <= d.memberAt[e] + TTL)
                              THEN d.memberAt[e] ELSE None] \in [Pairs -> Nat]
    BY DEF ViewState, None
  <1> QED BY <1>1 DEF Collected, ViewState

\* The later of two stamps is a stamp no earlier than either.
LEMMA LaterFacts ==
  ASSUME NEW s \in Nat, NEW t \in Nat
  PROVE  /\ Later(s, t) \in Nat /\ Later(s, t) = Later(t, s)
         /\ Later(s, t) >= s /\ Later(s, t) >= t
         /\ Later(s, t) = s \/ Later(s, t) = t
  BY DEF Later

\* The merged document before it is collected.
Joined(a, b) ==
    [has  |-> MergedHas(a, b),
     pins |-> MergedPins(a, b),
     at   |-> [v \in Views |->
                  IF v \in a.has \cup b.has THEN Later(a.at[v], b.at[v]) ELSE None],
     memberAt |-> [e \in Pairs |->
                  IF e[1] \in MergedHas(a, b) THEN Later(a.memberAt[e], b.memberAt[e])
                                              ELSE None]]

LEMMA MergedIsJoined ==
  ASSUME NEW a, NEW b, NEW t
  PROVE  Merged(a, b, t) = Collected(Joined(a, b), t)
  BY DEF Merged, Joined

LEMMA JoinedType ==
  ASSUME NEW a \in ViewState, NEW b \in ViewState
  PROVE  Joined(a, b) \in ViewState
  <1>1. MergedHas(a, b) \in SUBSET Views /\ MergedPins(a, b) \in SUBSET Pairs
    BY DEF MergedHas, MergedPins, ViewState
  <1>2. [v \in Views |-> IF v \in a.has \cup b.has THEN Later(a.at[v], b.at[v]) ELSE None]
          \in [Views -> Nat]
    BY LaterFacts DEF ViewState, None
  <1>3. [e \in Pairs |-> IF e[1] \in MergedHas(a, b)
                           THEN Later(a.memberAt[e], b.memberAt[e]) ELSE None]
          \in [Pairs -> Nat]
    BY LaterFacts DEF ViewState, None
  <1> QED BY <1>1, <1>2, <1>3 DEF Joined, ViewState

\* The merge decides presence as MergedHas and MergedPins say.
LEMMA MergedSignature ==
  ASSUME NEW a \in ViewState, NEW b \in ViewState, NEW t
  PROVE  Merged(a, b, t).has = MergedHas(a, b) /\ Merged(a, b, t).pins = MergedPins(a, b)
  <1>1. Joined(a, b).has = MergedHas(a, b) /\ Joined(a, b).pins = MergedPins(a, b)
    BY DEF Joined
  <1> QED BY <1>1, MergedIsJoined, JoinedType, CollectedSignature

-----------------------------------------------------------------------------
(* Theorems *)

\* merge_views keeps the documents well-formed: no member outlives its view.
THEOREM MergeIsWellFormed ==
  ASSUME NEW a \in ViewState, NEW b \in ViewState, NEW t
  PROVE  WellFormed(Merged(a, b, t))
  <1>1. Merged(a, b, t) \in ViewState
    BY MergedIsJoined, JoinedType, CollectedType
  <1>2. \A e \in MergedPins(a, b) : e[1] \in MergedHas(a, b)
    BY DEF MergedPins
  <1> QED BY <1>1, <1>2, MergedSignature DEF WellFormed

\* "Commutative on the presence decision", and on the stamps as well: two
\* servers that merge each other's documents at the same time get the same one.
THEOREM MergeCommutes ==
  ASSUME NEW a \in ViewState, NEW b \in ViewState, NEW t
  PROVE  Merged(a, b, t) = Merged(b, a, t)
  <1>1. MergedHas(a, b) = MergedHas(b, a)
    <2>1. \A v \in Views : Survives(v \in a.has, a.at[v], v \in b.has, b.at[v])
                             = Survives(v \in b.has, b.at[v], v \in a.has, a.at[v])
      BY DEF Survives, ViewState
    <2> QED BY <2>1 DEF MergedHas, ViewState
  <1>2. MergedPins(a, b) = MergedPins(b, a)
    <2>1. \A e \in Pairs :
             Survives(e \in a.pins, a.memberAt[e], e \in b.pins, b.memberAt[e])
               = Survives(e \in b.pins, b.memberAt[e], e \in a.pins, a.memberAt[e])
      BY DEF Survives, ViewState
    <2> QED BY <1>1, <2>1 DEF MergedPins
  <1>3. \A v \in Views : Later(a.at[v], b.at[v]) = Later(b.at[v], a.at[v])
    BY LaterFacts DEF ViewState
  <1>4. \A e \in Pairs : Later(a.memberAt[e], b.memberAt[e])
                           = Later(b.memberAt[e], a.memberAt[e])
    BY LaterFacts DEF ViewState
  <1>5. Joined(a, b) = Joined(b, a)
    BY <1>1, <1>2, <1>3, <1>4 DEF Joined
  <1> QED BY <1>5, MergedIsJoined

\* "Idempotent": merging a document with itself changes no presence.
THEOREM MergeIsIdempotent ==
  ASSUME NEW a, WellFormed(a), NEW t
  PROVE  Signature(Merged(a, a, t)) = Signature(a)
  <1>1. a \in ViewState /\ a.has \subseteq Views /\ a.pins \subseteq Pairs
    BY DEF WellFormed, ViewState
  <1>2. MergedHas(a, a) = a.has
    BY <1>1 DEF MergedHas, Survives
  <1>3. MergedPins(a, a) = a.pins
    BY <1>1, <1>2 DEF MergedPins, Survives, WellFormed
  <1> QED BY <1>1, <1>2, <1>3, MergedSignature DEF Signature

\* "A pin that just landed" is not lost to a peer that never heard of it: what a
\* server pinned survives every merge with one that has no stamp for it.
THEOREM UnheardPinsSurvive ==
  ASSUME NEW a, WellFormed(a), NEW b \in ViewState, NEW t,
         NEW e \in a.pins, b.at[e[1]] = None, b.memberAt[e] = None
  PROVE  e \in Merged(a, b, t).pins
  <1>1. a \in ViewState /\ e \in Pairs /\ e[1] \in a.has /\ e[1] \in Views
    BY PairView DEF WellFormed, ViewState
  <1>2. Survives(e[1] \in a.has, a.at[e[1]], e[1] \in b.has, b.at[e[1]])
    BY <1>1 DEF Survives, ViewState, None
  <1>3. Survives(e \in a.pins, a.memberAt[e], e \in b.pins, b.memberAt[e])
    BY <1>1 DEF Survives, ViewState, None
  <1>4. e[1] \in MergedHas(a, b)
    BY <1>1, <1>2 DEF MergedHas
  <1>5. e \in MergedPins(a, b)
    BY <1>1, <1>3, <1>4 DEF MergedPins
  <1> QED BY <1>1, <1>5, MergedSignature

\* "Terminates: once the peer has merged the union, its own signature matches
\* and it does not bump back".  While no tombstone is collected, a server that
\* takes in what its peer made of the two documents has nothing to add to it.
THEOREM MergeSettles ==
  ASSUME NEW a, WellFormed(a), NEW b, WellFormed(b), NEW s, NEW t,
         Lives(a, s), Lives(b, s)
  PROVE  Signature(Merged(b, Merged(a, b, s), t)) = Signature(Merged(a, b, s))
  <1> DEFINE m == Merged(a, b, s)
  <1>1. a \in ViewState /\ b \in ViewState /\ Joined(a, b) \in ViewState
    BY JoinedType DEF WellFormed
  <1>2. m \in ViewState /\ m.has = MergedHas(a, b) /\ m.pins = MergedPins(a, b)
    BY <1>1, MergeIsWellFormed, MergedSignature DEF WellFormed
  <1>3. \A v \in a.has \cup b.has : m.at[v] = Later(a.at[v], b.at[v])
    <2> SUFFICES ASSUME NEW v \in a.has \cup b.has
                 PROVE  m.at[v] = Later(a.at[v], b.at[v])
      OBVIOUS
    <2>1. v \in Views /\ a.at[v] \in Nat /\ b.at[v] \in Nat
      BY <1>1 DEF ViewState
    <2>2. Joined(a, b).at[v] = Later(a.at[v], b.at[v])
      BY <2>1 DEF Joined
    <2>3. m.at[v] = IF v \in Joined(a, b).has \/ s <= Joined(a, b).at[v] + TTL
                      THEN Joined(a, b).at[v] ELSE None
      BY <1>1, <2>1, MergedIsJoined, CollectedStamps
    <2>4. Later(a.at[v], b.at[v]) # None => s <= Later(a.at[v], b.at[v]) + TTL
      <3>1. Later(a.at[v], b.at[v]) = a.at[v] \/ Later(a.at[v], b.at[v]) = b.at[v]
        BY <2>1, LaterFacts
      <3> QED BY <2>1, <3>1 DEF Lives
    <2> QED BY <2>2, <2>3, <2>4
  <1>4. \A e \in Pairs : e[1] \in m.has => m.memberAt[e] = Later(a.memberAt[e], b.memberAt[e])
    <2> SUFFICES ASSUME NEW e \in Pairs, e[1] \in m.has
                 PROVE  m.memberAt[e] = Later(a.memberAt[e], b.memberAt[e])
      OBVIOUS
    <2>1. a.memberAt[e] \in Nat /\ b.memberAt[e] \in Nat
      BY <1>1 DEF ViewState
    <2>2. Joined(a, b).memberAt[e] = Later(a.memberAt[e], b.memberAt[e])
      BY <1>2 DEF Joined
    <2>3. Joined(a, b).has = m.has
      BY <1>2 DEF Joined
    <2>4. m.memberAt[e] =
            IF e[1] \in Joined(a, b).has
               /\ (e \in Joined(a, b).pins \/ s <= Joined(a, b).memberAt[e] + TTL)
              THEN Joined(a, b).memberAt[e] ELSE None
      BY <1>1, MergedIsJoined, CollectedStamps
    <2>5. Later(a.memberAt[e], b.memberAt[e]) # None
            => s <= Later(a.memberAt[e], b.memberAt[e]) + TTL
      <3>1. \/ Later(a.memberAt[e], b.memberAt[e]) = a.memberAt[e]
            \/ Later(a.memberAt[e], b.memberAt[e]) = b.memberAt[e]
        BY <2>1, LaterFacts
      <3> QED BY <2>1, <3>1 DEF Lives
    <2> QED BY <2>2, <2>3, <2>4, <2>5
  <1>5. MergedHas(b, m) = m.has
    <2>1. ASSUME NEW v \in Views
          PROVE  v \in b.has \cup m.has /\ Survives(v \in b.has, b.at[v], v \in m.has, m.at[v])
                   <=> v \in m.has
      <3>1. a.at[v] \in Nat /\ b.at[v] \in Nat
        BY <1>1 DEF ViewState
      <3>2. Later(a.at[v], b.at[v]) >= b.at[v]
        BY <3>1, LaterFacts
      <3>3. CASE v \in m.has
        <4>1. v \in a.has \cup b.has
          BY <1>2, <3>3 DEF MergedHas
        <4>2. m.at[v] >= b.at[v]
          BY <1>3, <3>2, <4>1
        <4> QED BY <3>3, <4>2 DEF Survives
      <3>4. CASE v \notin m.has /\ v \in b.has
        <4>1. ~Survives(v \in a.has, a.at[v], v \in b.has, b.at[v])
          BY <1>2, <3>4 DEF MergedHas
        <4>2. ~(b.at[v] >= a.at[v])
          BY <3>4, <4>1 DEF Survives
        <4>3. m.at[v] = a.at[v]
          BY <1>3, <3>1, <3>4, <4>2 DEF Later
        <4> QED BY <3>4, <4>2, <4>3 DEF Survives
      <3> QED BY <3>3, <3>4
    <2>2. b.has \subseteq Views /\ m.has \subseteq Views
      BY <1>1, <1>2 DEF ViewState
    <2> QED BY <2>1, <2>2 DEF MergedHas
  <1>6. MergedPins(b, m) = m.pins
    <2>1. ASSUME NEW e \in Pairs
          PROVE  e[1] \in m.has /\ Survives(e \in b.pins, b.memberAt[e], e \in m.pins, m.memberAt[e])
                   <=> e \in m.pins
      <3>1. a.memberAt[e] \in Nat /\ b.memberAt[e] \in Nat
        BY <1>1 DEF ViewState
      <3>2. Later(a.memberAt[e], b.memberAt[e]) >= b.memberAt[e]
        BY <3>1, LaterFacts
      <3>3. CASE e \in m.pins
        <4>1. e[1] \in m.has
          BY <1>2, <3>3 DEF MergedPins
        <4>2. m.memberAt[e] >= b.memberAt[e]
          BY <1>4, <3>2, <4>1
        <4> QED BY <3>3, <4>1, <4>2 DEF Survives
      <3>4. CASE e \notin m.pins /\ e \notin b.pins
        BY <3>4 DEF Survives
      <3>5. CASE e \notin m.pins /\ e \in b.pins /\ e[1] \in m.has
        <4>1. ~Survives(e \in a.pins, a.memberAt[e], e \in b.pins, b.memberAt[e])
          BY <1>2, <3>5 DEF MergedPins
        <4>2. ~(b.memberAt[e] >= a.memberAt[e])
          BY <3>5, <4>1 DEF Survives
        <4>3. m.memberAt[e] = a.memberAt[e]
          BY <1>4, <3>1, <3>5, <4>2 DEF Later
        <4> QED BY <3>5, <4>2, <4>3 DEF Survives
      <3> QED BY <3>3, <3>4, <3>5
    <2>2. m.pins \subseteq Pairs
      BY <1>2 DEF ViewState
    <2> QED BY <1>5, <2>1, <2>2 DEF MergedPins
  <1> QED BY <1>1, <1>2, <1>5, <1>6, MergedSignature DEF Signature

-----------------------------------------------------------------------------
(* SettingsSync *)

\* A pair stands for a key listed in one of the views `has`.
LEMMA PinsOfViews ==
  ASSUME NEW has \in SUBSET Views, NEW pins \in SUBSET (has \X Keys)
  PROVE  pins \in SUBSET Pairs /\ \A e \in pins : e[1] \in has
  BY DEF Pairs

\* The stamps an edit makes, before the old ones are dropped.
AtOf(d, has, t, v)      == IF (v \in d.has) # (v \in has) THEN t ELSE d.at[v]
MemberOf(d, pins, t, e) == IF (e \in d.pins) # (e \in pins) THEN t ELSE d.memberAt[e]

\* The edited document before it is collected.
Marked(d, has, pins, t) ==
    [has |-> has, pins |-> pins,
     at  |-> [v \in Views |-> AtOf(d, has, t, v)],
     memberAt |-> [e \in Pairs |-> MemberOf(d, pins, t, e)]]

LEMMA EditedIsMarked ==
  ASSUME NEW d, NEW has, NEW pins, NEW t
  PROVE  Edited(d, has, pins, t) = Collected(Marked(d, has, pins, t), t)
  BY DEF Edited, Marked, AtOf, MemberOf

LEMMA MarkedType ==
  ASSUME NEW d \in ViewState, NEW t \in Nat,
         NEW has \in SUBSET Views, NEW pins \in SUBSET Pairs
  PROVE  Marked(d, has, pins, t) \in ViewState
  <1>1. /\ [v \in Views |-> AtOf(d, has, t, v)] \in [Views -> Nat]
        /\ [e \in Pairs |-> MemberOf(d, pins, t, e)] \in [Pairs -> Nat]
    BY DEF ViewState, AtOf, MemberOf
  <1> QED BY <1>1 DEF Marked, ViewState

\* What an edit lists.
LEMMA EditedSignature ==
  ASSUME NEW d \in ViewState, NEW t \in Nat,
         NEW has \in SUBSET Views, NEW pins \in SUBSET Pairs
  PROVE  Edited(d, has, pins, t).has = has /\ Edited(d, has, pins, t).pins = pins
  <1> DEFINE old == Marked(d, has, pins, t)
  <1>1. old \in ViewState /\ old.has = has /\ old.pins = pins
    BY MarkedType DEF Marked
  <1>2. Edited(d, has, pins, t) = Collected(old, t)
    BY EditedIsMarked
  <1> HIDE DEF old
  <1> QED BY <1>1, <1>2, CollectedSignature

\* record_views_change leaves a well-formed document.
LEMMA EditedType ==
  ASSUME NEW d \in ViewState, NEW t \in Nat,
         NEW has \in SUBSET Views, NEW pins \in SUBSET Pairs,
         \A e \in pins : e[1] \in has
  PROVE  WellFormed(Edited(d, has, pins, t))
  <1> DEFINE old == Marked(d, has, pins, t)
  <1>1. old \in ViewState
    BY MarkedType
  <1>2. Edited(d, has, pins, t) = Collected(old, t)
    BY EditedIsMarked
  <1> HIDE DEF old
  <1> QED BY <1>1, <1>2, CollectedType, EditedSignature DEF WellFormed

\* The stamps it leaves: those it made, but for the dropped ones.
LEMMA EditedAt ==
  ASSUME NEW d \in ViewState, NEW t \in Nat,
         NEW has \in SUBSET Views, NEW pins \in SUBSET Pairs, NEW v \in Views
  PROVE  /\ Edited(d, has, pins, t).at[v] \in {None, AtOf(d, has, t, v)}
         /\ v \in has => Edited(d, has, pins, t).at[v] = AtOf(d, has, t, v)
  <1> DEFINE old == Marked(d, has, pins, t)
  <1>1. old \in ViewState /\ old.has = has /\ old.at[v] = AtOf(d, has, t, v)
    BY MarkedType DEF Marked
  <1>2. Edited(d, has, pins, t) = Collected(old, t)
    BY EditedIsMarked
  <1> HIDE DEF old
  <1>3. Collected(old, t).at[v] = IF v \in old.has \/ t <= old.at[v] + TTL
                                    THEN old.at[v] ELSE None
    BY <1>1, CollectedStamps
  <1> QED BY <1>1, <1>2, <1>3

LEMMA EditedMember ==
  ASSUME NEW d \in ViewState, NEW t \in Nat,
         NEW has \in SUBSET Views, NEW pins \in SUBSET Pairs, NEW e \in Pairs
  PROVE  /\ Edited(d, has, pins, t).memberAt[e] \in {None, MemberOf(d, pins, t, e)}
         /\ e[1] \in has /\ (e \in pins \/ t <= MemberOf(d, pins, t, e) + TTL)
              => Edited(d, has, pins, t).memberAt[e] = MemberOf(d, pins, t, e)
  <1> DEFINE old == Marked(d, has, pins, t)
  <1>1. /\ old \in ViewState /\ old.has = has /\ old.pins = pins
        /\ old.memberAt[e] = MemberOf(d, pins, t, e)
    BY MarkedType DEF Marked
  <1>2. Edited(d, has, pins, t) = Collected(old, t)
    BY EditedIsMarked
  <1> HIDE DEF old
  <1>3. Collected(old, t).memberAt[e] =
          IF e[1] \in old.has /\ (e \in old.pins \/ t <= old.memberAt[e] + TTL)
            THEN old.memberAt[e] ELSE None
    BY <1>1, CollectedStamps
  <1> QED BY <1>1, <1>2, <1>3

\* What a server takes in makes a document.
LEMMA AppliedType ==
  ASSUME NEW mine \in Document, NEW theirs \in Document, NEW t \in Nat
  PROVE  Applied(mine, theirs, t) \in Document /\ WellFormed(Applied(mine, theirs, t).views)
  <1> DEFINE merged == Merged(mine.views, theirs.views, t)
             hidden == IF theirs.viewsAt > mine.viewsAt THEN theirs.hidden ELSE mine.hidden
             bumped == Bumped(mine, theirs, t)
             newest == Later(mine.viewsAt, theirs.viewsAt)
             look   == Later(theirs.updatedAt, t)
  <1>1. WellFormed(merged) /\ merged \in ViewState
    BY MergeIsWellFormed DEF Document, WellFormed
  <1>2. hidden \in SUBSET Keys
    BY DEF Document
  <1>3. newest \in Nat /\ look \in Nat /\ Later(newest, look) \in Nat
    BY LaterFacts DEF Document
  <1>4. Applied(mine, theirs, t) =
          [views |-> merged, hidden |-> hidden \ {e[2] : e \in merged.pins},
           font |-> theirs.font,
           viewsAt |-> IF bumped THEN Later(newest, look) ELSE newest,
           updatedAt |-> IF bumped THEN look ELSE theirs.updatedAt]
    BY DEF Applied
  <1> HIDE DEF merged, hidden, bumped, newest, look
  <1> QED BY <1>1, <1>2, <1>3, <1>4 DEF Document

\* The clock of a server shows a time.
LEMMA TimeType ==
  ASSUME NEW p \in Peers, now \in Nat
  PROVE  Time(p) \in Nat
  BY PeersAssumption DEF Time

\* Recorded wishes are wishes.
LEMMA WishType ==
  ASSUME NEW p \in Peers, NEW has, NEW pins, wish \in [Views \cup Pairs -> Wish]
  PROVE  WishAfter(p, has, pins) \in [Views \cup Pairs -> Wish]
  <1> DEFINE is(x) == x \in has \cup pins
  <1>1. \A x \in Views \cup Pairs : [said |-> TRUE, by |-> p, there |-> is(x)] \in Wish
    <2> SUFFICES ASSUME NEW x \in Views \cup Pairs
                 PROVE  [said |-> TRUE, by |-> p, there |-> is(x)] \in Wish
      OBVIOUS
    <2>1. is(x) \in BOOLEAN
      OBVIOUS
    <2> HIDE DEF is
    <2> QED BY <2>1 DEF Wish
  <1>2. NoWish \in Wish
    BY DEF Wish
  <1> QED BY <1>1, <1>2 DEF WishAfter

\* The part of TypeOK that an edit or a merge of one document disturbs.
LEMMA DocumentReplaced ==
  ASSUME TypeOK, NEW p \in Peers, NEW d \in Document, WellFormed(d.views),
         doc' = [doc EXCEPT ![p] = d]
  PROVE  /\ doc' \in [Peers -> Document]
         /\ \A q \in Peers : \A e \in doc'[q].views.pins : e[1] \in doc'[q].views.has
  BY DEF TypeOK, WellFormed

\* The part of TypeOK that a step of a cycle disturbs.
LEMMA CycleReplaced ==
  ASSUME sync \in [Peers -> SyncCycle], NEW p \in Peers, NEW r \in SyncCycle,
         sync' = [sync EXCEPT ![p] = r]
  PROVE  sync' \in [Peers -> SyncCycle]
  OBVIOUS

\* What a cycle holds at each of its stages.
LEMMA StageFields ==
  ASSUME sync \in [Peers -> SyncCycle], NEW p \in Peers
  PROVE  /\ sync[p].stage \in {"scan", "got", "push"} =>
               sync[p].todo \in SUBSET Peers /\ sync[p].local \in Document
         /\ sync[p].stage = "got" => sync[p].peer \in Peers /\ sync[p].theirs \in Document
         /\ sync[p].stage = "push" => sync[p].peer \in Peers
  BY DEF SyncCycle

\* Back to the next peer, with a document.
LEMMA ScanningType ==
  ASSUME sync \in [Peers -> SyncCycle], NEW p \in Peers, NEW d \in Document,
         sync[p].stage \in {"scan", "got", "push"}
  PROVE  Scanning(p, d) \in SyncCycle
  BY StageFields DEF Scanning, SyncCycle

\* Taking a document in keeps the types.
LEMMA TakesType ==
  ASSUME TypeOK, NEW p \in Peers, NEW d \in Document, Takes(p, d)
  PROVE  /\ doc' \in [Peers -> Document]
         /\ \A q \in Peers : \A e \in doc'[q].views.pins : e[1] \in doc'[q].views.has
         /\ now' \in Nat
  <1>1. CASE Refuses(p, d)
    BY <1>1 DEF Takes, TypeOK
  <1>2. CASE ~Refuses(p, d)
    <2>1. doc[p] \in Document /\ Time(p) \in Nat
      BY TimeType DEF TypeOK
    <2>2. /\ Applied(doc[p], d, Time(p)) \in Document
          /\ WellFormed(Applied(doc[p], d, Time(p)).views)
      BY <2>1, AppliedType
    <2>3. doc' = [doc EXCEPT ![p] = Applied(doc[p], d, Time(p))]
      BY <1>2 DEF Takes, TypeOK
    <2>4. now' \in Nat
      BY <1>2 DEF Takes, TypeOK
    <2> QED BY <2>2, <2>3, <2>4, DocumentReplaced
  <1> QED BY <1>1, <1>2

-----------------------------------------------------------------------------
(* Edits *)

\* Counting an edit stays within the bound.
LEMMA CountedType ==
  ASSUME edits \in 0..MaxEdits, Counted
  PROVE  edits' \in 0..MaxEdits
  BY PeersAssumption DEF Counted

LEMMA EditFontType == ASSUME TypeOK, NEW p \in Peers, EditFont(p) PROVE TypeOK'
  <1>1. PICK f \in Fonts :
           doc' = [doc EXCEPT ![p].font = f, ![p].updatedAt = Time(p)]
    BY DEF EditFont
  <1>2. Time(p) \in Nat /\ doc[p] \in Document
    BY TimeType DEF TypeOK
  <1> DEFINE d == [doc[p] EXCEPT !.font = f, !.updatedAt = Time(p)]
  <1>3. doc' = [doc EXCEPT ![p] = d]
    BY <1>1
  <1>4. d \in Document /\ d.views = doc[p].views
    BY <1>2 DEF Document
  <1>5. WellFormed(d.views)
    BY <1>2, <1>4 DEF TypeOK, WellFormed, Document
  <1> HIDE DEF d
  <1>6. /\ doc' \in [Peers -> Document]
        /\ \A q \in Peers : \A e \in doc'[q].views.pins : e[1] \in doc'[q].views.has
    BY <1>3, <1>4, <1>5, DocumentReplaced
  <1>7. now' \in Nat /\ edits' \in 0..MaxEdits /\ sync' = sync /\ wish' = wish
    BY CountedType DEF EditFont, TypeOK
  <1> QED BY <1>6, <1>7 DEF TypeOK

LEMMA EditHiddenType == ASSUME TypeOK, NEW p \in Peers, EditHidden(p) PROVE TypeOK'
  <1>1. PICK hidden \in SUBSET Keys :
           doc' = [doc EXCEPT ![p].hidden = hidden, ![p].updatedAt = Time(p),
                              ![p].viewsAt = Time(p)]
    BY DEF EditHidden
  <1>2. Time(p) \in Nat /\ doc[p] \in Document
    BY TimeType DEF TypeOK
  <1> DEFINE d == [doc[p] EXCEPT !.hidden = hidden, !.updatedAt = Time(p), !.viewsAt = Time(p)]
  <1>3. doc' = [doc EXCEPT ![p] = d]
    BY <1>1
  <1>4. d \in Document /\ d.views = doc[p].views
    BY <1>2 DEF Document
  <1>5. WellFormed(d.views)
    BY <1>2, <1>4 DEF TypeOK, WellFormed, Document
  <1> HIDE DEF d
  <1>6. /\ doc' \in [Peers -> Document]
        /\ \A q \in Peers : \A e \in doc'[q].views.pins : e[1] \in doc'[q].views.has
    BY <1>3, <1>4, <1>5, DocumentReplaced
  <1>7. now' \in Nat /\ edits' \in 0..MaxEdits /\ sync' = sync /\ wish' = wish
    BY CountedType DEF EditHidden, TypeOK
  <1> QED BY <1>6, <1>7 DEF TypeOK

LEMMA EditViewsType == ASSUME TypeOK, NEW p \in Peers, NEW forced \in BOOLEAN, EditViews(p, forced) PROVE TypeOK'
  <1>0. PICK has \in SUBSET Views : \E pins \in SUBSET (has \X Keys) :
           /\ doc' = [doc EXCEPT ![p].views = Edited(doc[p].views, has, pins, Time(p)),
                                 ![p].viewsAt = Time(p), ![p].updatedAt = Time(p)]
           /\ wish' = WishAfter(p, has, pins)
    BY DEF EditViews
  <1>1. PICK pins \in SUBSET (has \X Keys) :
           /\ doc' = [doc EXCEPT ![p].views = Edited(doc[p].views, has, pins, Time(p)),
                                 ![p].viewsAt = Time(p), ![p].updatedAt = Time(p)]
           /\ wish' = WishAfter(p, has, pins)
    BY <1>0
  <1>2. Time(p) \in Nat /\ doc[p] \in Document /\ doc[p].views \in ViewState
    BY TimeType DEF TypeOK, Document
  <1> DEFINE new == Edited(doc[p].views, has, pins, Time(p))
             d == [doc[p] EXCEPT !.views = new, !.viewsAt = Time(p), !.updatedAt = Time(p)]
  <1>3. doc' = [doc EXCEPT ![p] = d]
    BY <1>1
  <1>4. WellFormed(new)
    BY <1>2, PinsOfViews, EditedType
  <1> HIDE DEF new
  <1>5. d \in Document /\ d.views = new
    BY <1>2, <1>4 DEF Document, WellFormed
  <1> HIDE DEF d
  <1>6. /\ doc' \in [Peers -> Document]
        /\ \A q \in Peers : \A e \in doc'[q].views.pins : e[1] \in doc'[q].views.has
    BY <1>3, <1>4, <1>5, DocumentReplaced
  <1>7. wish' \in [Views \cup Pairs -> Wish]
    BY <1>1, WishType DEF TypeOK
  <1>8. now' \in Nat /\ edits' \in 0..MaxEdits /\ sync' = sync
    BY CountedType DEF EditViews, TypeOK
  <1> QED BY <1>6, <1>7, <1>8 DEF TypeOK

LEMMA PruneType == ASSUME TypeOK, NEW p \in Peers, NEW k \in Gone, Prune(p, k) PROVE TypeOK'
  <1> DEFINE has  == doc[p].views.has
             pins == doc[p].views.pins \ (Views \X {k})
             new  == IF pins # doc[p].views.pins
                       THEN Edited(doc[p].views, has, pins, Time(p)) ELSE doc[p].views
             d    == [doc[p] EXCEPT !.views = new, !.hidden = @ \ {k}]
  <1>1. Time(p) \in Nat /\ doc[p] \in Document /\ doc[p].views \in ViewState
    BY TimeType DEF TypeOK, Document
  <1>2. has \in SUBSET Views /\ pins \in SUBSET Pairs /\ \A e \in pins : e[1] \in has
    BY <1>1 DEF TypeOK, ViewState
  <1>3. doc' = [doc EXCEPT ![p] = d] /\ wish' = WishAfter(p, has, pins)
    BY DEF Prune
  <1>4. WellFormed(new)
    <2>1. WellFormed(doc[p].views)
      BY <1>1 DEF TypeOK, WellFormed
    <2>2. WellFormed(Edited(doc[p].views, has, pins, Time(p)))
      BY <1>1, <1>2, EditedType
    <2> QED BY <2>1, <2>2
  <1> HIDE DEF has, pins, new
  <1>5. d \in Document /\ d.views = new
    BY <1>1, <1>4 DEF Document, WellFormed
  <1> HIDE DEF d
  <1>6. /\ doc' \in [Peers -> Document]
        /\ \A q \in Peers : \A e \in doc'[q].views.pins : e[1] \in doc'[q].views.has
    BY <1>3, <1>4, <1>5, DocumentReplaced
  <1>7. wish' \in [Views \cup Pairs -> Wish]
    BY <1>3, WishType DEF TypeOK
  <1>8. now' \in Nat /\ edits' \in 0..MaxEdits /\ sync' = sync
    BY CountedType DEF Prune, TypeOK
  <1> QED BY <1>6, <1>7, <1>8 DEF TypeOK

-----------------------------------------------------------------------------
(* The cycle *)

\* A step that only moves a cycle on.
LEMMA CycleMoves ==
  ASSUME TypeOK, NEW p \in Peers, NEW r \in SyncCycle,
         sync' = [sync EXCEPT ![p] = r], UNCHANGED <<doc, now, edits, wish>>
  PROVE  TypeOK'
  BY CycleReplaced DEF TypeOK

LEMMA CycleStepType ==
  ASSUME TypeOK, NEW p \in Peers, SyncStep(p)
  PROVE  TypeOK'
  <1>0. doc \in [Peers -> Document] /\ sync \in [Peers -> SyncCycle]
    BY DEF TypeOK
  <1>1. CASE BeginSync(p)
    <2>1. [stage |-> "scan", todo |-> Peers \ {p}, local |-> doc[p]] \in SyncCycle
      BY <1>0 DEF SyncCycle
    <2> QED BY <1>1, <2>1, CycleMoves DEF BeginSync
  <1>2. CASE EndSync(p)
    <2>1. Idle \in SyncCycle
      BY DEF Idle, SyncCycle
    <2> QED BY <1>2, <2>1, CycleMoves DEF EndSync
  <1>3. ASSUME NEW r \in Peers, Ask(p, r)
        PROVE  TypeOK'
    <2> DEFINE c == [stage |-> "got", todo |-> sync[p].todo \ {r}, local |-> sync[p].local,
                     peer |-> r, theirs |-> doc[r]]
    <2>1. c \in SyncCycle
      BY <1>0, <1>3, StageFields DEF Ask, SyncCycle
    <2>2. sync' = [sync EXCEPT ![p] = c]
      BY <1>3 DEF Ask
    <2> QED BY <1>3, <2>1, <2>2, CycleMoves DEF Ask
  <1>4. ASSUME NEW r \in Peers, AskFails(p, r)
        PROVE  TypeOK'
    <2> DEFINE c == [sync[p] EXCEPT !.todo = @ \ {r}]
    <2>1. sync[p] \in [stage : {"scan"}, todo : SUBSET Peers, local : Document]
      BY <1>0, <1>4 DEF AskFails, SyncCycle
    <2>2. c \in SyncCycle
      BY <2>1 DEF SyncCycle
    <2>3. sync' = [sync EXCEPT ![p] = c]
      BY <1>4 DEF AskFails
    <2> HIDE DEF c
    <2> QED BY <1>4, <2>2, <2>3, CycleMoves DEF AskFails
  <1>5. CASE Adopt(p)
    <2>1. sync[p].theirs \in Document /\ sync[p].local \in Document
      BY <1>0, <1>5, StageFields DEF Adopt
    <2>2. /\ doc' \in [Peers -> Document]
          /\ \A q \in Peers : \A e \in doc'[q].views.pins : e[1] \in doc'[q].views.has
          /\ now' \in Nat
      BY <1>5, <2>1, TakesType DEF Adopt
    <2> DEFINE d == IF Refuses(p, sync[p].theirs) THEN sync[p].local ELSE doc'[p]
    <2>3. d \in Document
      BY <2>1, <2>2
    <2>4. sync' = [sync EXCEPT ![p] = Scanning(p, d)]
      BY <1>5 DEF Adopt
    <2> HIDE DEF d
    <2>5. Scanning(p, d) \in SyncCycle
      BY <1>0, <1>5, <2>3, ScanningType DEF Adopt
    <2>6. sync' \in [Peers -> SyncCycle]
      BY <1>0, <2>4, <2>5, CycleReplaced
    <2> QED BY <1>5, <2>2, <2>6 DEF Adopt, TypeOK
  <1>6. CASE Push(p)
    <2> DEFINE c == [stage |-> "push", todo |-> sync[p].todo, local |-> sync[p].local,
                     peer |-> sync[p].peer]
    <2>1. c \in SyncCycle
      BY <1>0, <1>6, StageFields DEF Push, SyncCycle
    <2>2. sync' = [sync EXCEPT ![p] = c]
      BY <1>6 DEF Push
    <2> QED BY <1>6, <2>1, <2>2, CycleMoves DEF Push
  <1>7. CASE SameTime(p)
    <2>1. Scanning(p, sync[p].local) \in SyncCycle
      BY <1>0, <1>7, StageFields, ScanningType DEF SameTime
    <2> QED BY <1>7, <2>1, CycleMoves DEF SameTime
  <1>8. CASE Deliver(p)
    <2>1. sync[p].peer \in Peers /\ sync[p].local \in Document
      BY <1>0, <1>8, StageFields DEF Deliver
    <2>2. /\ doc' \in [Peers -> Document]
          /\ \A q \in Peers : \A e \in doc'[q].views.pins : e[1] \in doc'[q].views.has
          /\ now' \in Nat
      <3>1. CASE Accepts(sync[p].peer, sync[p].local)
        BY <1>8, <2>1, <3>1, TakesType DEF Deliver
      <3>2. CASE ~Accepts(sync[p].peer, sync[p].local)
        BY <1>8, <3>2 DEF Deliver, TypeOK
      <3> QED BY <3>1, <3>2
    <2>3. Scanning(p, sync[p].local) \in SyncCycle
      BY <1>0, <1>8, <2>1, ScanningType DEF Deliver
    <2>4. sync' \in [Peers -> SyncCycle]
      BY <1>0, <1>8, <2>3, CycleReplaced DEF Deliver
    <2> QED BY <1>8, <2>2, <2>4 DEF Deliver, TypeOK
  <1>9. CASE PushLost(p)
    <2>1. Scanning(p, sync[p].local) \in SyncCycle
      BY <1>0, <1>9, StageFields, ScanningType DEF PushLost
    <2> QED BY <1>9, <2>1, CycleMoves DEF PushLost
  <1> QED BY <1>1, <1>2, <1>3, <1>4, <1>5, <1>6, <1>7, <1>8, <1>9 DEF SyncStep

-----------------------------------------------------------------------------
LEMMA TypeInit == Init => TypeOK
  <1> SUFFICES ASSUME Init PROVE TypeOK
    OBVIOUS
  <1> DEFINE views == [has |-> Views, pins |-> Pairs, at |-> [v \in Views |-> None],
                       memberAt |-> [e \in Pairs |-> None]]
             font  == CHOOSE f \in Fonts : TRUE
             d     == [views |-> views, hidden |-> {}, font |-> font,
                       viewsAt |-> 0, updatedAt |-> 0]
  <1>1. views \in ViewState
    BY DEF ViewState, None
  <1>2. font \in Fonts
    BY PeersAssumption
  <1>3. views.pins = Pairs /\ views.has = Views
    OBVIOUS
  <1>4. doc = [p \in Peers |-> d]
    BY DEF Init
  <1> HIDE DEF views, font
  <1>5. d \in Document /\ d.views = views
    BY <1>1, <1>2 DEF Document
  <1> HIDE DEF d
  <1>6. /\ doc \in [Peers -> Document]
        /\ \A p \in Peers : \A e \in doc[p].views.pins : e[1] \in doc[p].views.has
    BY <1>3, <1>4, <1>5, PairView
  <1>7. sync \in [Peers -> SyncCycle]
    BY DEF Init, Idle, SyncCycle
  <1>8. wish \in [Views \cup Pairs -> Wish]
    BY DEF Init, Wish
  <1>9. now \in Nat /\ edits \in 0..MaxEdits
    BY PeersAssumption DEF Init
  <1> QED BY <1>6, <1>7, <1>8, <1>9 DEF TypeOK

LEMMA TypeNext == TypeOK /\ [Next]_vars => TypeOK'
  <1> SUFFICES ASSUME TypeOK, [Next]_vars PROVE TypeOK'
    OBVIOUS
  <1>1. ASSUME NEW p \in Peers, EditStep(p)
        PROVE  TypeOK'
    BY <1>1, EditFontType, EditHiddenType, EditViewsType, PruneType DEF EditStep
  <1>2. ASSUME NEW p \in Peers, SyncStep(p)
        PROVE  TypeOK'
    BY <1>2, CycleStepType
  <1>3. CASE UNCHANGED vars
    BY <1>3 DEF vars, TypeOK
  <1> QED BY <1>1, <1>2, <1>3 DEF Next

\* Whatever is edited, pruned, pulled and pushed, by any number of servers and
\* with any clocks: every document, those under way included, keeps its shape,
\* and no key is listed in a view the document does not have.
THEOREM SettingsTypeCorrect == Spec => []TypeOK
  BY TypeInit, TypeNext, PTL DEF Spec
-----------------------------------------------------------------------------
(* Servers of the same time.  The documents in play are those the servers    *)
(* have and those their cycles carry: any of them may yet be taken in.       *)

\* The clocks of the servers agree.  A server whose clock is behind stamps an
\* edit with a time another may have used already, or that an older change has.
SameClocks == \A p, q \in Peers : Skew[p] = Skew[q]

\* What a cycle carries.
Carried(c) ==
    (IF c.stage = "idle" THEN {} ELSE {c.local})
    \cup (IF c.stage = "got" THEN {c.theirs} ELSE {})

Held == {doc[p] : p \in Peers} \cup UNION {Carried(sync[p]) : p \in Peers}

\* What SameTimeSameSettings asks of two servers, of two documents.
Same(d, e) ==
    /\ d.views.has = e.views.has
    /\ Lasting(d) = Lasting(e)
    /\ d.font = e.font

\* No document in play is of a time to come, and two of the same time are alike.
TimesTell ==
    /\ \A d \in Held : \A p \in Peers : d.updatedAt <= now + Skew[p]
    /\ \A d, e \in Held : d.updatedAt = e.updatedAt => Same(d, e)

-----------------------------------------------------------------------------
(* What a user changed, among the documents in play. *)

HeldViews == {d.views : d \in Held}

\* A stamp is a time some clock has shown.
Stamped(w) ==
    \A p \in Peers :
       /\ \A v \in Views : w.at[v] <= now + Skew[p]
       /\ \A e \in Pairs : /\ w.memberAt[e] <= now + Skew[p]
                           /\ w.memberAt[e] # None => w.memberAt[e] > Skew[p]

\* A view nobody made or deleted is in every document.
Untouched(v) == ~wish[v].said => \A w \in HeldViews : v \in w.has

\* A view somebody made is in the document of the server where that was done,
\* and no other document has a later stamp for it.
ViewStands(v) ==
    wish[v].said /\ wish[v].there =>
      LET own == doc[wish[v].by].views
      IN  /\ v \in own.has
          /\ \A w \in HeldViews : w.at[v] <= own.at[v]

\* So it is with a pin or an unpin, and a document with the same stamp agrees
\* on it; a pin nobody touched is in every document.
PairStands(e) ==
    ~wish[e[1]].said =>
      IF wish[e].said
        THEN LET own == doc[wish[e].by].views
             IN  \A w \in HeldViews :
                    /\ w.memberAt[e] <= own.memberAt[e]
                    /\ w.memberAt[e] = own.memberAt[e] => (e \in w.pins <=> wish[e].there)
        ELSE \A w \in HeldViews : e \in w.pins

\* The first tombstone is not collected before the time TTL.
EditsHold ==
    /\ \A w \in HeldViews : Stamped(w)
    /\ \A v \in Views : Untouched(v) /\ ViewStands(v)
    /\ now <= TTL => \A e \in Pairs : PairStands(e)

-----------------------------------------------------------------------------
(* What a step does to the documents in play. *)

\* Nothing comes into play.
Quiet == Held' \subseteq Held /\ UNCHANGED <<doc, now, wish>>

\* Server q takes in a document in play.
TakesIn(q, m) ==
    LET d == Applied(doc[q], m, Time(q))
    IN  /\ Held' \subseteq Held \cup {d}
        /\ doc' = [doc EXCEPT ![q] = d]
        /\ now' = IF Bumped(doc[q], m, Time(q)) THEN now + 1 ELSE now
        /\ UNCHANGED wish

\* Every document in play is a document.
LEMMA HeldType ==
  ASSUME TypeOK
  PROVE  Held \in SUBSET Document
  <1>1. doc \in [Peers -> Document] /\ sync \in [Peers -> SyncCycle]
    BY DEF TypeOK
  <1>2. ASSUME NEW p \in Peers
        PROVE  Carried(sync[p]) \subseteq Document
    <2>1. sync[p] \in SyncCycle
      BY <1>1
    <2> QED BY <2>1 DEF Carried, SyncCycle
  <1> QED BY <1>1, <1>2 DEF Held

\* A server's document and what a cycle carries are in play.
LEMMA HeldThings ==
  ASSUME NEW p \in Peers
  PROVE  doc[p] \in Held /\ Carried(sync[p]) \subseteq Held
  BY DEF Held

\* One document and one cycle replaced.
LEMMA HeldAfter ==
  ASSUME TypeOK, NEW p \in Peers, NEW q \in Peers, NEW d, NEW c,
         doc' = [doc EXCEPT ![q] = d], sync' = [sync EXCEPT ![p] = c],
         Carried(c) \subseteq Held \cup {d}
  PROVE  Held' \subseteq Held \cup {d}
  <1>1. doc \in [Peers -> Document] /\ sync \in [Peers -> SyncCycle]
    BY DEF TypeOK
  <1>2. \A r \in Peers : doc'[r] \in Held \cup {d}
    BY <1>1, HeldThings
  <1>3. ASSUME NEW r \in Peers
        PROVE  Carried(sync'[r]) \subseteq Held \cup {d}
    BY <1>1, HeldThings
  <1>4. Held' = {doc'[r] : r \in Peers} \cup UNION {Carried(sync'[r]) : r \in Peers}
    BY DEF Held, Carried
  <1> QED BY <1>2, <1>3, <1>4

\* A step that only moves a cycle on, and carries nothing new.
LEMMA QuietMove ==
  ASSUME TypeOK, NEW p \in Peers, NEW c, Carried(c) \subseteq Held,
         sync' = [sync EXCEPT ![p] = c], UNCHANGED <<doc, now, wish>>
  PROVE  Quiet
  <1>1. doc' = [doc EXCEPT ![p] = doc[p]]
    BY DEF TypeOK
  <1>2. Held' \subseteq Held \cup {doc[p]}
    BY <1>1, HeldAfter
  <1> QED BY <1>2, HeldThings DEF Quiet

\* What the cycle of p carries when it is not idle.
LEMMA CarriedFields ==
  ASSUME NEW p \in Peers
  PROVE  /\ sync[p].stage \in {"scan", "got", "push"} => sync[p].local \in Held
         /\ sync[p].stage = "got" => sync[p].theirs \in Held
  BY HeldThings DEF Carried

LEMMA CarriedScanning ==
  ASSUME NEW p \in Peers, NEW d
  PROVE  Carried(Scanning(p, d)) = {d}
  BY DEF Carried, Scanning

\* Server q is asked to take in a document in play, and the cycle of p goes on.
LEMMA TakesKinds ==
  ASSUME TypeOK, NEW p \in Peers, NEW q \in Peers, NEW m \in Held, Takes(q, m),
         NEW d, sync' = [sync EXCEPT ![p] = Scanning(p, d)],
         d \in Held \/ (~Refuses(q, m) /\ d = doc'[q]), UNCHANGED wish
  PROVE  Quiet \/ TakesIn(q, m)
  <1>1. CASE Refuses(q, m)
    <2>1. Carried(Scanning(p, d)) \subseteq Held
      BY <1>1, CarriedScanning
    <2> QED BY <1>1, <2>1, QuietMove DEF Takes
  <1>2. CASE ~Refuses(q, m)
    <2> DEFINE new == Applied(doc[q], m, Time(q))
    <2>1. doc' = [doc EXCEPT ![q] = new]
      BY <1>2 DEF Takes
    <2>2. doc'[q] = new
      BY <2>1 DEF TypeOK
    <2>3. Carried(Scanning(p, d)) \subseteq Held \cup {new}
      BY <2>2, CarriedScanning
    <2> HIDE DEF new
    <2>4. Held' \subseteq Held \cup {new}
      BY <2>1, <2>3, HeldAfter
    <2>5. now' = IF Bumped(doc[q], m, Time(q)) THEN now + 1 ELSE now
      BY <1>2 DEF Takes
    <2> QED BY <2>1, <2>4, <2>5 DEF TakesIn, new
  <1> QED BY <1>1, <1>2

\* Every step of a cycle brings nothing into play, or the result of a merge.
LEMMA SyncKinds ==
  ASSUME TypeOK, NEW p \in Peers, SyncStep(p)
  PROVE  Quiet \/ \E q \in Peers : \E m \in Held : TakesIn(q, m)
  <1>1. CASE BeginSync(p)
    <2> DEFINE c == [stage |-> "scan", todo |-> Peers \ {p}, local |-> doc[p]]
    <2>1. Carried(c) \subseteq Held
      BY HeldThings DEF Carried
    <2>2. sync' = [sync EXCEPT ![p] = c] /\ UNCHANGED <<doc, now, wish>>
      BY <1>1 DEF BeginSync
    <2> HIDE DEF c
    <2> QED BY <2>1, <2>2, QuietMove
  <1>2. CASE EndSync(p)
    <2>1. Carried(Idle) \subseteq Held
      BY DEF Carried, Idle
    <2> QED BY <1>2, <2>1, QuietMove DEF EndSync
  <1>3. ASSUME NEW r \in Peers, Ask(p, r)
        PROVE  Quiet
    <2> DEFINE c == [stage |-> "got", todo |-> sync[p].todo \ {r}, local |-> sync[p].local,
                     peer |-> r, theirs |-> doc[r]]
    <2>1. sync[p].stage = "scan"
      BY <1>3 DEF Ask
    <2>2. sync[p].local \in Held /\ doc[r] \in Held
      BY <2>1, CarriedFields, HeldThings
    <2>3. Carried(c) \subseteq Held
      BY <2>2 DEF Carried
    <2>4. sync' = [sync EXCEPT ![p] = c] /\ UNCHANGED <<doc, now, wish>>
      BY <1>3 DEF Ask
    <2> HIDE DEF c
    <2> QED BY <2>3, <2>4, QuietMove
  <1>4. ASSUME NEW r \in Peers, AskFails(p, r)
        PROVE  Quiet
    <2> DEFINE c == [sync[p] EXCEPT !.todo = @ \ {r}]
    <2>1. sync[p].stage = "scan" /\ sync[p] \in SyncCycle
      BY <1>4 DEF AskFails, TypeOK
    <2>2. sync[p] \in [stage : {"scan"}, todo : SUBSET Peers, local : Document]
      BY <2>1 DEF SyncCycle
    <2>3. c.stage = "scan" /\ c.local = sync[p].local
      BY <2>1, <2>2
    <2>4. Carried(c) = {sync[p].local}
      BY <2>3 DEF Carried
    <2>5. sync' = [sync EXCEPT ![p] = c] /\ UNCHANGED <<doc, now, wish>>
      BY <1>4 DEF AskFails
    <2> HIDE DEF c
    <2>6. Carried(c) \subseteq Held
      BY <2>1, <2>4, CarriedFields
    <2> QED BY <2>5, <2>6, QuietMove
  <1>5. CASE Adopt(p)
    <2> DEFINE d == IF Refuses(p, sync[p].theirs) THEN sync[p].local ELSE doc'[p]
    <2>1. sync[p].theirs \in Held /\ sync[p].local \in Held
      BY <1>5, CarriedFields DEF Adopt
    <2>2. d \in Held \/ (~Refuses(p, sync[p].theirs) /\ d = doc'[p])
      BY <2>1
    <2>3. sync' = [sync EXCEPT ![p] = Scanning(p, d)] /\ UNCHANGED wish
      BY <1>5 DEF Adopt
    <2>4. Takes(p, sync[p].theirs)
      BY <1>5 DEF Adopt
    <2> HIDE DEF d
    <2>5. Quiet \/ TakesIn(p, sync[p].theirs)
      BY <2>1, <2>2, <2>3, <2>4, TakesKinds
    <2> QED BY <2>1, <2>5
  <1>6. CASE Push(p)
    <2> DEFINE c == [stage |-> "push", todo |-> sync[p].todo, local |-> sync[p].local,
                     peer |-> sync[p].peer]
    <2>1. sync[p].local \in Held
      BY <1>6, CarriedFields DEF Push
    <2>2. Carried(c) \subseteq Held
      BY <2>1 DEF Carried
    <2>3. sync' = [sync EXCEPT ![p] = c] /\ UNCHANGED <<doc, now, wish>>
      BY <1>6 DEF Push
    <2> HIDE DEF c
    <2> QED BY <2>2, <2>3, QuietMove
  <1>7. CASE SameTime(p)
    <2>1. Carried(Scanning(p, sync[p].local)) \subseteq Held
      BY <1>7, CarriedFields, CarriedScanning DEF SameTime
    <2> QED BY <1>7, <2>1, QuietMove DEF SameTime
  <1>8. CASE Deliver(p)
    <2>1. sync[p].local \in Held /\ sync[p].peer \in Peers
      BY <1>8, CarriedFields, StageFields DEF Deliver, TypeOK
    <2>2. sync' = [sync EXCEPT ![p] = Scanning(p, sync[p].local)] /\ UNCHANGED wish
      BY <1>8 DEF Deliver
    <2>3. CASE Accepts(sync[p].peer, sync[p].local)
      <3>1. Takes(sync[p].peer, sync[p].local)
        BY <1>8, <2>3 DEF Deliver
      <3>2. Quiet \/ TakesIn(sync[p].peer, sync[p].local)
        BY <2>1, <2>2, <3>1, TakesKinds
      <3> QED BY <2>1, <3>2
    <2>4. CASE ~Accepts(sync[p].peer, sync[p].local)
      <3>1. UNCHANGED <<doc, now>>
        BY <1>8, <2>4 DEF Deliver
      <3>2. Carried(Scanning(p, sync[p].local)) \subseteq Held
        BY <2>1, CarriedScanning
      <3> QED BY <2>2, <3>1, <3>2, QuietMove
    <2> QED BY <2>3, <2>4
  <1>9. CASE PushLost(p)
    <2>1. Carried(Scanning(p, sync[p].local)) \subseteq Held
      BY <1>9, CarriedFields, CarriedScanning DEF PushLost
    <2> QED BY <1>9, <2>1, QuietMove DEF PushLost
  <1> QED BY <1>1, <1>2, <1>3, <1>4, <1>5, <1>6, <1>7, <1>8, <1>9 DEF SyncStep

\* An edit: only the document of server q is new.
Edits(q, d) ==
    /\ Held' \subseteq Held \cup {d}
    /\ doc' = [doc EXCEPT ![q] = d]
    /\ now' = now + 1

\* A server's document is another; its cycle carries what it did.
LEMMA HeldEdited ==
  ASSUME TypeOK, NEW q \in Peers, NEW d, doc' = [doc EXCEPT ![q] = d], sync' = sync
  PROVE  Held' \subseteq Held \cup {d}
  <1>1. sync' = [sync EXCEPT ![q] = sync[q]]
    BY DEF TypeOK
  <1> QED BY <1>1, HeldThings, HeldAfter

\* The user changes a setting that is no view.
LookEdited(q, d) ==
    /\ Edits(q, d)
    /\ d.views = doc[q].views /\ d.updatedAt = Time(q)
    /\ UNCHANGED wish

\* Somebody, or the prune, changes what is listed; only the first takes a time.
ViewsEdited(q, d, has, pins) ==
    /\ Edits(q, d)
    /\ d.views = Edited(doc[q].views, has, pins, Time(q))
    /\ wish' = WishAfter(q, has, pins)
    /\ \/ d.updatedAt = Time(q)
       \/ /\ d.updatedAt = doc[q].updatedAt /\ d.font = doc[q].font
          /\ has = doc[q].views.has
          /\ \E k \in Gone : pins = doc[q].views.pins \ (Views \X {k})

\* The prune has only a hidden key to drop.
HiddenPruned(q, d) ==
    /\ Edits(q, d)
    /\ d.views = doc[q].views /\ d.font = doc[q].font /\ d.updatedAt = doc[q].updatedAt
    /\ UNCHANGED wish

LEMMA FontKind ==
  ASSUME TypeOK, NEW p \in Peers, EditFont(p)
  PROVE  \E d \in Document : LookEdited(p, d)
  <1>1. PICK f \in Fonts :
           doc' = [doc EXCEPT ![p].font = f, ![p].updatedAt = Time(p)]
    BY DEF EditFont
  <1>2. Time(p) \in Nat /\ doc[p] \in Document
    BY TimeType DEF TypeOK
  <1> DEFINE d == [doc[p] EXCEPT !.font = f, !.updatedAt = Time(p)]
  <1>3. doc' = [doc EXCEPT ![p] = d] /\ sync' = sync /\ now' = now + 1 /\ wish' = wish
    BY <1>1 DEF EditFont
  <1>4. d \in Document /\ d.views = doc[p].views /\ d.updatedAt = Time(p)
    BY <1>2 DEF Document
  <1> HIDE DEF d
  <1>5. Held' \subseteq Held \cup {d}
    BY <1>3, HeldEdited
  <1> QED BY <1>3, <1>4, <1>5 DEF LookEdited, Edits

LEMMA HiddenKind ==
  ASSUME TypeOK, NEW p \in Peers, EditHidden(p)
  PROVE  \E d \in Document : LookEdited(p, d)
  <1>1. PICK hidden \in SUBSET Keys :
           doc' = [doc EXCEPT ![p].hidden = hidden, ![p].updatedAt = Time(p),
                              ![p].viewsAt = Time(p)]
    BY DEF EditHidden
  <1>2. Time(p) \in Nat /\ doc[p] \in Document
    BY TimeType DEF TypeOK
  <1> DEFINE d == [doc[p] EXCEPT !.hidden = hidden, !.updatedAt = Time(p), !.viewsAt = Time(p)]
  <1>3. doc' = [doc EXCEPT ![p] = d] /\ sync' = sync /\ now' = now + 1 /\ wish' = wish
    BY <1>1 DEF EditHidden
  <1>4. d \in Document /\ d.views = doc[p].views /\ d.updatedAt = Time(p)
    BY <1>2 DEF Document
  <1> HIDE DEF d
  <1>5. Held' \subseteq Held \cup {d}
    BY <1>3, HeldEdited
  <1> QED BY <1>3, <1>4, <1>5 DEF LookEdited, Edits

\* The pins of a well-formed list of views.
Lists(has, pins) ==
    /\ has \in SUBSET Views /\ pins \in SUBSET Pairs
    /\ \A e \in pins : e[1] \in has

LEMMA ViewsKind ==
  ASSUME TypeOK, NEW p \in Peers, NEW forced \in BOOLEAN, EditViews(p, forced)
  PROVE  \E d \in Document : \E has \in SUBSET Views : \E pins \in SUBSET Pairs :
           Lists(has, pins) /\ ViewsEdited(p, d, has, pins)
  <1>0. PICK has \in SUBSET Views : \E pins \in SUBSET (has \X Keys) :
           /\ doc' = [doc EXCEPT ![p].views = Edited(doc[p].views, has, pins, Time(p)),
                                 ![p].viewsAt = Time(p), ![p].updatedAt = Time(p)]
           /\ wish' = WishAfter(p, has, pins)
    BY DEF EditViews
  <1>1. PICK pins \in SUBSET (has \X Keys) :
           /\ doc' = [doc EXCEPT ![p].views = Edited(doc[p].views, has, pins, Time(p)),
                                 ![p].viewsAt = Time(p), ![p].updatedAt = Time(p)]
           /\ wish' = WishAfter(p, has, pins)
    BY <1>0
  <1>2. Time(p) \in Nat /\ doc[p] \in Document /\ doc[p].views \in ViewState
    BY TimeType DEF TypeOK, Document
  <1> DEFINE new == Edited(doc[p].views, has, pins, Time(p))
             d == [doc[p] EXCEPT !.views = new, !.viewsAt = Time(p), !.updatedAt = Time(p)]
  <1>3. doc' = [doc EXCEPT ![p] = d] /\ sync' = sync /\ now' = now + 1
    BY <1>1 DEF EditViews
  <1>4. Lists(has, pins)
    BY PinsOfViews DEF Lists
  <1>5. WellFormed(new)
    BY <1>2, <1>4, EditedType DEF Lists
  <1> HIDE DEF new
  <1>6. d \in Document /\ d.views = new /\ d.updatedAt = Time(p)
    BY <1>2, <1>5 DEF Document, WellFormed
  <1> HIDE DEF d
  <1>7. Held' \subseteq Held \cup {d}
    BY <1>3, HeldEdited
  <1>8. ViewsEdited(p, d, has, pins)
    BY <1>1, <1>3, <1>6, <1>7 DEF ViewsEdited, Edits, new
  <1> QED BY <1>4, <1>6, <1>8 DEF Lists

\* Where nothing is added or taken away, nobody's wish changes.
LEMMA NoWishChanged ==
  ASSUME TypeOK, NEW p \in Peers
  PROVE  WishAfter(p, doc[p].views.has, doc[p].views.pins) = wish
  BY DEF WishAfter, TypeOK

LEMMA PruneKind ==
  ASSUME TypeOK, NEW p \in Peers, NEW k \in Gone, Prune(p, k)
  PROVE  \E d \in Document :
           \/ HiddenPruned(p, d)
           \/ \E has \in SUBSET Views : \E pins \in SUBSET Pairs :
                 Lists(has, pins) /\ ViewsEdited(p, d, has, pins)
  <1> DEFINE has  == doc[p].views.has
             pins == doc[p].views.pins \ (Views \X {k})
             new  == IF pins # doc[p].views.pins
                       THEN Edited(doc[p].views, has, pins, Time(p)) ELSE doc[p].views
             d    == [doc[p] EXCEPT !.views = new, !.hidden = @ \ {k}]
  <1>1. Time(p) \in Nat /\ doc[p] \in Document /\ doc[p].views \in ViewState
    BY TimeType DEF TypeOK, Document
  <1>2. Lists(has, pins)
    BY <1>1 DEF TypeOK, ViewState, Lists
  <1>3. doc' = [doc EXCEPT ![p] = d] /\ wish' = WishAfter(p, has, pins)
        /\ sync' = sync /\ now' = now + 1
    BY DEF Prune
  <1>4. WellFormed(new)
    <2>1. WellFormed(doc[p].views)
      BY <1>1 DEF TypeOK, WellFormed
    <2>2. WellFormed(Edited(doc[p].views, has, pins, Time(p)))
      BY <1>1, <1>2, EditedType DEF Lists
    <2> QED BY <2>1, <2>2
  <1> HIDE DEF has, pins, new
  <1>5. /\ d \in Document /\ d.views = new
        /\ d.font = doc[p].font /\ d.updatedAt = doc[p].updatedAt
    BY <1>1, <1>4 DEF Document, WellFormed
  <1> HIDE DEF d
  <1>6. Edits(p, d)
    BY <1>3, HeldEdited DEF Edits
  <1>7. CASE pins = doc[p].views.pins
    <2>1. new = doc[p].views
      BY <1>7 DEF new
    <2>2. wish' = wish
      BY <1>3, <1>7, NoWishChanged DEF has
    <2> QED BY <1>5, <1>6, <2>1, <2>2 DEF HiddenPruned
  <1>8. CASE pins # doc[p].views.pins
    <2>1. new = Edited(doc[p].views, has, pins, Time(p))
      BY <1>8 DEF new
    <2>2. \E g \in Gone : pins = doc[p].views.pins \ (Views \X {g})
      BY DEF pins
    <2>3. ViewsEdited(p, d, has, pins)
      BY <1>3, <1>5, <1>6, <2>1, <2>2 DEF ViewsEdited, has
    <2> QED BY <1>2, <1>5, <2>3 DEF Lists
  <1> QED BY <1>7, <1>8

\* Every step of the system is of one of these kinds.
LEMMA StepKinds ==
  ASSUME TypeOK, [Next]_vars
  PROVE  \/ Quiet
         \/ \E q \in Peers : \E m \in Held : TakesIn(q, m)
         \/ \E q \in Peers : \E d \in Document :
              \/ LookEdited(q, d)
              \/ HiddenPruned(q, d)
              \/ \E has \in SUBSET Views : \E pins \in SUBSET Pairs :
                    Lists(has, pins) /\ ViewsEdited(q, d, has, pins)
  <1>1. CASE UNCHANGED vars
    <2>1. doc' = doc /\ sync' = sync /\ now' = now /\ wish' = wish
      BY <1>1 DEF vars
    <2>2. Held' = Held
      BY <2>1 DEF Held, Carried
    <2> QED BY <2>1, <2>2 DEF Quiet
  <1>2. ASSUME NEW p \in Peers, SyncStep(p)
        PROVE  Quiet \/ \E q \in Peers : \E m \in Held : TakesIn(q, m)
    BY <1>2, SyncKinds
  <1>3. ASSUME NEW p \in Peers, EditStep(p)
        PROVE  \E d \in Document :
                 \/ LookEdited(p, d)
                 \/ HiddenPruned(p, d)
                 \/ \E has \in SUBSET Views : \E pins \in SUBSET Pairs :
                       Lists(has, pins) /\ ViewsEdited(p, d, has, pins)
    <2>1. CASE EditFont(p)
      BY <2>1, FontKind
    <2>2. CASE EditHidden(p)
      BY <2>2, HiddenKind
    <2>3. ASSUME NEW forced \in BOOLEAN, EditViews(p, forced)
          PROVE  \E d \in Document : \E has \in SUBSET Views : \E pins \in SUBSET Pairs :
                   Lists(has, pins) /\ ViewsEdited(p, d, has, pins)
      BY <2>3, ViewsKind
    <2>4. ASSUME NEW k \in Gone, Prune(p, k)
          PROVE  \E d \in Document :
                   \/ HiddenPruned(p, d)
                   \/ \E has \in SUBSET Views : \E pins \in SUBSET Pairs :
                         Lists(has, pins) /\ ViewsEdited(p, d, has, pins)
      BY <2>4, PruneKind
    <2> QED BY <1>3, <2>1, <2>2, <2>3, <2>4 DEF EditStep
  <1> QED BY <1>1, <1>2, <1>3 DEF Next

-----------------------------------------------------------------------------
(* SameTimeSameSettings *)

\* A document like one in play and of its time changes nothing.
LEMMA TimesTellAlike ==
  ASSUME TypeOK, TimesTell, NEW d \in Document, NEW m \in Held,
         d.updatedAt = m.updatedAt, Same(d, m),
         Held' \subseteq Held \cup {d}, now' \in Nat, now' >= now
  PROVE  TimesTell'
  <1>1. \A e \in Held : e \in Document
    BY HeldType
  <1>2. ASSUME NEW e \in Held', NEW p \in Peers
        PROVE  e.updatedAt <= now' + Skew[p]
    <2>1. e.updatedAt <= now + Skew[p]
      BY DEF TimesTell
    <2>2. e.updatedAt \in Nat /\ now \in Nat /\ Skew[p] \in Nat
      BY <1>1, PeersAssumption DEF Document, TypeOK
    <2> QED BY <2>1, <2>2
  <1>3. \A e, f \in Held' : e.updatedAt = f.updatedAt => Same(e, f)
    BY DEF TimesTell, Same
  <1> QED BY <1>2, <1>3 DEF TimesTell, Same, Lasting

\* Nor does one of a time nobody has used.
LEMMA TimesTellFresh ==
  ASSUME SameClocks, TypeOK, TimesTell, NEW q \in Peers, NEW d \in Document,
         d.updatedAt = Time(q), Held' \subseteq Held \cup {d}, now' = now + 1
  PROVE  TimesTell'
  <1>1. \A e \in Held : e \in Document
    BY HeldType
  <1>2. \A p \in Peers : Skew[p] = Skew[q] /\ Skew[p] \in Nat
    BY PeersAssumption DEF SameClocks
  <1>3. now \in Nat /\ d.updatedAt = now + 1 + Skew[q]
    BY DEF TypeOK, Time
  <1>4. \A e \in Held : e.updatedAt \in Nat /\ e.updatedAt < d.updatedAt
    BY <1>1, <1>2, <1>3 DEF TimesTell, Document
  <1>5. \A e \in Held' : \A p \in Peers : e.updatedAt <= now' + Skew[p]
    BY <1>2, <1>3, <1>4
  <1>6. \A e, f \in Held' : e.updatedAt = f.updatedAt => Same(e, f)
    <2>1. \A e, f \in Held : e.updatedAt = f.updatedAt => Same(e, f)
      BY DEF TimesTell
    <2> QED BY <1>4, <2>1 DEF Same
  <1> QED BY <1>5, <1>6 DEF TimesTell, Same, Lasting

\* What a merge leaves: it is of the peer's time and like the peer's document,
\* or of a time nobody has used.
LEMMA AppliedTime ==
  ASSUME SameClocks, TypeOK, TimesTell, NEW q \in Peers, NEW m \in Held
  PROVE  LET d == Applied(doc[q], m, Time(q))
         IN  /\ d \in Document
             /\ Bumped(doc[q], m, Time(q)) => d.updatedAt = Time(q)
             /\ ~Bumped(doc[q], m, Time(q)) => d.updatedAt = m.updatedAt /\ Same(d, m)
  <1> DEFINE d == Applied(doc[q], m, Time(q))
             merged == Merged(doc[q].views, m.views, Time(q))
             bumped == Bumped(doc[q], m, Time(q))
             look == Later(m.updatedAt, Time(q))
  <1>1. m \in Document /\ doc[q] \in Document /\ Time(q) \in Nat
    BY HeldType, TimeType DEF TypeOK
  <1>2. d \in Document
    BY <1>1, AppliedType
  <1>3. /\ d.views = merged /\ d.font = m.font
        /\ d.updatedAt = IF bumped THEN look ELSE m.updatedAt
    BY DEF Applied
  <1>4. look = Time(q)
    <2>1. m.updatedAt <= now + Skew[q]
      BY DEF TimesTell
    <2>2. m.updatedAt \in Nat /\ now \in Nat /\ Skew[q] \in Nat
      BY <1>1, PeersAssumption DEF Document, TypeOK
    <2> QED BY <2>1, <2>2 DEF Later, Time
  <1>5. ASSUME ~bumped
        PROVE  Same(d, m)
    <2>1. Signature(merged) = Signature(m.views)
      BY <1>5 DEF Bumped, Contributes
    <2> HIDE DEF merged
    <2>2. merged.has = m.views.has /\ merged.pins = m.views.pins
      BY <2>1 DEF Signature
    <2> QED BY <1>3, <2>2 DEF Same, Lasting
  <1> QED BY <1>2, <1>3, <1>4, <1>5

LEMMA TimesTellInit == Init => TimesTell
  <1> SUFFICES ASSUME Init PROVE TimesTell
    OBVIOUS
  <1>1. \A p \in Peers : Carried(sync[p]) = {}
    BY DEF Init, Idle, Carried
  <1>2. \A e \in Held : \E p \in Peers : e = doc[p]
    BY <1>1 DEF Held
  <1>3. \A p, q \in Peers : doc[p] = doc[q] /\ doc[p].updatedAt = 0
    BY DEF Init
  <1>4. now = 0 /\ \A p \in Peers : Skew[p] \in Nat
    BY PeersAssumption DEF Init
  <1>5. \A e, f \in Held : e = f /\ e.updatedAt = 0
    BY <1>2, <1>3
  <1> QED BY <1>4, <1>5 DEF TimesTell, Same

LEMMA TimesTellNext ==
  ASSUME SameClocks, TypeOK, TimesTell, [Next]_vars
  PROVE  TimesTell'
  <1>0. now \in Nat /\ \A q \in Peers : doc[q] \in Held /\ doc[q] \in Document
    BY HeldThings DEF TypeOK
  <1>1. CASE Quiet
    <2>1. Held' \subseteq Held /\ now' = now
      BY <1>1 DEF Quiet
    <2> QED BY <2>1 DEF TimesTell, Same, Lasting
  <1>2. ASSUME NEW q \in Peers, NEW m \in Held, TakesIn(q, m)
        PROVE  TimesTell'
    <2> DEFINE d == Applied(doc[q], m, Time(q))
    <2>1. /\ d \in Document
          /\ Bumped(doc[q], m, Time(q)) => d.updatedAt = Time(q)
          /\ ~Bumped(doc[q], m, Time(q)) => d.updatedAt = m.updatedAt /\ Same(d, m)
      BY AppliedTime
    <2>2. /\ Held' \subseteq Held \cup {d}
          /\ now' = IF Bumped(doc[q], m, Time(q)) THEN now + 1 ELSE now
      BY <1>2 DEF TakesIn
    <2> HIDE DEF d
    <2>3. CASE Bumped(doc[q], m, Time(q))
      BY <2>1, <2>2, <2>3, TimesTellFresh
    <2>4. CASE ~Bumped(doc[q], m, Time(q))
      BY <1>0, <2>1, <2>2, <2>4, TimesTellAlike
    <2> QED BY <2>3, <2>4
  <1>3. ASSUME NEW q \in Peers, NEW d \in Document, LookEdited(q, d)
        PROVE  TimesTell'
    BY <1>3, TimesTellFresh DEF LookEdited, Edits
  <1>4. ASSUME NEW q \in Peers, NEW d \in Document, HiddenPruned(q, d)
        PROVE  TimesTell'
    <2>1. Same(d, doc[q]) /\ d.updatedAt = doc[q].updatedAt
      BY <1>4 DEF HiddenPruned, Same, Lasting
    <2> QED BY <1>0, <1>4, <2>1, TimesTellAlike DEF HiddenPruned, Edits
  <1>5. ASSUME NEW q \in Peers, NEW d \in Document, NEW has \in SUBSET Views,
               NEW pins \in SUBSET Pairs, Lists(has, pins), ViewsEdited(q, d, has, pins)
        PROVE  TimesTell'
    <2>1. CASE d.updatedAt = Time(q)
      BY <1>5, <2>1, TimesTellFresh DEF ViewsEdited, Edits
    <2>2. ASSUME NEW k \in Gone, pins = doc[q].views.pins \ (Views \X {k}),
                 d.updatedAt = doc[q].updatedAt, d.font = doc[q].font,
                 has = doc[q].views.has
          PROVE  TimesTell'
      <3>1. doc[q].views \in ViewState /\ Time(q) \in Nat
        BY <1>0, TimeType DEF Document
      <3>2. d.views.has = has /\ d.views.pins = pins
        <4>1. PICK t \in Nat : t = Time(q)
          BY <3>1
        <4>2. PICK old \in ViewState : old = doc[q].views
          BY <3>1
        <4>3. d.views = Edited(old, has, pins, t)
          BY <1>5, <4>1, <4>2 DEF ViewsEdited
        <4>4. Edited(old, has, pins, t).has = has /\ Edited(old, has, pins, t).pins = pins
          BY EditedSignature
        <4> QED BY <4>3, <4>4
      <3>3. Lasting(d) = Lasting(doc[q])
        <4>1. pins \subseteq Views \X Keys /\ doc[q].views.pins \subseteq Views \X Keys
          BY <3>1 DEF Pairs, ViewState
        <4> QED BY <2>2, <3>2, <4>1 DEF Lasting
      <3>4. Same(d, doc[q])
        BY <2>2, <3>2, <3>3 DEF Same
      <3> QED BY <1>0, <1>5, <2>2, <3>4, TimesTellAlike DEF ViewsEdited, Edits
    <2> QED BY <1>5, <2>1, <2>2 DEF ViewsEdited
  <1> QED BY <1>1, <1>2, <1>3, <1>4, <1>5, StepKinds

\* Servers of the same settings_updated_at do not talk to each other
\* (_sync_settings_with_remotes passes over the pair), so they had better not
\* differ.  They do not: whatever was edited, pruned, pulled and pushed before,
\* by servers whose clocks agree, they have the same views, pins and font.  It
\* rests on the bump of apply_synced_settings, which gives a merge that is not
\* the peer's document a time of its own.
THEOREM SameTimeAgrees ==
  ASSUME SameClocks
  PROVE  Spec => []SameTimeSameSettings
  <1>1. Init => TypeOK /\ TimesTell
    BY TypeInit, TimesTellInit
  <1>2. TypeOK /\ TimesTell /\ [Next]_vars => TypeOK' /\ TimesTell'
    BY SameClocks, TypeNext, TimesTellNext
  <1>3. TypeOK /\ TimesTell => SameTimeSameSettings
    BY HeldThings DEF TimesTell, SameTimeSameSettings, Same, Agree
  <1> QED BY <1>1, <1>2, <1>3, PTL DEF Spec

-----------------------------------------------------------------------------
(* OwnEditsStand *)

\* The stamps a merge leaves: the later of the two, unless it is dropped.
LEMMA MergedStamps ==
  ASSUME NEW a \in ViewState, NEW b \in ViewState, NEW t \in Nat
  PROVE  LET m == Merged(a, b, t)
         IN  /\ \A v \in Views : m.at[v] \in {None, Later(a.at[v], b.at[v])}
             /\ \A v \in m.has : m.at[v] = Later(a.at[v], b.at[v])
             /\ \A e \in Pairs : m.memberAt[e] \in {None, Later(a.memberAt[e], b.memberAt[e])}
             /\ \A e \in Pairs :
                  LET s == Later(a.memberAt[e], b.memberAt[e])
                  IN  e[1] \in m.has /\ (s # None => t <= s + TTL) => m.memberAt[e] = s
  <1> DEFINE m == Merged(a, b, t)
             j == Joined(a, b)
  <1>1. j \in ViewState /\ m = Collected(j, t)
    BY JoinedType, MergedIsJoined
  <1>2. m.has = j.has /\ m.pins = j.pins
    BY <1>1, CollectedSignature
  <1>3. /\ \A v \in Views : j.at[v] = IF v \in a.has \cup b.has
                                         THEN Later(a.at[v], b.at[v]) ELSE None
        /\ \A e \in Pairs : j.memberAt[e] = IF e[1] \in j.has
                                         THEN Later(a.memberAt[e], b.memberAt[e]) ELSE None
    BY DEF Joined
  <1>4. m.has \subseteq a.has \cup b.has /\ m.has \subseteq Views
    BY MergedSignature DEF MergedHas, ViewState
  <1> HIDE DEF j, m
  <1>5. /\ \A v \in Views : m.at[v] = IF v \in j.has \/ t <= j.at[v] + TTL THEN j.at[v] ELSE None
        /\ \A e \in Pairs : m.memberAt[e] =
             IF e[1] \in j.has /\ (e \in j.pins \/ t <= j.memberAt[e] + TTL)
               THEN j.memberAt[e] ELSE None
    BY <1>1, CollectedStamps
  <1>6. \A v \in Views : m.at[v] \in {None, Later(a.at[v], b.at[v])}
    BY <1>3, <1>5
  <1>7. \A v \in m.has : m.at[v] = Later(a.at[v], b.at[v])
    BY <1>2, <1>3, <1>4, <1>5
  <1>8. \A e \in Pairs : m.memberAt[e] \in {None, Later(a.memberAt[e], b.memberAt[e])}
    BY <1>3, <1>5
  <1>9. ASSUME NEW e \in Pairs, e[1] \in m.has,
               Later(a.memberAt[e], b.memberAt[e]) # None
                 => t <= Later(a.memberAt[e], b.memberAt[e]) + TTL
        PROVE  m.memberAt[e] = Later(a.memberAt[e], b.memberAt[e])
    BY <1>2, <1>3, <1>5, <1>9
  <1> QED BY <1>6, <1>7, <1>8, <1>9 DEF m

\* The views in play are view states, those of every server among them.
LEMMA HeldViewsType ==
  ASSUME TypeOK
  PROVE  /\ HeldViews \subseteq ViewState
         /\ \A p \in Peers : doc[p].views \in HeldViews
  BY HeldType, HeldThings DEF HeldViews, Document

\* A clock of today is past every stamp, and no tombstone is old until TTL.
LEMMA StampsLive ==
  ASSUME SameClocks, TypeOK, NEW q \in Peers, NEW w \in ViewState, Stamped(w)
  PROVE  /\ \A v \in Views : w.at[v] < Time(q)
         /\ \A e \in Pairs : w.memberAt[e] < Time(q)
         /\ now <= TTL => \A e \in Pairs : w.memberAt[e] # None => Time(q) <= w.memberAt[e] + TTL
  <1>1. now \in Nat /\ TTL \in Nat /\ Skew[q] \in Nat
    BY PeersAssumption, CountsAssumption DEF TypeOK
  <1>2. /\ \A v \in Views : w.at[v] \in Nat /\ w.at[v] <= now + Skew[q]
        /\ \A e \in Pairs : /\ w.memberAt[e] \in Nat /\ w.memberAt[e] <= now + Skew[q]
                            /\ w.memberAt[e] # None => w.memberAt[e] > Skew[q]
    BY DEF Stamped, ViewState
  <1> QED BY <1>1, <1>2 DEF Time

\* Time passes.
LEMMA StampedStays ==
  ASSUME TypeOK, NEW w \in ViewState, Stamped(w), now' \in Nat, now' >= now
  PROVE  Stamped(w)'
  <1>1. \A p \in Peers : Skew[p] \in Nat
    BY PeersAssumption
  <1> QED BY <1>1 DEF Stamped, TypeOK, ViewState

\* The stamps of a merge are stamps.
LEMMA StampedMerge ==
  ASSUME TypeOK, NEW a \in ViewState, NEW b \in ViewState, NEW t \in Nat,
         Stamped(a), Stamped(b)
  PROVE  Stamped(Merged(a, b, t))
  <1> DEFINE m == Merged(a, b, t)
  <1> SUFFICES ASSUME NEW p \in Peers
               PROVE  /\ \A v \in Views : m.at[v] <= now + Skew[p]
                      /\ \A e \in Pairs : /\ m.memberAt[e] <= now + Skew[p]
                                          /\ m.memberAt[e] # None => m.memberAt[e] > Skew[p]
    BY DEF Stamped
  <1>1. now \in Nat /\ Skew[p] \in Nat
    BY PeersAssumption DEF TypeOK
  <1>2. ASSUME NEW v \in Views
        PROVE  m.at[v] \in {None, a.at[v], b.at[v]}
    BY MergedStamps DEF Later
  <1>3. ASSUME NEW e \in Pairs
        PROVE  m.memberAt[e] \in {None, a.memberAt[e], b.memberAt[e]}
    BY MergedStamps DEF Later
  <1> HIDE DEF m
  <1> QED BY <1>1, <1>2, <1>3 DEF Stamped, None

\* So are those of an edit, a moment later.
LEMMA StampedEdit ==
  ASSUME SameClocks, TypeOK, NEW q \in Peers, NEW d \in ViewState, Stamped(d),
         NEW has \in SUBSET Views, NEW pins \in SUBSET Pairs, now' = now + 1,
         NEW new, new = Edited(d, has, pins, Time(q))
  PROVE  Stamped(new)'
  <1>0. now \in Nat /\ Time(q) \in Nat
    BY TimeType DEF TypeOK
  <1>1. PICK t \in Nat : t = Time(q)
    BY <1>0
  <1>2. ASSUME NEW v \in Views
        PROVE  new.at[v] \in {None, t, d.at[v]}
    <2>1. Edited(d, has, pins, t).at[v] \in {None, AtOf(d, has, t, v)}
      BY EditedAt
    <2> QED BY <1>1, <2>1 DEF AtOf
  <1>3. ASSUME NEW e \in Pairs
        PROVE  new.memberAt[e] \in {None, t, d.memberAt[e]}
    <2>1. Edited(d, has, pins, t).memberAt[e] \in {None, MemberOf(d, pins, t, e)}
      BY EditedMember
    <2> QED BY <1>1, <2>1 DEF MemberOf
  <1>4. ASSUME NEW p \in Peers
        PROVE  /\ \A v \in Views : new.at[v] <= now + 1 + Skew[p]
               /\ \A e \in Pairs : /\ new.memberAt[e] <= now + 1 + Skew[p]
                                   /\ new.memberAt[e] # None => new.memberAt[e] > Skew[p]
    <2>1. Time(q) = now + 1 + Skew[p] /\ Skew[p] \in Nat
      BY PeersAssumption DEF SameClocks, Time
    <2>2. /\ \A v \in Views : d.at[v] \in Nat /\ d.at[v] <= now + Skew[p]
          /\ \A e \in Pairs : /\ d.memberAt[e] \in Nat /\ d.memberAt[e] <= now + Skew[p]
                              /\ d.memberAt[e] # None => d.memberAt[e] > Skew[p]
      BY DEF Stamped, ViewState
    <2>3. ASSUME NEW v \in Views
          PROVE  new.at[v] <= now + 1 + Skew[p]
      BY <1>0, <1>1, <1>2, <2>1, <2>2 DEF None
    <2>4. ASSUME NEW e \in Pairs
          PROVE  /\ new.memberAt[e] <= now + 1 + Skew[p]
                 /\ new.memberAt[e] # None => new.memberAt[e] > Skew[p]
      BY <1>0, <1>1, <1>3, <2>1, <2>2 DEF None
    <2> QED BY <2>3, <2>4
  <1> QED BY <1>4 DEF Stamped

\* A view both sides have is in the merge, and its pins are as the later says.
LEMMA MergedPair ==
  ASSUME NEW a \in ViewState, NEW b \in ViewState, NEW t \in Nat, NEW e \in Pairs,
         e[1] \in a.has, e[1] \in b.has,
         a.memberAt[e] # None => t <= a.memberAt[e] + TTL,
         b.memberAt[e] # None => t <= b.memberAt[e] + TTL
  PROVE  LET m == Merged(a, b, t)
         IN  /\ e[1] \in m.has
             /\ m.memberAt[e] = Later(a.memberAt[e], b.memberAt[e])
             /\ e \in m.pins <=> Survives(e \in a.pins, a.memberAt[e],
                                          e \in b.pins, b.memberAt[e])
  <1> DEFINE m == Merged(a, b, t)
  <1>1. m.has = MergedHas(a, b) /\ m.pins = MergedPins(a, b)
    BY MergedSignature
  <1>2. e[1] \in MergedHas(a, b)
    BY DEF MergedHas, Survives
  <1>3. e \in MergedPins(a, b) <=> Survives(e \in a.pins, a.memberAt[e],
                                            e \in b.pins, b.memberAt[e])
    BY <1>2 DEF MergedPins
  <1>4. Later(a.memberAt[e], b.memberAt[e]) # None
          => t <= Later(a.memberAt[e], b.memberAt[e]) + TTL
    BY DEF Later
  <1>5. e[1] \in m.has
    BY <1>1, <1>2
  <1>6. m.memberAt[e] = Later(a.memberAt[e], b.memberAt[e])
    BY <1>4, <1>5, MergedStamps
  <1> HIDE DEF m
  <1> QED BY <1>1, <1>3, <1>5, <1>6 DEF m

\* What neither side knows a later change of, or another outcome, the merge
\* does not either.
LEMMA MergedPairStands ==
  ASSUME NEW a \in ViewState, NEW b \in ViewState, NEW t \in Nat, NEW e \in Pairs,
         e[1] \in a.has, e[1] \in b.has,
         a.memberAt[e] # None => t <= a.memberAt[e] + TTL,
         b.memberAt[e] # None => t <= b.memberAt[e] + TTL,
         NEW s \in Nat, NEW there \in BOOLEAN,
         a.memberAt[e] <= s, a.memberAt[e] = s => (e \in a.pins <=> there),
         b.memberAt[e] <= s, b.memberAt[e] = s => (e \in b.pins <=> there),
         NEW m, m = Merged(a, b, t)
  PROVE  /\ m.memberAt[e] <= s
         /\ m.memberAt[e] = s => (e \in m.pins <=> there)
         /\ a.memberAt[e] = s => m.memberAt[e] = s
  <1>1. /\ m.memberAt[e] = Later(a.memberAt[e], b.memberAt[e])
        /\ e \in m.pins <=> Survives(e \in a.pins, a.memberAt[e],
                                     e \in b.pins, b.memberAt[e])
    BY MergedPair
  <1>2. a.memberAt[e] \in Nat /\ b.memberAt[e] \in Nat
    BY DEF ViewState
  <1> QED BY <1>1, <1>2 DEF Later, Survives

\* A merge keeps a view both sides have, and one whose later stamp says so.
LEMMA MergedView ==
  ASSUME NEW a \in ViewState, NEW b \in ViewState, NEW t \in Nat, NEW v \in Views,
         NEW m, m = Merged(a, b, t)
  PROVE  /\ v \in a.has /\ v \in b.has => v \in m.has
         /\ v \in a.has /\ b.at[v] <= a.at[v] => v \in m.has /\ m.at[v] = a.at[v]
         /\ \A s \in Nat : a.at[v] <= s /\ b.at[v] <= s => m.at[v] <= s
  <1>1. m.has = MergedHas(a, b)
    BY MergedSignature
  <1>2. a.at[v] \in Nat /\ b.at[v] \in Nat
    BY DEF ViewState
  <1>3. v \in a.has /\ v \in b.has => v \in m.has
    BY <1>1 DEF MergedHas, Survives
  <1>4. v \in a.has /\ b.at[v] <= a.at[v] => v \in m.has
    BY <1>1, <1>2 DEF MergedHas, Survives
  <1>5. m.at[v] \in {None, Later(a.at[v], b.at[v])}
    BY MergedStamps
  <1>6. v \in m.has => m.at[v] = Later(a.at[v], b.at[v])
    BY MergedStamps
  <1>7. v \in a.has /\ b.at[v] <= a.at[v] => m.at[v] = a.at[v]
    BY <1>2, <1>4, <1>6 DEF Later
  <1>8. \A s \in Nat : a.at[v] <= s /\ b.at[v] <= s => m.at[v] <= s
    BY <1>2, <1>5 DEF Later, None
  <1> QED BY <1>3, <1>4, <1>7, <1>8

\* Who said it, and what.
LEMMA WishFields ==
  ASSUME TypeOK, NEW x \in Views \cup Pairs
  PROVE  /\ wish[x].said \in BOOLEAN
         /\ wish[x].said => wish[x].by \in Peers /\ wish[x].there \in BOOLEAN
  <1>1. wish[x] \in Wish
    BY DEF TypeOK
  <1>2. CASE wish[x] = NoWish
    <2>1. NoWish.said = FALSE
      BY DEF NoWish
    <2> QED BY <1>2, <2>1
  <1>3. CASE wish[x] # NoWish
    <2>1. wish[x] \in [said : {TRUE}, by : Peers, there : BOOLEAN]
      BY <1>1, <1>3 DEF Wish
    <2> QED BY <2>1
  <1> QED BY <1>2, <1>3

\* No document's views come into play, and time may pass.
LEMMA EditsHoldQuiet ==
  ASSUME TypeOK, EditsHold, HeldViews' \subseteq HeldViews,
         \A p \in Peers : doc'[p].views = doc[p].views, wish' = wish,
         now' \in Nat, now' >= now
  PROVE  EditsHold'
  <1>1. \A w \in HeldViews' : Stamped(w)'
    BY HeldViewsType, StampedStays DEF EditsHold
  <1>3. ASSUME NEW v \in Views
        PROVE  Untouched(v)' /\ ViewStands(v)'
    <2>1. wish[v].said => wish[v].by \in Peers
      BY WishFields
    <2> QED BY <2>1 DEF EditsHold, Untouched, ViewStands
  <1>4. ASSUME now' <= TTL, NEW e \in Pairs
        PROVE  PairStands(e)'
    <2>1. now <= TTL
      BY <1>4, CountsAssumption DEF TypeOK
    <2>2. wish[e].said => wish[e].by \in Peers
      BY WishFields
    <2>3. PairStands(e)
      BY <2>1 DEF EditsHold
    <2> QED BY <2>2, <2>3 DEF PairStands
  <1> QED BY <1>1, <1>3, <1>4 DEF EditsHold

\* Server q takes in the views b.
LEMMA EditsHoldMerge ==
  ASSUME SameClocks, TypeOK, EditsHold, NEW q \in Peers, NEW b \in HeldViews,
         NEW m, m = Merged(doc[q].views, b, Time(q)),
         HeldViews' \subseteq HeldViews \cup {m},
         doc'[q].views = m, \A p \in Peers \ {q} : doc'[p].views = doc[p].views,
         wish' = wish, now' \in Nat, now' >= now
  PROVE  EditsHold'
  <1>1. PICK a \in HeldViews : a = doc[q].views
    BY HeldViewsType
  <1>2. PICK t \in Nat : t = Time(q)
    BY TimeType DEF TypeOK
  <1>3. a \in ViewState /\ b \in ViewState /\ Stamped(a) /\ Stamped(b)
    BY HeldViewsType DEF EditsHold
  <1>4. m = Merged(a, b, t)
    BY <1>1, <1>2
  <1>5. m \in ViewState
    BY <1>3, <1>4, MergeIsWellFormed DEF WellFormed
  <1>6. \A w \in HeldViews' : Stamped(w)'
    <2>1. Stamped(m)
      BY <1>3, <1>4, StampedMerge
    <2> QED BY <1>5, <2>1, HeldViewsType, StampedStays DEF EditsHold
  <1>7. ASSUME NEW v \in Views
        PROVE  Untouched(v)'
    <2>1. v \in a.has /\ v \in b.has => v \in m.has
      BY <1>3, <1>4, MergedView
    <2> QED BY <1>1, <2>1 DEF EditsHold, Untouched
  <1>8. ASSUME NEW v \in Views
        PROVE  ViewStands(v)'
    <2> SUFFICES ASSUME wish[v].said, wish[v].there
                 PROVE  /\ v \in doc'[wish[v].by].views.has
                        /\ \A w \in HeldViews' : w.at[v] <= doc'[wish[v].by].views.at[v]
      BY DEF ViewStands
    <2>1. PICK p \in Peers : p = wish[v].by
      BY WishFields
    <2>2. PICK own \in HeldViews : own = doc[p].views
      BY HeldViewsType
    <2>3. v \in own.has /\ \A w \in HeldViews : w.at[v] <= own.at[v]
      BY <2>1, <2>2 DEF EditsHold, ViewStands
    <2>4. own.at[v] \in Nat
      BY HeldViewsType DEF ViewState
    <2>5. m.at[v] <= own.at[v]
      <3>1. a.at[v] <= own.at[v] /\ b.at[v] <= own.at[v]
        BY <2>3
      <3> QED BY <1>3, <1>4, <2>4, <3>1, MergedView
    <2>6. CASE p = q
      <3>1. own = a
        BY <1>1, <2>2, <2>6
      <3>2. v \in m.has /\ m.at[v] = a.at[v]
        BY <1>3, <1>4, <2>3, <3>1, MergedView
      <3> QED BY <2>1, <2>3, <2>4, <2>6, <3>1, <3>2
    <2>7. CASE p # q
      <3>1. doc'[p].views = own
        BY <2>2, <2>7
      <3> QED BY <2>1, <2>3, <2>5, <3>1
    <2> QED BY <2>6, <2>7
  <1>9. ASSUME now' <= TTL, NEW e \in Pairs
        PROVE  PairStands(e)'
    <2>1. now <= TTL /\ PairStands(e)
      BY <1>9, CountsAssumption DEF TypeOK, EditsHold
    <2>2. e[1] \in Views /\ e \in Views \cup Pairs
      BY PairView
    <2>3. /\ a.memberAt[e] # None => t <= a.memberAt[e] + TTL
          /\ b.memberAt[e] # None => t <= b.memberAt[e] + TTL
      BY <1>2, <1>3, <2>1, StampsLive
    <2> SUFFICES ASSUME ~wish[e[1]].said
                 PROVE  IF wish[e].said
                          THEN \A w \in HeldViews' :
                                 LET s == doc'[wish[e].by].views.memberAt[e]
                                 IN  /\ w.memberAt[e] <= s
                                     /\ w.memberAt[e] = s => (e \in w.pins <=> wish[e].there)
                          ELSE \A w \in HeldViews' : e \in w.pins
      BY DEF PairStands
    <2>4. e[1] \in a.has /\ e[1] \in b.has
      BY <2>2 DEF EditsHold, Untouched
    <2>5. CASE wish[e].said
      <3>1. PICK p \in Peers : p = wish[e].by
        BY <2>2, <2>5, WishFields
      <3>2. PICK there \in BOOLEAN : there = wish[e].there
        BY <2>2, <2>5, WishFields
      <3>3. PICK own \in HeldViews : own = doc[p].views
        BY HeldViewsType
      <3>4. PICK s \in Nat : s = own.memberAt[e]
        BY HeldViewsType DEF ViewState
      <3>5. \A w \in HeldViews : /\ w.memberAt[e] <= s
                                 /\ w.memberAt[e] = s => (e \in w.pins <=> there)
        BY <2>1, <2>5, <3>1, <3>2, <3>3, <3>4 DEF PairStands
      <3>6. /\ m.memberAt[e] <= s
            /\ m.memberAt[e] = s => (e \in m.pins <=> there)
            /\ a.memberAt[e] = s => m.memberAt[e] = s
        <4>1. /\ a.memberAt[e] <= s /\ (a.memberAt[e] = s => (e \in a.pins <=> there))
              /\ b.memberAt[e] <= s /\ (b.memberAt[e] = s => (e \in b.pins <=> there))
          BY <3>5
        <4> QED BY <1>3, <1>4, <2>3, <2>4, <4>1, MergedPairStands
      <3>7. doc'[p].views.memberAt[e] = s
        <4>1. CASE p = q
          BY <1>1, <3>3, <3>4, <3>6, <4>1
        <4>2. CASE p # q
          BY <3>3, <3>4, <4>2
        <4> QED BY <4>1, <4>2
      <3>8. \A w \in HeldViews' : /\ w.memberAt[e] <= s
                                  /\ w.memberAt[e] = s => (e \in w.pins <=> there)
        BY <3>5, <3>6
      <3> QED BY <2>5, <3>1, <3>2, <3>7, <3>8
    <2>6. CASE ~wish[e].said
      <3>1. e \in a.pins /\ e \in b.pins
        BY <2>1, <2>6 DEF PairStands
      <3>2. e \in m.pins
        BY <1>3, <1>4, <2>3, <2>4, <3>1, MergedPair DEF Survives
      <3> QED BY <2>1, <2>6, <3>2 DEF PairStands
    <2> QED BY <2>5, <2>6
  <1> QED BY <1>6, <1>7, <1>8, <1>9 DEF EditsHold

\* What an edit makes of what was said of a view,
LEMMA WishOfView ==
  ASSUME TypeOK, NEW q \in Peers, NEW has \in SUBSET Views, NEW pins \in SUBSET Pairs,
         NEW v \in Views, NEW after, after = WishAfter(q, has, pins)
  PROVE  /\ (v \in doc[q].views.has <=> v \in has) => after[v] = wish[v]
         /\ ~(v \in doc[q].views.has <=> v \in has) =>
               after[v].said /\ after[v].by = q /\ (after[v].there <=> v \in has)
  <1> DEFINE is(x) == x \in has \cup pins
             was(x) == x \in doc[q].views.has \cup doc[q].views.pins
  <1>1. doc[q].views \in ViewState
    BY DEF TypeOK, Document
  <1>2. v \notin Pairs
    BY PeersAssumption
  <1>3. (was(v) <=> v \in doc[q].views.has) /\ (is(v) <=> v \in has)
    BY <1>1, <1>2 DEF ViewState
  <1>4. after[v] = IF was(v) # is(v) THEN [said |-> TRUE, by |-> q, there |-> is(v)]
                   ELSE wish[v]
    BY <1>2 DEF WishAfter
  <1> HIDE DEF is, was
  <1>5. CASE v \in doc[q].views.has <=> v \in has
    <2>1. was(v) = is(v)
      BY <1>3, <1>5 DEF is, was
    <2> QED BY <1>4, <1>5, <2>1
  <1>6. CASE ~(v \in doc[q].views.has <=> v \in has)
    <2>1. was(v) # is(v)
      BY <1>3, <1>6
    <2>2. after[v] = [said |-> TRUE, by |-> q, there |-> is(v)]
      BY <1>4, <2>1
    <2>3. after[v].said /\ after[v].by = q /\ after[v].there = is(v)
      BY <2>2
    <2> QED BY <1>3, <1>6, <2>3
  <1> QED BY <1>5, <1>6

\* and of a pin of a view that stays.
LEMMA WishOfPair ==
  ASSUME TypeOK, NEW q \in Peers, NEW has \in SUBSET Views, NEW pins \in SUBSET Pairs,
         NEW e \in Pairs, e[1] \in doc[q].views.has, e[1] \in has,
         NEW after, after = WishAfter(q, has, pins)
  PROVE  /\ (e \in doc[q].views.pins <=> e \in pins) => after[e] = wish[e]
         /\ ~(e \in doc[q].views.pins <=> e \in pins) =>
               after[e].said /\ after[e].by = q /\ (after[e].there <=> e \in pins)
  <1> DEFINE is(x) == x \in has \cup pins
             was(x) == x \in doc[q].views.has \cup doc[q].views.pins
  <1>1. doc[q].views \in ViewState
    BY DEF TypeOK, Document
  <1>2. e \notin Views
    BY PeersAssumption
  <1>3. (was(e) <=> e \in doc[q].views.pins) /\ (is(e) <=> e \in pins)
    BY <1>1, <1>2 DEF ViewState
  <1>4. after[e] = IF was(e) # is(e) THEN [said |-> TRUE, by |-> q, there |-> is(e)]
                   ELSE wish[e]
    BY <1>2 DEF WishAfter
  <1> HIDE DEF is, was
  <1>5. CASE e \in doc[q].views.pins <=> e \in pins
    <2>1. was(e) = is(e)
      BY <1>3, <1>5 DEF is, was
    <2> QED BY <1>4, <1>5, <2>1
  <1>6. CASE ~(e \in doc[q].views.pins <=> e \in pins)
    <2>1. was(e) # is(e)
      BY <1>3, <1>6
    <2>2. after[e] = [said |-> TRUE, by |-> q, there |-> is(e)]
      BY <1>4, <2>1
    <2>3. after[e].said /\ after[e].by = q /\ after[e].there = is(e)
      BY <2>2
    <2> QED BY <1>3, <1>6, <2>3
  <1> QED BY <1>5, <1>6

\* Server q makes the lists `has` and `pins` of its views.
LEMMA EditsHoldEdit ==
  ASSUME SameClocks, TypeOK, EditsHold, NEW q \in Peers,
         NEW has \in SUBSET Views, NEW pins \in SUBSET Pairs,
         NEW m, m = Edited(doc[q].views, has, pins, Time(q)),
         HeldViews' \subseteq HeldViews \cup {m},
         doc'[q].views = m, \A p \in Peers \ {q} : doc'[p].views = doc[p].views,
         wish' = WishAfter(q, has, pins), now' = now + 1
  PROVE  EditsHold'
  <1>0. now \in Nat /\ now' \in Nat /\ now' >= now
    BY DEF TypeOK
  <1>1. PICK a \in HeldViews : a = doc[q].views
    BY HeldViewsType
  <1>2. PICK t \in Nat : t = Time(q)
    BY TimeType DEF TypeOK
  <1>3. a \in ViewState /\ Stamped(a)
    BY HeldViewsType DEF EditsHold
  <1>4. m = Edited(a, has, pins, t) /\ m.has = has /\ m.pins = pins
    BY <1>1, <1>2, <1>3, EditedSignature
  <1>5. \A w \in HeldViews : /\ \A v \in Views : w.at[v] \in Nat /\ w.at[v] < t
                             /\ \A e \in Pairs : w.memberAt[e] \in Nat /\ w.memberAt[e] < t
    BY <1>2, HeldViewsType, StampsLive DEF EditsHold, ViewState
  <1>6. \A w \in HeldViews' : Stamped(w)'
    <2>1. Stamped(m)'
      BY <1>1, <1>3, StampedEdit
    <2> QED BY <1>0, <2>1, HeldViewsType, StampedStays DEF EditsHold
  <1>7. ASSUME NEW v \in Views
        PROVE  Untouched(v)'
    <2>1. /\ (v \in a.has <=> v \in has) => wish'[v] = wish[v]
          /\ ~(v \in a.has <=> v \in has) => wish'[v].said
      BY <1>1, WishOfView
    <2> QED BY <1>4, <2>1 DEF EditsHold, Untouched
  <1>8. ASSUME NEW v \in Views
        PROVE  ViewStands(v)'
    <2> SUFFICES ASSUME wish'[v].said, wish'[v].there
                 PROVE  /\ v \in doc'[wish'[v].by].views.has
                        /\ \A w \in HeldViews' : w.at[v] <= doc'[wish'[v].by].views.at[v]
      BY DEF ViewStands
    <2>1. /\ (v \in a.has <=> v \in has) => wish'[v] = wish[v]
          /\ ~(v \in a.has <=> v \in has) =>
                wish'[v].said /\ wish'[v].by = q /\ (wish'[v].there <=> v \in has)
      BY <1>1, WishOfView
    <2>2. /\ m.at[v] \in {None, AtOf(a, has, t, v)}
          /\ v \in has => m.at[v] = AtOf(a, has, t, v)
      BY <1>3, <1>4, EditedAt
    <2>3. CASE ~(v \in a.has <=> v \in has)
      <3>1. v \in has /\ m.at[v] = t
        BY <2>1, <2>2, <2>3 DEF AtOf
      <3> QED BY <1>4, <1>5, <2>1, <2>3, <3>1
    <2>4. CASE v \in a.has <=> v \in has
      <3>1. wish'[v] = wish[v]
        BY <2>1, <2>4
      <3>2. PICK p \in Peers : p = wish[v].by
        BY <3>1, WishFields
      <3>3. PICK own \in HeldViews : own = doc[p].views
        BY HeldViewsType
      <3>4. v \in own.has /\ \A w \in HeldViews : w.at[v] <= own.at[v]
        BY <3>1, <3>2, <3>3 DEF EditsHold, ViewStands
      <3>5. AtOf(a, has, t, v) = a.at[v]
        BY <2>4 DEF AtOf
      <3>6. own.at[v] \in Nat /\ a.at[v] <= own.at[v]
        BY <1>5, <3>4
      <3>7. m.at[v] <= own.at[v]
        BY <2>2, <3>5, <3>6 DEF None
      <3>8. CASE p = q
        <4>1. own = a
          BY <1>1, <3>3, <3>8
        <4>2. v \in has /\ m.at[v] = own.at[v]
          BY <2>2, <2>4, <3>4, <3>5, <4>1
        <4> QED BY <1>4, <3>1, <3>2, <3>4, <3>6, <3>8, <4>2
      <3>9. CASE p # q
        <4>1. doc'[p].views = own
          BY <3>3, <3>9
        <4> QED BY <3>1, <3>2, <3>4, <3>7, <4>1
      <3> QED BY <3>8, <3>9
    <2> QED BY <2>3, <2>4
  <1>9. ASSUME now' <= TTL, NEW e \in Pairs
        PROVE  PairStands(e)'
    <2>1. now <= TTL /\ PairStands(e)
      BY <1>0, <1>9, CountsAssumption DEF EditsHold
    <2>2. e[1] \in Views /\ e \in Views \cup Pairs
      BY PairView
    <2> SUFFICES ASSUME ~wish'[e[1]].said
                 PROVE  IF wish'[e].said
                          THEN \A w \in HeldViews' :
                                 LET s == doc'[wish'[e].by].views.memberAt[e]
                                 IN  /\ w.memberAt[e] <= s
                                     /\ w.memberAt[e] = s => (e \in w.pins <=> wish'[e].there)
                          ELSE \A w \in HeldViews' : e \in w.pins
      BY DEF PairStands
    <2>3. ~wish[e[1]].said /\ e[1] \in a.has /\ e[1] \in has
      <3>1. /\ (e[1] \in a.has <=> e[1] \in has) => wish'[e[1]] = wish[e[1]]
            /\ ~(e[1] \in a.has <=> e[1] \in has) => wish'[e[1]].said
        BY <1>1, <2>2, WishOfView
      <3>2. ~wish[e[1]].said
        BY <3>1
      <3> QED BY <2>2, <3>1, <3>2 DEF EditsHold, Untouched
    <2>4. /\ (e \in a.pins <=> e \in pins) => wish'[e] = wish[e]
          /\ ~(e \in a.pins <=> e \in pins) =>
                wish'[e].said /\ wish'[e].by = q /\ (wish'[e].there <=> e \in pins)
      BY <1>1, <2>3, WishOfPair
    <2>5. m.memberAt[e] = MemberOf(a, pins, t, e)
      <3>1. a.memberAt[e] # None => t <= a.memberAt[e] + TTL
        BY <1>2, <1>3, <2>1, StampsLive
      <3>2. /\ m.memberAt[e] \in {None, MemberOf(a, pins, t, e)}
            /\ e[1] \in has /\ (e \in pins \/ t <= MemberOf(a, pins, t, e) + TTL)
                 => m.memberAt[e] = MemberOf(a, pins, t, e)
        BY <1>3, <1>4, EditedMember
      <3>3. MemberOf(a, pins, t, e) # None => t <= MemberOf(a, pins, t, e) + TTL
        BY <3>1, CountsAssumption DEF MemberOf
      <3> QED BY <2>3, <3>2, <3>3
    <2>6. CASE ~(e \in a.pins <=> e \in pins)
      <3>1. m.memberAt[e] = t
        BY <2>5, <2>6 DEF MemberOf
      <3>2. \A w \in HeldViews' : w.memberAt[e] <= t /\ (w.memberAt[e] = t => w = m)
        BY <1>5, <3>1
      <3>3. e \in m.pins <=> wish'[e].there
        BY <1>4, <2>4, <2>6
      <3> QED BY <2>4, <2>6, <3>1, <3>2, <3>3
    <2>7. CASE e \in a.pins <=> e \in pins
      <3>1. wish'[e] = wish[e] /\ m.memberAt[e] = a.memberAt[e]
        BY <2>4, <2>5, <2>7 DEF MemberOf
      <3>2. e \in m.pins <=> e \in a.pins
        BY <1>4, <2>7
      <3>3. CASE wish[e].said
        <4>1. PICK p \in Peers : p = wish[e].by
          BY <2>2, <3>3, WishFields
        <4>2. PICK there \in BOOLEAN : there = wish[e].there
          BY <2>2, <3>3, WishFields
        <4>3. PICK own \in HeldViews : own = doc[p].views
          BY HeldViewsType
        <4>4. PICK s \in Nat : s = own.memberAt[e]
          BY HeldViewsType DEF ViewState
        <4>5. \A w \in HeldViews : /\ w.memberAt[e] <= s
                                   /\ w.memberAt[e] = s => (e \in w.pins <=> there)
          BY <2>1, <2>3, <3>3, <4>1, <4>2, <4>3, <4>4 DEF PairStands
        <4>6. \A w \in HeldViews' : /\ w.memberAt[e] <= s
                                    /\ w.memberAt[e] = s => (e \in w.pins <=> there)
          BY <3>1, <3>2, <4>5
        <4>7. doc'[p].views.memberAt[e] = s
          <5>1. CASE p = q
            BY <1>1, <3>1, <4>3, <4>4, <5>1
          <5>2. CASE p # q
            BY <4>3, <4>4, <5>2
          <5> QED BY <5>1, <5>2
        <4> QED BY <3>1, <3>3, <4>1, <4>2, <4>6, <4>7
      <3>4. CASE ~wish[e].said
        <4>1. \A w \in HeldViews : e \in w.pins
          BY <2>1, <2>3, <3>4 DEF PairStands
        <4> QED BY <3>1, <3>2, <3>4, <4>1
      <3> QED BY <3>3, <3>4
    <2> QED BY <2>6, <2>7
  <1> QED BY <1>6, <1>7, <1>8, <1>9 DEF EditsHold

LEMMA EditsHoldInit == Init => EditsHold
  <1> SUFFICES ASSUME Init PROVE EditsHold
    OBVIOUS
  <1> DEFINE views == [has |-> Views, pins |-> Pairs, at |-> [v \in Views |-> None],
                       memberAt |-> [e \in Pairs |-> None]]
  <1>1. /\ views.has = Views /\ views.pins = Pairs
        /\ \A v \in Views : views.at[v] = None
        /\ \A e \in Pairs : views.memberAt[e] = None
    OBVIOUS
  <1>2. \A p \in Peers : Carried(sync[p]) = {}
    BY DEF Init, Idle, Carried
  <1>3. \A d \in Held : \E p \in Peers : d = doc[p]
    BY <1>2 DEF Held
  <1>4. \A p \in Peers : doc[p].views = views
    BY DEF Init
  <1>5. \A w \in HeldViews : w = views
    BY <1>3, <1>4 DEF HeldViews
  <1>6. now = 0 /\ \A p \in Peers : Skew[p] \in Nat
    BY PeersAssumption DEF Init
  <1>7. \A x \in Views \cup Pairs : wish[x].said = FALSE
    BY DEF Init, NoWish
  <1> HIDE DEF views
  <1>8. \A w \in HeldViews : Stamped(w)
    BY <1>1, <1>5, <1>6 DEF Stamped, None
  <1>9. \A v \in Views : Untouched(v) /\ ViewStands(v)
    BY <1>1, <1>5, <1>7 DEF Untouched, ViewStands
  <1>10. \A e \in Pairs : PairStands(e)
    BY <1>1, <1>5, <1>7 DEF PairStands
  <1> QED BY <1>8, <1>9, <1>10 DEF EditsHold

\* Only one server's document is another, and so are the views in play.
LEMMA HeldViewsAfter ==
  ASSUME TypeOK, NEW q \in Peers, NEW d,
         Held' \subseteq Held \cup {d}, doc' = [doc EXCEPT ![q] = d]
  PROVE  /\ HeldViews' \subseteq HeldViews \cup {d.views}
         /\ doc'[q].views = d.views
         /\ \A p \in Peers \ {q} : doc'[p].views = doc[p].views
  <1>1. HeldViews' = {e.views : e \in Held'}
    BY DEF HeldViews
  <1>2. HeldViews' \subseteq HeldViews \cup {d.views}
    BY <1>1 DEF HeldViews
  <1> QED BY <1>2 DEF TypeOK

\* A server's document keeps its views.
LEMMA EditsHoldLook ==
  ASSUME TypeOK, EditsHold, NEW q \in Peers, NEW d,
         Edits(q, d), d.views = doc[q].views, wish' = wish
  PROVE  EditsHold'
  <1>1. HeldViews' \subseteq HeldViews
    <2>1. HeldViews' \subseteq HeldViews \cup {d.views}
      BY HeldViewsAfter DEF Edits
    <2>2. d.views \in HeldViews
      BY HeldViewsType
    <2> QED BY <2>1, <2>2
  <1>2. \A p \in Peers : doc'[p].views = doc[p].views
    BY HeldViewsAfter DEF Edits
  <1>3. now' \in Nat /\ now' >= now
    BY DEF Edits, TypeOK
  <1> QED BY <1>1, <1>2, <1>3, EditsHoldQuiet

LEMMA EditsHoldNext ==
  ASSUME SameClocks, TypeOK, EditsHold, [Next]_vars
  PROVE  EditsHold'
  <1>0. now \in Nat
    BY DEF TypeOK
  <1>1. CASE Quiet
    <2>1. HeldViews' \subseteq HeldViews
      BY <1>1 DEF Quiet, HeldViews
    <2> QED BY <1>0, <1>1, <2>1, EditsHoldQuiet DEF Quiet
  <1>2. ASSUME NEW q \in Peers, NEW m \in Held, TakesIn(q, m)
        PROVE  EditsHold'
    <2> DEFINE d == Applied(doc[q], m, Time(q))
    <2>1. d.views = Merged(doc[q].views, m.views, Time(q))
      BY DEF Applied
    <2>2. /\ Held' \subseteq Held \cup {d} /\ doc' = [doc EXCEPT ![q] = d]
          /\ wish' = wish
          /\ now' = IF Bumped(doc[q], m, Time(q)) THEN now + 1 ELSE now
      BY <1>2 DEF TakesIn
    <2>3. now' \in Nat /\ now' >= now
      BY <1>0, <2>2
    <2> HIDE DEF d
    <2>4. /\ HeldViews' \subseteq HeldViews \cup {d.views}
          /\ doc'[q].views = d.views
          /\ \A p \in Peers \ {q} : doc'[p].views = doc[p].views
      BY <2>2, HeldViewsAfter
    <2>5. m.views \in HeldViews
      BY DEF HeldViews
    <2> QED BY <2>1, <2>2, <2>3, <2>4, <2>5, EditsHoldMerge
  <1>3. ASSUME NEW q \in Peers, NEW d \in Document, LookEdited(q, d)
        PROVE  EditsHold'
    BY <1>3, EditsHoldLook DEF LookEdited
  <1>4. ASSUME NEW q \in Peers, NEW d \in Document, HiddenPruned(q, d)
        PROVE  EditsHold'
    BY <1>4, EditsHoldLook DEF HiddenPruned
  <1>5. ASSUME NEW q \in Peers, NEW d \in Document, NEW has \in SUBSET Views,
               NEW pins \in SUBSET Pairs, Lists(has, pins), ViewsEdited(q, d, has, pins)
        PROVE  EditsHold'
    <2>1. /\ HeldViews' \subseteq HeldViews \cup {d.views}
          /\ doc'[q].views = d.views
          /\ \A p \in Peers \ {q} : doc'[p].views = doc[p].views
      BY <1>5, HeldViewsAfter DEF ViewsEdited, Edits
    <2>2. /\ d.views = Edited(doc[q].views, has, pins, Time(q))
          /\ wish' = WishAfter(q, has, pins) /\ now' = now + 1
      BY <1>5 DEF ViewsEdited, Edits
    <2> QED BY <2>1, <2>2, EditsHoldEdit
  <1> QED BY <1>1, <1>2, <1>3, <1>4, <1>5, StepKinds

\* What a user pinned, unpinned or made on a server is not undone there by any
\* merge with a peer that has not heard of it, whatever the peers edit, pull and
\* push meanwhile and however many they are.  The clocks agree, and the first
\* tombstones are not yet old enough for _gc_views_changed_at to drop them: once
\* they are, a peer that has slept may bring back what was taken away.
THEOREM OwnEditsAlwaysStand ==
  ASSUME SameClocks
  PROVE  Spec => [](now <= TTL => OwnEditsStand)
  <1>1. Init => TypeOK /\ EditsHold
    BY TypeInit, EditsHoldInit
  <1>2. TypeOK /\ EditsHold /\ [Next]_vars => TypeOK' /\ EditsHold'
    BY SameClocks, TypeNext, EditsHoldNext
  <1>3. ASSUME TypeOK, EditsHold, now <= TTL
        PROVE  OwnEditsStand
    <2>1. ASSUME NEW e \in Pairs, wish[e].said, ~wish[e[1]].said
          PROVE  There(wish[e].by, e) = wish[e].there
      <3>1. PICK p \in Peers : p = wish[e].by
        BY <1>3, <2>1, WishFields
      <3>2. doc[p].views \in HeldViews /\ doc[p].views \in ViewState
        BY <1>3, HeldViewsType
      <3>3. e \in doc[p].views.pins <=> wish[e].there
        BY <1>3, <2>1, <3>1, <3>2 DEF EditsHold, PairStands
      <3>4. There(p, e) <=> e \in doc[p].views.pins
        BY <3>2, PeersAssumption DEF There, ViewState
      <3>5. There(p, e) \in BOOLEAN /\ wish[e].there \in BOOLEAN
        BY <1>3, <2>1, WishFields DEF There
      <3> QED BY <3>1, <3>3, <3>4, <3>5
    <2>2. ASSUME NEW v \in Views, wish[v].said, wish[v].there
          PROVE  There(wish[v].by, v)
      BY <1>3, <2>2 DEF EditsHold, ViewStands, There
    <2> QED BY <2>1, <2>2 DEF OwnEditsStand
  <1> QED BY <1>1, <1>2, <1>3, PTL DEF Spec

-----------------------------------------------------------------------------
(* For any session names: the prune drops a pin only of a session that was
   missing for a whole grace period, and is gone. *)

Histories == [unheard : SUBSET Names, seen : SUBSET PinKeys, refused : SUBSET PinKeys, blind : BOOLEAN]
PruningTypes == PruningTypeOK /\ history \in Histories

\* What a poll saw while a clock runs, and did not save, is what was refused.
SeenWasRefused == history.seen \subseteq history.refused

\* A peer's session that is not in its cached list has started since.
ListedOrUnheard == entry.known => peer \ history.unheard \subseteq entry.list

PruningInv == PruningTypes /\ SeenWasRefused /\ ListedOrUnheard

LEMMA PruningInitInv == PruningInit => PruningInv
  BY DEF PruningInit, PruningInv, PruningTypes, PruningTypeOK, Histories, SeenWasRefused,
         ListedOrUnheard, PinKeys, Owners, NoEntry

LEMMA NormalizedIsKeys ==
  ASSUME PruningTypes
  PROVE  Normalized \subseteq PinKeys
  BY DEF PruningTypes, PruningTypeOK, Normalized, PinKeys, Owners

\* A poll that is saved stops the clocks of what it saw.
LEMMA SavedStops ==
  ASSUME NEW keys \in SUBSET PinKeys, NEW missing, NEW k \in PinKeys, k \notin missing
  PROVE  Clocks(keys, missing)[k] = "off"
  BY DEF Clocks

\* What a poll does to the pins, the clocks and the history.
LEMMA PollFacts ==
  ASSUME PruningTypes, NEW blind \in BOOLEAN, NEW refused \in BOOLEAN, Poll(blind, refused)
  PROVE  /\ pinned' = IF refused THEN Normalized ELSE Normalized \ Expired(Normalized, blind)
         /\ clock' \in [PinKeys -> {"off", "running", "over"}]
         /\ \E seen \in SUBSET PinKeys :
               /\ ~refused => \A k \in seen : clock'[k] = "off"
               /\ history' = [history EXCEPT
                    !.seen    = {k \in history.seen \cup seen : clock'[k] # "off"},
                    !.refused = {k \in (IF refused THEN history.refused \cup seen
                                                   ELSE history.refused) : clock'[k] # "off"},
                    !.blind   = blind]
         /\ history'.blind = blind
         /\ UNCHANGED <<peer, entry, local>>
<1> DEFINE expired == Expired(Normalized, blind)
           missing == Missing(Normalized, blind)
           seen == {k \in Normalized : k \notin missing}
           left == Normalized \ expired
<1>1. /\ pinned' = IF refused THEN Normalized ELSE left
      /\ clock' = IF refused THEN clock ELSE Clocks(left, missing)
      /\ UNCHANGED <<peer, entry, local>>
  BY DEF Poll
<1>2. history' = [history EXCEPT
           !.seen    = {k \in history.seen \cup seen : clock'[k] # "off"},
           !.refused = {k \in (IF refused THEN history.refused \cup seen
                                          ELSE history.refused) : clock'[k] # "off"},
           !.blind   = blind]
  BY DEF Poll
<1>3. left \in SUBSET PinKeys /\ seen \in SUBSET PinKeys
  BY NormalizedIsKeys
<1>4. clock \in [PinKeys -> {"off", "running", "over"}]
  BY DEF PruningTypes, PruningTypeOK
<1>5. clock' \in [PinKeys -> {"off", "running", "over"}]
  <2>1. Clocks(left, missing) \in [PinKeys -> {"off", "running", "over"}]
    <3> HIDE DEF left, missing
    <3> QED  BY <1>4 DEF Clocks
  <2> QED  BY <1>1, <1>4, <2>1
<1>6. ~refused => \A k \in seen : clock'[k] = "off"
  <2> SUFFICES ASSUME ~refused, NEW k \in seen PROVE clock'[k] = "off"
    OBVIOUS
  <2>1. k \in PinKeys /\ k \notin missing
    BY <1>3
  <2>2. Clocks(left, missing)[k] = "off"
    <3> HIDE DEF left, missing, seen
    <3> QED  BY <1>3, <2>1, SavedStops
  <2> QED  BY <1>1, <2>2
<1> HIDE DEF seen, missing, left, expired
<1> QED
  <2>1. pinned' = IF refused THEN Normalized ELSE Normalized \ Expired(Normalized, blind)
    BY <1>1 DEF left, expired
  <2>2. history'.blind = blind
    BY <1>2 DEF PruningTypes, Histories
  <2> QED
    BY <1>1, <1>2, <1>3, <1>5, <1>6, <2>1, <2>2

LEMMA PollKeepsInv ==
  ASSUME PruningInv, NEW blind \in BOOLEAN, NEW refused \in BOOLEAN, Poll(blind, refused)
  PROVE  PruningInv'
<1>1. PruningTypes /\ SeenWasRefused /\ ListedOrUnheard
  BY DEF PruningInv
<1>2. PICK seen \in SUBSET PinKeys :
        /\ ~refused => \A k \in seen : clock'[k] = "off"
        /\ history' = [history EXCEPT
             !.seen    = {k \in history.seen \cup seen : clock'[k] # "off"},
             !.refused = {k \in (IF refused THEN history.refused \cup seen
                                            ELSE history.refused) : clock'[k] # "off"},
             !.blind   = blind]
  BY <1>1, PollFacts
<1>3. history \in Histories
  BY <1>1 DEF PruningTypes
<1>4. /\ history'.seen = {k \in history.seen \cup seen : clock'[k] # "off"}
      /\ history'.refused = {k \in (IF refused THEN history.refused \cup seen
                                               ELSE history.refused) : clock'[k] # "off"}
      /\ history'.unheard = history.unheard
  BY <1>2, <1>3 DEF Histories
<1>5. history' \in Histories
  <2>1. {k \in history.seen \cup seen : clock'[k] # "off"} \in SUBSET PinKeys
    BY <1>3 DEF Histories
  <2>2. {k \in (IF refused THEN history.refused \cup seen ELSE history.refused) : clock'[k] # "off"}
           \in SUBSET PinKeys
    BY <1>3 DEF Histories
  <2> QED
    BY <1>2, <1>3, <2>1, <2>2 DEF Histories
<1>6. SeenWasRefused'
  BY <1>1, <1>2, <1>4 DEF SeenWasRefused
<1>7. ListedOrUnheard'
  BY <1>1, <1>4, PollFacts DEF ListedOrUnheard
<1>8. pinned' \subseteq PinKeys
  BY <1>1, PollFacts, NormalizedIsKeys
<1>9. PruningTypeOK'
  BY <1>1, <1>8, PollFacts DEF PruningTypes, PruningTypeOK
<1> QED
  BY <1>5, <1>6, <1>7, <1>9 DEF PruningInv, PruningTypes

\* The world's steps leave the pins there are, and what was seen and refused.
LEMMA WorldKeepsInv ==
  ASSUME PruningInv,
         \/ \E S \in SUBSET Names : PeerChanges(S) \/ LocalChanges(S)
         \/ ListIsCached \/ ListIsLost \/ LocalLost \/ Forgotten \/ GracePasses
         \/ \E n \in Names : Restored(n)
         \/ \E k \in PinKeys : Pin(k)
         \/ UNCHANGED pruningVars
  PROVE  PruningInv' /\ pinned \subseteq pinned'
<1>1. PruningTypes /\ SeenWasRefused /\ ListedOrUnheard /\ history \in Histories
  BY DEF PruningInv, PruningTypes
<1>2. ASSUME NEW S \in SUBSET Names, PeerChanges(S)
      PROVE  PruningInv' /\ pinned \subseteq pinned'
  <2>1. history' = [history EXCEPT !.unheard = S \ (peer \ history.unheard)]
    BY <1>2 DEF PeerChanges
  <2>2. /\ history' \in Histories
        /\ history'.unheard = S \ (peer \ history.unheard)
        /\ history'.seen = history.seen /\ history'.refused = history.refused
    BY <1>1, <2>1 DEF Histories
  <2> QED
    BY <1>1, <1>2, <2>2
    DEF PeerChanges, PruningInv, PruningTypes, PruningTypeOK, SeenWasRefused, ListedOrUnheard
<1>3. CASE ListIsCached
  <2>1. /\ history' \in Histories /\ history'.unheard = {}
        /\ history'.seen = history.seen /\ history'.refused = history.refused
    BY <1>1, <1>3 DEF ListIsCached, Histories
  <2> QED
    BY <1>1, <1>3, <2>1
    DEF ListIsCached, PruningInv, PruningTypes, PruningTypeOK, SeenWasRefused, ListedOrUnheard
<1>4. CASE ListIsLost
  BY <1>1, <1>4 DEF ListIsLost, NoEntry, PruningInv, PruningTypes, PruningTypeOK, SeenWasRefused,
                    ListedOrUnheard
<1>5. ASSUME NEW S \in SUBSET Names, LocalChanges(S)
      PROVE  PruningInv' /\ pinned \subseteq pinned'
  BY <1>1, <1>5 DEF LocalChanges, PruningInv, PruningTypes, PruningTypeOK, SeenWasRefused, ListedOrUnheard
<1>6. CASE LocalLost \/ Forgotten \/ \E n \in Names : Restored(n)
  <2>1. local' \in [live : SUBSET Names, pending : SUBSET Names]
    BY <1>1, <1>6 DEF LocalLost, Forgotten, Restored, PruningTypes, PruningTypeOK
  <2>2. UNCHANGED <<peer, entry, pinned, clock, history>>
    BY <1>6 DEF LocalLost, Forgotten, Restored
  <2> QED
    BY <1>1, <2>1, <2>2 DEF PruningInv, PruningTypes, PruningTypeOK, SeenWasRefused, ListedOrUnheard
<1>7. CASE GracePasses
  BY <1>1, <1>7 DEF GracePasses, PruningInv, PruningTypes, PruningTypeOK, SeenWasRefused, ListedOrUnheard
<1>8. ASSUME NEW k \in PinKeys, Pin(k)
      PROVE  PruningInv' /\ pinned \subseteq pinned'
  BY <1>1, <1>8 DEF Pin, PruningInv, PruningTypes, PruningTypeOK, SeenWasRefused, ListedOrUnheard
<1>9. CASE UNCHANGED pruningVars
  BY <1>1, <1>9 DEF pruningVars, PruningInv, PruningTypes, PruningTypeOK, SeenWasRefused, ListedOrUnheard
<1> QED
  BY <1>2, <1>3, <1>4, <1>5, <1>6, <1>7, <1>8, <1>9

LEMMA PruningStepInv == PruningInv /\ [PruningNext]_pruningVars => PruningInv'
  BY PollKeepsInv, WorldKeepsInv DEF PruningNext

THEOREM PruningInvariance == PruningSpec => []PruningInv
  BY PruningInitInv, PruningStepInv, PTL DEF PruningSpec

\* prune_stale_keys drops a key only after it was missing in every poll of a
\* whole grace period, but for polls whose prune was refused.
THEOREM DroppedWasMissing == PruningSpec => PrunedWasMissing
<1>1. PruningInv /\ [PruningNext]_pruningVars
        => [Dropped \cap history.seen \subseteq history.refused]_pruningVars
  BY DEF PruningInv, SeenWasRefused
<1> QED
  BY <1>1, PruningInvariance, PTL DEF PruningSpec, PrunedWasMissing

\* Why a poll drops a key: it is judged, and not live.
LEMMA PollDrops ==
  ASSUME PruningTypes, NEW blind \in BOOLEAN, NEW refused \in BOOLEAN, Poll(blind, refused),
         NEW k \in Dropped
  PROVE  k \in PinKeys /\ k \notin LiveKeys /\ Evaluable(k, blind) /\ history'.blind = blind
<1>1. k \in pinned /\ k \notin pinned' /\ ~(k[1] = "bare" /\ k[2] \in local.live)
  BY DEF Dropped
<1>2. k \in PinKeys
  BY <1>1 DEF PruningTypes, PruningTypeOK
<1>3. k \in Normalized
  BY <1>1, <1>2 DEF Normalized, PinKeys
<1>4. k \in Expired(Normalized, blind)
  BY <1>1, <1>3, PollFacts
<1>5. history'.blind = blind
  BY PollFacts
<1> QED
  BY <1>2, <1>4, <1>5 DEF Expired, Missing

\* No key of a session that lives or waits to be restored is dropped by it, but
\* for the three exceptions.
THEOREM DroppedIsGone == PruningSpec => PrunedIsGone
<1> DEFINE SessionGone(k) ==
             CASE k[1] = "peer"  -> k[2] \notin peer \ history.unheard
               [] k[1] = "local" -> \/ k[2] \notin local.live \cup local.pending
                                    \/ history'.blind
               [] k[1] = "bare"  -> TRUE
<1>1. ASSUME PruningInv, [PruningNext]_pruningVars, NEW k \in Dropped
      PROVE  SessionGone(k)
  <2>0. PruningTypes /\ ListedOrUnheard
    BY <1>1 DEF PruningInv
  <2>1. CASE \E blind, refused \in BOOLEAN : Poll(blind, refused)
    <3>1. PICK blind \in BOOLEAN, refused \in BOOLEAN : Poll(blind, refused)
      BY <2>1
    <3>2. k \in PinKeys /\ k \notin LiveKeys /\ Evaluable(k, blind) /\ history'.blind = blind
      BY <1>1, <2>0, <3>1, PollDrops
    <3>3. PICK o \in Owners, n \in Names : k = <<o, n>>
      BY <3>2 DEF PinKeys
    <3>4. CASE o = "peer"
      <4>1. entry.known /\ n \notin entry.list
        BY <3>2, <3>3, <3>4 DEF Evaluable, LiveKeys, PeerList
      <4> QED
        BY <2>0, <3>3, <3>4, <4>1 DEF ListedOrUnheard
    <3>5. CASE o = "local"
      <4>1. n \notin local.live /\ (blind \/ local.pending = {})
        BY <3>2, <3>3, <3>5 DEF Evaluable, LiveKeys
      <4> QED
        BY <3>2, <3>3, <3>5, <4>1
    <3>6. CASE o = "bare"
      BY <3>3, <3>6
    <3> QED
      BY <3>3, <3>4, <3>5, <3>6 DEF Owners
  <2>2. CASE ~\E blind, refused \in BOOLEAN : Poll(blind, refused)
    <3>1. pinned \subseteq pinned'
      BY <1>1, <2>2, WorldKeepsInv DEF PruningNext
    <3> QED
      BY <1>1, <3>1 DEF Dropped
  <2> QED
    BY <2>1, <2>2
<1>2. PruningInv /\ [PruningNext]_pruningVars => [\A k \in Dropped : SessionGone(k)]_pruningVars
  BY <1>1
<1> QED
  BY <1>2, PruningInvariance, PTL DEF PruningSpec, PrunedIsGone
=============================================================================
