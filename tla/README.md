# Formal model of muxplex

muxplex is a web dashboard for tmux: one Python server (`src/muxplex`, an asyncio
application) lists the sessions of its tmux server, shows them in browsers,
relays a terminal to each, queues follow-up prompts, federates with other
muxplex servers, lets an agent type on the user's behalf, and installs,
upgrades and restarts itself.  This directory holds TLA+ modules that model its
stateful parts, the TLC configurations that check them, and proofs checked by TLAPS.

## 1. Inventory

| component | source | state it keeps | operations | modules |
|---|---|---|---|---|
| Follow-up queue | `followups.py`, `main.py` 2598-2909, panel in `frontend/app.js` 6368-7486 | `state["followups"]` per session (items, revision, halted), `_followup_sending`; per tab a snapshot of the queue | GET, POST, PUT, DELETE, resume, the advance a bell starts, the poll cycle's reap | `FollowupQueue`, `Followups`, `FollowupContract` |
| Session rename | `main.py` 3115-3578, `manifest.py` 430-508 | the rename journal in the manifest; every keyspace that is keyed by name | `rename_session`, `_migrate_session_name`, the poll cycle's journal branch | `SessionRename` |
| Terminal processes | `ttyd.py`, `main.py` 4608-4930 | `_ttyds` (process and relay count per session), sockets and run files on disk | ensure, spawn, kill, relay counts, idle and orphan reapers, `/terminal/ws` | `Ttyd` |
| Sync groups and devices | `state.py`, `main.py` 3582-3691 | `devices` (group, `controlled_by`, heartbeat time), `sync_groups` | heartbeat, PATCH state, connect, disconnect, pruning and garbage collection | `SyncGroups` |
| Bells and attention | `bells.py`, `main.py` 441-505, 665-806, 3739-3799 | bell entry per session, `_bell_seen`, `_bell_hook_armed` | hook, flag polling, seeding, acknowledgement, halt | `Bells` |
| Session manifest and restore; creation and deletion | `manifest.py`, `restore.py`, `sessions.py`, `main.py` 2154-2342, 2947-3070 | epoch, sessions seen alive, `pending_restore`, `created_with` | update per poll, create and observe, rename, delete, `muxplex restore`, `--forget` | `Presence` |
| Federation breaker and caches | `breaker.py`, `main.py` 4974-5540 | failures and opening time per remote, last-known lists | fan-outs, session details, half-open probe | `Federation` |
| Stale-key pruning clock | `pruning.py`, `main.py` 940-1105, `views.py` | `pruning.json` | normalisation, judgement, prune | `Pruning` |
| Views and their merge | `views.py` | views, hidden sessions, change stamps with tombstones | merge, stamps, collection | `ViewsMerge` |
| Settings sync | `settings.py`, `main.py` 253-366 | `settings_updated_at`, the document | patch, apply from a peer, push and pull | `SettingsSync` |
| Settings store | `settings.py` 700-1500, `cli.py` | `settings.json`, its lock, its quarantined copies and snapshots | load, quarantine, migrate, snapshot, staged write, the commands | `SettingsStore` |
| Chat bridge | `agent_embedded/`, `frontend/chat.js` | the running turns, session owner records and locks, open calls, the page's queue | admission, pump, stream, cleanup, dispatch, resolve, decline, Stop | `AgentChat` |
| Command line and service | `cli.py`, `service.py` | the port, the service job, what is installed | `serve`, the service commands, `ensure_agent`, `upgrade` | `Service`, `Upgrade` |
| Browser terminal | `frontend/terminal.js` | the WebSocket, its back-off | reconnect on the close codes | not modelled |
| Browser application, chat, deck | `frontend/*.js` | what is shown | rendering, polling | not modelled, but for the follow-up panel and the chat's executor |
| Client library, terminal input, focus, authentication, TLS, credentials | `client/`, `focus.py`, `auth.py`, `tls.py`, ... | files, none | one-shot calls | not modelled |

How they interact.  The server is one event loop.  `state.json` is read, changed
and saved under one `asyncio.Lock`, `state_lock`; the code gives the lock back
around every tmux command but in the poll cycle, which every two seconds
enumerates the sessions, updates the manifest, the caches, the bells, the
devices and the groups, and saves, all under the lock.  What a handler read
before it awaits is stale after: most of the hard behaviours come from there.
Bells come from tmux (a hook that posts to the server, or a flag the poll cycle
reads) and start the queue's advance.  Browsers poll, keep snapshots and write
from them.  Peers exchange settings and views, and one server shows another's
sessions from a cache.  The command line is other processes: they share
`settings.json` and `sessions.json` with the server under file locks, and the port
and the service job under nothing but what the operating system promises.

What makes each component correct, and is hard to test:

* follow-ups: one instruction is typed once, into its own session, and an item is
  lost only by a user's wish or its session's end;
* rename: whatever crashes or interleaves, every keyspace follows the session;
* terminals: an idle process goes, a used one stays, none is leaked, and no
  request waits for ever;
* groups: a device's group always exists, nobody looks followed by one who is not
  following;
* bells: what somebody is owed asks for attention and nothing else does, and one
  ring is counted and advanced once;
* manifest: a session lost with its tmux server is offered for restoration, one
  that was closed is not, and its command pair is the one that made it;
* breaker: a dead peer costs one probe per cool-down, a live one is found out;
* pruning: only a key whose session is gone is dropped;
* views and settings: peers agree in the end, and no user's edit is undone;
* settings store: no process's change is lost, a broken file is kept;
* chat: a turn whose outcome is unknown is not followed by another, what the agent
  is told is so, and nothing is typed after a refusal;
* upgrade: sources never change silently, a success is what runs, a healthy server
  that answers is not killed, and the service comes up.

`PROJECT.json` lists the hazards line by line with the properties that cover them.

## 2. Plan

Done, in this order: the queue; rename; terminals; groups; views and settings sync;
bells; manifest, creation and deletion; breaker, caches and pruning; the chat
bridge; the command line, service and upgrade; the settings store.

Left, in order of worth:

1. the composition of `Bells` with `Followups`: today `Bells` has an advance as a
   coroutine that ends or halts, and `Followups` a bell as an input;
2. the terminal's reconnection in the browser, against `Ttyd`'s close codes;
3. an abstract last-writer-wins map per (view, member) that one server's document
   implements between two edits.

## 3. The models

Conventions.  Code between two awaits is one step.  A handler that works in one
`state_lock` block is one action.  Checks made before the lock (a name's syntax,
the cached session list) are merged with the locked block where nothing they
read can change to the property's harm in between, and split where it can.  A
coroutine with awaits is a record with a phase.  `history` variables are read by
properties only.  A definition marked *mutant* in a comment is a plausible bug;
`PROJECT.json` names the definition it replaces and the property that then fails.

### FollowupQueue, Followups, FollowupContract

`queue` is `state["followups"]`, `sending` is `_followup_sending`, `advance` the running
`_advance_followup_queue` coroutines.  `BeginAdvance` is the block that peeks (with
`acceptance_ok`), `TypeText` and `TypeEnter` are the send's awaits, `FinishAdvance`
the block that removes by id or halts.  What tmux, the settings and the clock answer
is not a variable: whether a session is alive, whether the fence is open, whether
the hook is armed, whether the two seconds of the settle window have passed is
chosen anew each time the code asks.  So `_followup_last_send_at` is not in the
state, every result holds however fast bells follow each other, and a fence
evaluation that raises, which only moves that time, is no step.  `PollEnumerate` takes the lock
and lists the sessions, `PollApply` reaps and saves; a poll whose enumeration fails
changes nothing and is not a step.  A tab (`viewing`, `panel`, `request`) edits its
snapshot and PUTs it with the revision it holds; `PutLost` stands for a 404 or a
network error; a tab has one request outstanding, and the answers of GETs are
applied in order.  An item is its id, made of the number of the request that
created it and its place in it, and the intent of the user who wrote it.
`WithoutId` drops one position because ids are unique (`IdsUnique`, proved; `MCFollowupsAlso.cfg`).
A second text of the user is not compared by its words.

`FollowupContract` says what an id may do: come once, be typed only by a send that
began while it was queued, never come back.  `ImplementsContract` checks every step
of `Followups` against it through the mapping in `Contract`.

### SessionRename

`tmux`, `queue`, `pins` map a name to the session that has it, so "the keys follow the
session" is an equation.  `journal` is the one rename record of the manifest.  A
rename writes the journal, lets tmux run without the lock, looks at what tmux
did, and migrates; `Crash` may come between any two of these steps and between the
files the migration saves (`MigrateInPart`).  `orphans` is a history of the names whose
keys were left behind, with the reason; `KeysFollowSession` allows five reasons and no
other, and each is one of the crashes, failures and interleavings the component's
hazards name.  `Observe` may get an empty list whatever tmux has done: the endpoint asks
with `enumerate_sessions`, which answers `[]` when tmux fails, and then clears the journal
(`main.py:3481`, 3499), while the poll cycle uses the strict form and gives up its cycle.
A name is `reused` when a session is created or renamed under it while a rename that
has it runs: two renames at once that share a name do that to each other, for the
journal has one slot and each migrates what it finds under its own old name.  `Waiting = {}` in
`PollEnumerate` models the lock's FIFO order.  The check of `pending_restore` is not
modelled.

### Ttyd

`registry` is `_ttyds` (relays counted in the process's record), `socket` and `run` the
files; `task` is a handler: `/terminal/ws`, connect, disconnect or rename.  Spawning is
`Spawn` (unlink, start, write the run file) and then `Ready` or `NotReady`; killing is
`KillBegins` and `KillEnds`, with the process's end between.  `Bind` fails on a path that
exists, a clean exit unlinks its path.  `Ages` says that a ttyd has been idle for long
enough; no handler takes sixty seconds between its readiness and its dial, so it is
disabled in between.  `Restart` covers an orderly stop (each process stopped) and a
crash, with the orphan reaper of the next start.  `lost` is the history of
processes nothing leads to any more, for the five reasons `NothingLeaks` names.
A process is used once, so `Procs` bounds the spawns, which the guards call a budget.

### SyncGroups

The group `device:<d>` is written `d`.  `Heartbeat` is the endpoint with
`register_device` and `ensure_group`; `PollCycle` is pruning, collection and clearing of
vanished selections, atomic because the poll cycle holds the lock from its
enumeration on and a selection made before is of a session it can see.
`BeginConnect` and `EndConnect` are the two locked blocks of `connect_session`.

### ViewsMerge, SettingsSync

A document's views are `has` (the names of the views), `pins` (pairs of a view and a
key it lists) and their stamps `at` and `memberAt`, so that every test the code
makes of one element is one test here.  `Edited` is `record_views_change` (and
`stamp_view_member_changes`, which records the same changes), `Collected` is
`_gc_views_changed_at`, `Merged` is `merge_views` with the collection it ends with.
`OtherViews` and `OtherPins` stand for the views nobody touches, which only the
destructive-write assessment counts; with one of each, in the run, deleting the one
view of two is destructive.  A user may force such an edit (`allow_destructive`, the
parameter of `EditViews`), a peer's merge has no such override (`Refuses` in `Takes`).
So `PeersConverge` says that in the end any two servers agree or the newer one is
refused by the other (`Blocked`): forced deletions stay refused, and so do small
ones that together are too much.

`doc` is each server's `settings.json`, with one setting (`font`) for all that are
not merged.  `sync` is the coroutine `_sync_settings_with_remotes`: it reads `local`,
then for each peer asks (`Ask` takes what the peer holds when it answers), and
adopts, pushes or does nothing by a comparison with `local`, while users edit.
`Takes` is `apply_synced_settings`, for an adopt and for a push alike.  `Prune` is step
14 of the poll cycle; which keys its grace period has expired for is the
constant `Gone`.  `wish` is history: who last changed an element, and to what.
A user's edit is made from the document as it is, which the
`expected_settings_updated_at` check enforces; a client that omits it can lose
another's edit, as the endpoint's docstring says.

### Bells

Two mechanisms observe one ring: the alert-bell hook, a request under way in
`posts`, and the window's flag (`raised`), which each poll cycle reads.  `PollBegins`
arms the hook again, `PollEnumerates` takes the lock, `PollLoads` loads and seeds,
`PollFlag` is one await of `process_bell_flags`, whose read may fail and then counts as a
flag that is down, `PollSaves` the clear rule and the
save, `PollAdvances` the advances offered after the lock.  `ReceiveBell`, `ClearBell` and
`AdvanceHalts` are the handlers; they wait for the lock.  An entry is what
`needs_attention` asks of it: an unseen count that is positive and a ring after the
last acknowledgement.  Each ring has a number, so `history` can say which mechanism
counted and advanced it, and why a second time (`Excused` has the reads that failed).

### Presence

`made` says what made the live session of a name: a command pair or a hand.
`manifest` is `sessions.json`.  A poll lists the sessions (`PollEnumerates`), asks for
tmux's epoch in a second call (`PollProbes`), and updates (`PollUpdates`): nothing is
known without an epoch, what is missing under the same one was closed, under
another it was lost.  `update_manifest` is code of a library that is not in the
repository; it is modelled from the tests and the changelog here.  A creation spawns,
finds its name taken or is slow, then observes what arrived and records the pair.
`Restore*` is the `muxplex restore` process, which shares only the file lock.
`excused` collects the sessions for which the pair may be wrong, one reason each.

### Federation, Pruning

`Federation` is one server and one of its peers.  A call is of a kind that shares the
breaker (sessions, devices, details); `Begin` decides whether it may go, and its
end is a transport failure, an error, a rejection or an answer.  A list of sessions
waits for the peer's version before it is cached (`ListArrives`, `VersionArrives`).  A
call takes seconds and the window a minute, so `WindowPasses` waits for the calls.
Failures beyond the threshold are not told apart from the threshold.

`Pruning` is what the poll cycle does with that cache: its entry comes, wears out
and goes by itself here, for nothing in the cycle renews it.  `Normalized` is
`normalize_session_keys`, `Missing` and `Expired` the judgement of `prune_stale_keys`,
`Clocks` `pruning.json`.  A grace clock is off, running or over.  The destructive-write
backstop is a choice (`refused`).

### AgentChat

A request is a run with one turn; runs are numbered, and a new session has the
number of the run that makes it.  `run.at` goes through the awaits of `prepare_chat`
(`AgentIsMade`, `SessionOpens`, `TurnStarts`), the live turn, and the cleanup, in which
`Cleanup` waits for the pump and the SDK's handles before it gives the session's
lock back.  `disk` is the owner record with its marker of a turn that is not proven,
`Proven` what `reconcile` finds.  A call is at the server (`Dispatch`, `Expire`, `Return`)
and at the page (`Take`, `Decline`, `Issue`, `Respond`, `Post`), with its effect in
between, which a request under way may have after everybody has given up.
`Restart` is a crash at any point: locks and runs go, files, the SDK's history and the
page stay.

Taken from the SDK, which is not in the repository: it closes or cancels a turn
before `close()` returns, its call ids are unique, a turn may be accepted by a call
that fails.  There is no clock: a deadline is the choice to expire.

### Service, Upgrade

`Service` has the processes of the port (`List`, `Probe`, `Kill`, `TakePort` are the port guard
and uvicorn's bind), the job of the manager, and the service commands, which run as
`cmd` step by step.  systemd, launchd and lsof are modelled from how the code uses
them: systemd's stop waits for the process, launchd's `bootout` does not and its
`bootstrap` is refused while a job is leaving.  `lsof -ti` lists every process with a
socket of the port, so `List` takes the holders and any of the `Clients`: a muxplex of
another port (`elsewhere`) and a start that is asking; or nothing, when lsof is missing or
times out.  `Probe` may get no answer from a healthy server, which is too slow or
listens on another address than 127.0.0.1.  `doubted` is the history of both.  `Kill` sends
one SIGTERM; a server that holds the port drains, and nothing makes that end.
`Upgrade` adds the upgrade: halt,
install, hand what is left to a process of the new release, start again.  What is
installed is a version and the kind of the two recorded sources: PyPI, a git tag, or a
git branch, named or the default one.  `Provided` lets an index give an old release, and a
branch's head be of any version; `UpdateAvailable` asks a branch for its commit, so an
upgrade of it may start although no version moves, and then fail on the version.
`EnsureAgent` finds the agent in place, or cannot have it, or installs muxplex anew.

### SettingsStore

`file` is absent, broken or what is set; a setting keeps the number of the edit
that set it.  A process goes through the steps of its operation: lock, load,
quarantine, migrate (with a save of its own inside the caller's window), change,
snapshot, stage, publish.  It may die at each, and the disk may be full.  `Over` is
the merge of the operation's own keys over what was loaded.  Readers take no lock,
but a load that meets an unreadable file renames it and a load that meets the
retired `showHoverPreview` saves: both act on what they read before, which `late`
remembers.

## 4. Runs

| run | checks | bounds |
|---|---|---|
| `followups` | `SingleFlight`, `NoSilentRepeat`, `HaltedIsQuiet`, `ItemsLeaveForAReason`, `ImplementsContract` | one session, queue of two, one tab, two concurrent bells, three requests that create items (`MaxStamp` 4) |
| `session_rename` | `KeysFollowSession`, `LiveQueueKept` | three names, two sessions, one rename |
| `ttyd` | `NothingLeaks`, `RelaysAreReal`, `PrepareEnds`, `IdleIsReaped` | two sessions at a capacity of one, two handlers, two spawns |
| `sync_groups` | `GroupsExist`, `MarksAreTrue` | three devices, two sessions, one connect |
| `settings_sync` | `OwnEditsStand`, `SameTimeSameSettings`, `PeersConverge` | two servers, one view, two keys of which one is prunable, one view and pin besides, two edits (`MaxEdits`), forced or not, equal clocks, no stamp expires (`TTL`) |
| `bells` | `OwedAsksForAttention`, `NoIdleAlarm`, `OncePerRing`, `FlagIsCounted` | one name, two rings, two births or restarts |
| `presence` | `LostIsOffered`, `ClosedIsNotOffered`, `PairFitsSession` | two names (symmetric), two pairs, four turns of tmux (`MaxTurns`) |
| `federation` | `OneProbe`, `OpensWhenGraceEnds`, `RejectedIsNotServed`, `Recovers` | one name, two calls at a time, threshold and grace 3 as in the code |
| `pruning_frozen` | finds `PrunedOnFreshList` violated | two names |
| `agent_chat` | `LeaseCoversTurn`, `ReportsAreTrue`, `NothingReplayed`, `NoTypingAfterNo`, `LeftTurnsEnd` | three runs, two calls each, three requests and calls together (`Budget`) |
| `upgrade` | `SourcesNeverSilent`, `SuccessIsServed`, `HealthyIsLeft`, `ServiceComesUp` | both managers, three processes, two releases, one crash or hang, two commands or servers by hand (`MaxUses`) |
| `settings_store` | `EditsStand`, `Whole`, `BrokenIsKept`, `LockIsFreed` | the server and two commands, two settings of which one is a command pair, three edits |

Why the bounds are enough.

* Every race in the queue is between two bells, or a bell and one editor; no
  handler reads the queue of another session.  A queue of two distinguishes head,
  tail and full; three creating requests are a list, an edit of it and a later
  addition.
* A rename involves an old and a new name; the third is the bystander a guess may
  take for the new one.  The theorems have any number of renames at once.
* Two handlers and the reaper make every pair of coroutines of `ttyd.py`; with two
  sessions and a capacity of one every request meets a full table.  Two spawns are a
  process and the one that replaces it; `MCTtydThree.cfg` has a third.
* Three devices are a device, the one it follows and a second follower.
* Two servers with one edit each are every pair of concurrent edits; the merge
  treats each view and each pair apart from the others, and the backstop counts them:
  one of two is what it refuses.
* Sessions do not meet in `Bells`: all its state is per name, but the hook and the
  flag "armed", which one name sees too.  A second ring is one that falls on a flag
  still up, or is acknowledged with the first.
* A loss takes a server's death and a new server, and a second one makes four
  turns with the births.  Two names are a session and the one that takes its name,
  or arrives beside it.
* Two calls are two fan-outs that overlap; nothing in the breaker counts callers.
* A conversation of three turns has one unproven between two others; two calls are
  siblings, which the serial lock and the latch are about.  The budget trades
  turns against calls.
* Three processes are the service's own, a stray one and the one that comes next; two
  uses are a command beside a server started by hand, or after another command.
* Three processes on one lock are a holder, a waiter and a reader.

Fairness.  The event loop resumes every coroutine that can run (weak fairness per
handler; a coroutine that waits for `state_lock` gets it, as asyncio's lock is
fair).  The poll loop starts a cycle every two seconds, whatever the last one raised
(`Bells`: a cycle runs on, and of its enumerations, which may fail, one succeeds in
the end: strong fairness of `PollEnumerates`).  A process told to end does end
(SIGKILL follows SIGTERM in `ttyd.py`; the port guard of `cli.py` sends no SIGKILL, and
`Upgrade` assumes of a server that drains nothing).  A read of a bell's flag succeeds in the
end (strong fairness of `PollFlag`), and the poll cycle comes to its last step, which takes
a strict enumeration that succeeds (`main.py:873` follows it; `ReaperStep` in `Ttyd`).  Time
passes (`Ages`, `WindowPasses`).  In `SettingsSync` every
request is answered or fails, and one tried for ever is answered in the end (strong
fairness of `Ask` and `Deliver`); without it a network that is down for ever keeps
servers apart.  In `Federation` browsers keep asking, and a call ends by its timeout.
In `AgentChat` the server's coroutines run on and the SDK ends a turn that is
cancelled; in `Upgrade` the manager starts what it owes, processes run, and lsof works
again and again (strong fairness of `List`); in
`SettingsStore` a process that began an operation goes on or dies.  `Followups`, `Presence`,
`SyncGroups`, `SessionRename` and `Pruning` are checked for safety and assume none.  Nothing is
assumed of users, browsers' users or tmux.  In `Bells`, `Presence`, `AgentChat`, `Upgrade` and where
else a configuration says so, a behaviour ends when its bounds are used up, which
is why they do not check for deadlock.

### Further configurations

Kept beside the runs, for what they tell.  The first group passes; each of the
others ends in a counterexample to what a comment or a document of the
repository says.

| configuration | checks | what it shows |
|---|---|---|
| `MCFollowupsAlso.cfg` | `TypeOK`, `IdsUnique`, `HaltLiftedAlone` | ids stay unique, which `WithoutId` relies on; a step that lifts a halt changes nothing else of the queue, or drops it whole |
| `MCTtydThree.cfg` | `TypeOK`, `NothingLeaks`, `RelaysAreReal` | the same with one session and three spawns |
| `MCSessionRenameLive.cfg` | `TypeOK`, `JournalResolved` | a journal is resolved in the end, two renames |
| `MCPruning.cfg` | `PrunedWasMissing`, `PrunedIsGone` | a pin goes only after it was missing for a whole grace period, and only if its session is gone, but for the exceptions in their comments |
| `MCPresenceAlso.cfg` | `TypeOK`, `PendingGrowsByLoss` | what a restore cleared does not come back by a poll's write |
| `MCFollowupsRetry.cfg` | `NoSecondExecution` | see 1 below |
| `MCSessionRenamePoll.cfg` | `RenameKeepsQueue` | 2 |
| `MCTtydBlackout.cfg` | `NeverBlackedOut` | 3 |
| `MCSettingsSyncWords.cfg` | `NeverOlder`; with its line taken out, `DeletionsStand` | 4; 5 |
| `MCPresenceRenamed.cfg` | `RenamedIsRefused` | 6 |
| `UpgradeStopped.cfg` | `StoppedIsStarted` | 7 |
| `SettingsStoreLate.cfg` | `NothingDiscarded` | 8 |

### Where the code and its words disagree

1. `app.js:7446`: on 409 `send_in_flight` the panel reads the queue again and sends the
   list it had built before, under the new revision; the item that was sent comes
   back under a new id and is typed again.  `main.py:2692` calls this "a second
   execution", and the plan in `docs/` asks for "re-fetch, re-apply, retry once".
2. `main.py:619`: a poll cycle that listed the sessions before tmux renamed takes the
   rename for one that never happened and clears its journal; if the server stops
   then, or the next cycle comes before the migration, the live session's queue is
   reaped.  `main.py:569` says the journal "is what makes that safe rather than
   destructive".
3. `main.py:4844`: the proxy takes a live socket for a registered process; a relay
   acquired before the spawn has registered it is not counted, and another device's
   disconnect kills the terminal.  `main.py:2919`: "must never black out the other's
   live terminal".
4. `main.py:310`: the peer's time is compared with a local one read before the peer was
   asked, so an edit made meanwhile is overwritten by an older document.
   `main.py:260`: "If remote is newer: adopt remote settings".
5. `views.py:620`: the merge visits only the views one side lists, so two servers that
   both know of a deletion drop its tombstone at their next merge, whatever its age;
   a third brings the view back.  `views.py:464`: "keep only while it can still out-vote
   a peer that has not yet heard about the deletion".
6. `manifest.py:507`: `get_renamed_from` looks among the live sessions, while the entry of
   a lost one is in `pending_restore`: restore recreates a renamed session under its new
   name.  `manifest.py:497` says the record is frozen with the session so that restore
   refuses.
7. `cli.py:2755`: an upgrade that stopped the service may end with no attempt to start
   it: a child that dies before its own `finally` counts as handed off, a launchd job
   that is leaving refuses the one bootstrap, and a systemd service that is active
   but not enabled is skipped.  `cli.py:2781`: "ALWAYS runs after install, even on
   failure".
8. `settings.py:844`: a reader that met the retired key, or an unreadable file, acts on
   what it read before it had the lock, and may put an older document back or move a
   good file aside.  `settings.py:1096`: "neither write is silently discarded".
9. `main.py:1010` (the run `pruning_frozen`): any cached list whose failures are within
   the grace counts as current, whatever its age; a session started since is judged
   gone and its pin is dropped after a day.  `main.py:958`: "evaluable ONLY if that
   device currently has a fresh entry in _federation_cache".

Met while modelling, and in no configuration:

* the panel's retry compares the session viewed with itself: after a switch it
  writes the first session's list over the second's queue (`StartPut`; needs two
  sessions);
* the idle reaper lists its candidates once and awaits between two kills: a
  terminal opened meanwhile is killed (`AfterReap`);
* `controlled_by` has room for one follower: when a second comes and goes, the guard
  against following one's own follower no longer sees the first;
* a queue's revision starts again at 0 when its empty entry was dropped, so equal
  revisions may name different lists;
* append, pin and rename check the cached session list before they wait for the
  lock;
* two handlers that spawn at once exceed `MAX_TTYDS` by one; two names with one
  socket hash share a socket (`OnePath` in `MCTtyd`);
* a session hidden on one server stays visible on another of the same timestamp,
  when the merge bumped the timestamp but kept the other side's `hidden_sessions`;
* a prune changes the document under its old timestamp, so it is not sent until
  another edit (`Prune`); with clocks that differ (`Skew`), a server that must look
  newer than a peer whose clock is ahead only looks as new;
* a deletion its user forced, or small ones that together are too much, are refused by
  the peers again at every cycle: the exception of `PeersConverge`;
* a rename whose confirming list fails clears the journal although tmux has renamed,
  and a later poll reaps the live queue (`main.py:3499`): the exception `unseen` of
  `KeysFollowSession`;
* a ring is counted again when its flag is still up after the clear rule, a read that
  failed or a restart forgot it, and advances twice when tmux has a hook the server does not
  know of: the exceptions `OncePerRing` names;
* a creation that finds its name taken records its pair for the session that was
  there: an exception of `PairFitsSession`;
* failures of a devices fan-out open the circuit while the cached sessions have
  grace, and they are not served then: an exception of `OpensWhenGraceEnds`;
* `asyncio.wait_for` may report a call as unknown whose answer was just accepted
  (`Expire`): never as failed, so `ReportsAreTrue` holds;
* an upgrade of a branch compares version strings although its check was by
  commit (`cli.py:1837`), and when the version is what failed the sources are not
  compared (`cli.py:2676`): the exception of `SourcesNeverSilent`;
* the port guard's comment says a holder is "killed ONLY on positive evidence that it
  is not serving" (`cli.py:1219`), but `lsof -ti` lists clients of the port too, which get
  the signal unasked (`cli.py:1242`), and a healthy server that does not answer on
  127.0.0.1 in two seconds gets it as well: the exceptions of `HealthyIsLeft`;
* the port guard's one SIGTERM may leave a hung holder for ever (`cli.py:1305`): the
  exception of `ServiceComesUp`; `service start` accepts a
  launchd job that is leaving; an upgrade enables a service its user had not;
* snapshots are sorted by a number each process counts from one, so with a full
  history the newest may be the one pruned (`settings.py:1388`, 1433): `Snapshot` chooses.

## 5. Proofs

Eight modules, for every value of the constants.  Three of them are about several
models, which is why `SyncGroups`, `SettingsStore`, `Pruning` and `Upgrade` have names of their own for
`Init`, `Next`, `Spec` and what else the other model has too.  Each invariant is inductive with
the strengthening named here; every proof has one step per action, and lemmas for
what the operators do.

`FollowupsProofs`: `TypeCorrect`; `OneSendPerSession` (`SingleFlight`), whose conjunct "sending
is exactly the set of names being sent" makes it inductive, for the acceptance check
reads `sending`, not the coroutines; `HaltStopsSends` (`HaltedIsQuiet`): a halt is set in
the step that ends the session's only send.  The other theorems rest on `Settled`.  A
tab may send any list it ever saw, so `Known` speaks of every list there is, queued,
shown or under way: an id in them is of a request that was, and is one item for
ever (`replace_items` renews the ids the queue does not know).  Then an item is in one
queue (`Apart`), a send's item in no other queue and no other send (`Home`), and the
history fits the phases of the sends (`Told`), which all need each other and
`NoSilentRepeat` itself: a send begins on an item nobody typed or one that was torn.
From it `NeverSilentlyRepeated` (`NoSilentRepeat`), `IdsAreUnique` (`IdsUnique`), the action
properties `NothingVanishes` (`ItemsLeaveForAReason`) and `HaltsEndAlone` (`HaltLiftedAlone`),
and `QueueKeepsContract`: `Followups` implements `FollowupContract` (`ImplementsContract`), each
operation an `Edit`, `Begin`, `End` or `Crash` of the contract or a stutter.

`DevicesProofs`, of `SyncGroups`: `GroupsTypeCorrect`, `NoDanglingGroup` (`GroupsExist`) and `MarksStayTrue`
(`MarksAreTrue`), with `NothingLeftBehind` (a device that is not registered has the
default group and no mark), because a device registers anew after it was pruned; a
mark must name *another* device, or a self-claim would keep its own mark.

`SettingsProofs`, of `SettingsSync`: first the algebra of `merge_views`: `MergeIsWellFormed` (members only
in views it keeps), `MergeCommutes` (both directions compute the same document, stamps
included), `MergeIsIdempotent` (on the presences), `UnheardPinsSurvive` (ignorance never
removes a pin), `MergeSettles` (the server that takes in its peer's merge has nothing
to add; while no tombstone is old enough to be collected (`Lives`): one collected in
the merge lets the other side bring the element back).  The lemmas split a merge into
`Joined`, which decides, and `Collected`, which only forgets stamps, and an edit into
`Marked` and `Collected`.  `SettingsTypeCorrect` follows for any clocks, because the merge
makes a well-formed document of any two.  The other two theorems speak of the
documents in play (`Held`: those the servers have and those their cycles carry), and
`StepKinds` says what any step does to them: nothing comes into play, the result of one
merge does, or of one edit.  `SameTimeAgrees` (`SameTimeSameSettings`) rests on `TimesTell`: no
document in play is of a time to come, and two of one time are alike; a merge that is
not the peer's document is bumped to a time nobody has used.  `OwnEditsAlwaysStand`
(`now <= TTL => OwnEditsStand`) rests on `EditsHold`: no document in play has a later stamp
for an element than the server where its last change was made, and one with the same
stamp agrees with it; what nobody touched is everywhere.  Two hypotheses, and neither
can go.  `SameClocks`: a server whose clock is behind stamps an edit with a time another
has used, or with one before that of the change it replaces; TLC finds both.  `now <= TTL`: when a tombstone is dropped
(`_gc_views_changed_at`), a peer that has slept may bring back what was taken away.  A
view made anew needs only the first.

`BellsProofs`: `OwedAlwaysAsks` (`OwedAsksForAttention`) and `NeverIdleAlarm` (`NoIdleAlarm`).  They
are one equivalence: `Settled` says that in `state.json` exactly the owed ask, and
`AboutToSettle` the same of what a running cycle has loaded and will save.  The
second is needed because the save replaces every entry; it holds because no handler
runs while a cycle holds the lock (`Cycle`), and an entry that is not there never asks
(`Silent`), or a session's return would find an old alarm.
`RingsOnce` (`OncePerRing`) adds `Once`: a ring raises one flag and posts one request
(`RingsApart`), a flag that is up and was counted is in `_bell_seen` unless a clear, a failed
read or a restart forgot it (`FlagsRemembered`), a transition waits for the queue once and after its
count (`WaitsOnce`), and a ring that both mechanisms offer was read beside a hook the
server did not know of (`HookNoted`).

`PresenceProofs`: `LostAreOffered` (`LostIsOffered`), `ClosedAreNotOffered` (`ClosedIsNotOffered`) and
`PairsFitSessions` (`PairFitsSession`).  `Epochs`: a poll that probed under the server it
listed knows that server, and one that did not may not judge.  `Lost`: what was lost
and is not yet pending is in the record of an *earlier* server, so the next poll that
knows an epoch finds it missing under another one.  `Closing`: what was closed is in no
record and no list that a poll still carries.  `Mine`: what a creation made is live and
made with its pair until it is recorded.
`PendingGrowsOnlyByLoss` (`PendingGrowsByLoss`, an action property) needs the types
alone: only an update adds to what is pending (`UpdateFields`), and it starts from the
file as it is.

`DevicesProofs`, of `Federation`: `AlwaysOneProbe` (`OneProbe`): while a probe is in flight the window has not
passed (`ProbesAlone`).  `RejectedNeverServed` (`RejectedIsNotServed`): a list that waits for its
version at a rejection is marked as overtaken (`RejectionReaches`).  `OpensAfterGrace`
(`OpensWhenGraceEnds`), assuming `Grace <= Threshold`, as in the code, where both are 3:
the breaker's count never exceeds the entry's (`Matched`).

`AgentChatProofs`: `LeaseAlwaysCovers` (`LeaseCoversTurn`) and `NeverReplayed` (`NothingReplayed`, an
action property).  `Leased` says who has the lock from the admission to the turn's end;
`Known` that a turn the SDK has accepted is in the history or named by the marker, so
a run that finds the marker proven finds every earlier turn in the history.
`ReportsAlwaysTrue` (`ReportsAreTrue`) and `NeverTypesAfterNo` (`NoTypingAfterNo`) are about the tool
calls.  `Right` relates where a call is at the server, at the page and in its effect;
`OneOpen`: the bridge and the page are busy with one call of a run at a time, and while
it is a typing one nobody has said no to another; `Remembers`: what was said no to
blocks the run, and what is in doubt makes it uncertain, for as long as it may
dispatch, so that no typing call is opened after.

`SettingsProofs`, of `SettingsStore`: `EditsAlwaysStand` (`EditsStand`), `AlwaysWhole` (`Whole`), `BrokenAlwaysKept`
(`BrokenIsKept`).  Per process: what it holds fits its step (`Sound`), it has the lock
where it writes (`Locked`), what it is about to write is what was published when it
loaded (`Current`), and what it overwrites has been copied (`Careful`).  `Current` is where
the lock around the whole window is needed, and not only around the save.

`SettingsProofs`, of `Pruning`: `DroppedWasMissing` (`PrunedWasMissing`) and `DroppedIsGone`
(`PrunedIsGone`), both action properties.  `SeenWasRefused`: a key seen alive while its
clock runs on is one of a poll that did not save, as a poll that saves stops the clock.
`ListedOrUnheard`: a peer's session that is not in its cached list has started since the
list was cached, so what is missing in the list is gone or excepted.

`SessionRenameProofs`: `KeysAlwaysFollow` (`KeysFollowSession`), `LiveQueuesKept`
(`LiveQueueKept`, an action property), and with them `RenameTypes` (`TypeOK`).  A key that is not under its session's
name needs its journal, so the invariant says where the keys of each rename are:
`UnderWay`, per phase, for a request (at home until tmux has renamed, then under the
old name with the session at the new one, and none when nobody knows where the
session went), and `Interrupted` for what a crash leaves, which may be half moved.
`JournalRight`: a journal is that of a request that runs, or of a crash after which
nothing else runs.  The poll decides by a list it read before, so both halves also say
what a poll that holds the lock has seen.  `LiveQueueKept` adds `RoomAhead` (nothing is
queued under the name a journal leads to, so the migration buries no queue; it holds
because an append needs the name in the session list, which the request has read) and
`SeenRight` (a live session with a queue is in the list of the poll, under its own
name or under one its journal leads to).  A second request spoils this only if
it shares a name with the first: without that exception TLC refutes `KeysFollowSession`
with two requests, and the proof found no other.

`ProcessesProofs`, of `Ttyd`: `TtydsNeverLeak` (`NothingLeaks`), `RelaysNeverStick`
(`RelaysAreReal`), and with them `TtydTypes` (`TypeOK`).  `RegisteredRecorded`, that what is registered and runs is in a
run file, is what a restart and an unregistering kill rely on: the registry alone
would leave a process with nothing when the server stops.  A step that drops a run
file's last mention drops that of a process that is dead, or puts it in the history.
`RelaysAreReal` needs `RightPlaces`: a relay is given back by the session's name, so it
must be known that the process a handler took it from, and the one registered by now,
serve that session; then a counted relay belongs to a handler that is still there, by
counting the handlers (`FiniteAssumption`).

`ProcessesProofs`, of `Upgrade`: `SourcesAreTold` (`SourcesNeverSilent`), `SuccessServesNew`
(`SuccessIsServed`) and `HealthyAreLeft` (`HealthyIsLeft`, an action property).  `MovesTold` holds at every step of a
command, because each installer's run is compared with what was recorded, `ensure_agent`
of the new release included, or the upgrade has failed on the version and says so
(`SaidFails`).  For a success, `StoppedFirst`: between its stop and its
start the job is not on, so a start that found it on would have been an error, and
what was launched since is new (`ServesNew`); `MovedOn` and `NewerIsNewer` carry
`_verify_version_moved` to the end, past the agent's installation, which may only go
forward.  For the third, `FoundHold`: what a start has listed still holds the port, as
a process that ends leaves the lists, or was listed as a client, and `NothingHealthyMeant`:
what is listed by a start that may kill does not serve, or was asked in vain, for the probe
saw who served and a holder never serves again.

Assumptions: the named constants' (`MaxFollowups`, `MaxStamp`, `Threshold` and `Grace`
positive, the names of the special values are not names of sessions or devices, a
view's name is not a pair, the counts and bounds are natural numbers, there is a font,
handlers are finitely many, there is a process for a server that runs already);
`Grace <= Threshold` and `SameClocks` are hypotheses of the theorems that need them.

Only model-checked: liveness (`PrepareEnds`, `IdleIsReaped`, `PeersConverge`, `FlagIsCounted`,
`Recovers`, `LeftTurnsEnd`, `ServiceComesUp`, `LockIsFreed`), which with ENABLED is outside what TLAPS
proves.  Every safety property of a passing run is a theorem.  Of the further
configurations' properties that hold, `JournalResolved` (liveness) is only model-checked.

## 6. Not modelled

Components with status `not_modelled` in `PROJECT.json`: the browser's terminal (planned),
the rest of the browser (rendering and polling; its two stateful parts, the follow-up
panel and the chat's executor, are in `Followups` and `AgentChat`), the client library (calls
without state), terminal input (a classification of text), focus, authentication,
TLS and credentials (file access and library calls).

Inside modelled components: a view's rules and the order of lists, key normalisation
of owners, peers of older releases in the sync; order and clocks in a rename, the check
of `pending_restore` there; the text that is in a pane between typing and Enter;
`validate_socket_dir` and `reap_legacy_ttyd`; the clear the poll forwards to an active
remote; working directories and windows in the manifest; the write proxies of the
federation and a peer removed from the settings; the chat's runs of other clients,
which have no lease and no tools, and a handle whose `close()` raises (`runner.py:237`), which
is taken to have ended its turn; in the command line git sources at a commit, local and
archive sources, machines without a manager, doctor and what prints; in the store the
settings' meaning and validation, and hand edits during another process's operation,
which the lock's comment leaves out as well.  Renaming and locking a file is taken to
work.
