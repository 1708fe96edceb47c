------------------------------- MODULE Bells -------------------------------
(***************************************************************************)
(* Bells: how a ring in a tmux session becomes an unseen count, a request  *)
(* for attention and one advance of the session's follow-up queue.         *)
(*                                                                         *)
(* Two mechanisms observe one ring.  The alert-bell hook, if tmux has it,  *)
(* posts to the server (receive_bell); the window's bell flag, which tmux  *)
(* raises when no client watches the window and keeps until the window is  *)
(* made active, is read by every poll cycle.  The server remembers which   *)
(* flags it has seen (_bell_seen) and whether it registered the hook       *)
(* (_bell_hook_armed); both live in memory only, the bell entries in       *)
(* state.json.  The poll cycle holds state_lock from its enumeration to    *)
(* its save and reads one flag per await; the handlers are one step each.  *)
(*                                                                         *)
(* A bell entry is whether its unseen count is positive and whether it     *)
(* fired after it was last acknowledged (or never was): needs_attention    *)
(* asks nothing else of the count and the two times.  Which sessions a     *)
(* device is looking at is an input, chosen where the clear rule asks.     *)
(***************************************************************************)
EXTENDS Naturals, FiniteSets

CONSTANTS Names,      \* session names
          MaxRings,   \* bound: rings in a behaviour
          MaxUpheavals \* bound: sessions started after the first state, and
                      \* restarts of the server

ASSUME BoundsAssumption == {MaxRings, MaxUpheavals} \subseteq Nat

VARIABLES alive,     \* tmux: the sessions
          young,     \* those created since this server process started
          raised,    \* tmux: per session the ring that raised its flag, 0 if down
          hooked,    \* tmux: the alert-bell hook is set
          posts,     \* hook requests under way: <<session, ring>>
          armed,     \* _bell_hook_armed
          seen,      \* _bell_seen: names whose flag the last poll saw set
          bell,      \* state.json: per name the entry, or NoEntry
          poll,      \* the running poll cycle
          advancing, \* names with an advance of the queue under way
          rings,     \* number of rings so far
          upheavals, \* number of births and restarts so far
          history    \* what was counted and advanced, and what twice

tmuxVars   == <<alive, young, raised, hooked>>
serverVars == <<armed, seen, bell, poll, advancing>>
boundVars  == <<rings, upheavals>>
vars == <<tmuxVars, posts, serverVars, boundVars, history>>

-----------------------------------------------------------------------------
(* Values *)

NoEntry == [unseen |-> FALSE, fresh |-> TRUE, there |-> FALSE]

empty_bell == [unseen |-> FALSE, fresh |-> TRUE, there |-> TRUE]

Fired(e) == [unseen |-> TRUE, fresh |-> TRUE, there |-> TRUE]

Acknowledged(e) == [e EXCEPT !.unseen = FALSE, !.fresh = FALSE]

needs_attention(e) == e.unseen /\ e.fresh

NoPoll == [phase |-> "idle"]

LockFree == poll.phase \notin {"listed", "flags"}

\* Why the server may not remember a flag that it has seen and that is still up.
Excused == {"clear rule", "failed read", "restart"}

\* Ring r taken into account through `via`, for the poll's count or for the queue.
\* A second time by the same mechanism is recorded, unless it is excused.
Observe(h, what, r, via, why) ==
  LET o == <<what, r, via>>
  IN  IF o \in h.done THEN [h EXCEPT !.twice = @ \cup ({why} \ Excused)]
      ELSE [h EXCEPT !.done = @ \cup {o}]

\* Those whose flag is up.
Up(names) == {s \in names : raised[s] # 0}

Forget(h, names, why) ==
  [h EXCEPT !.forgot = [s \in Names |-> IF s \in names THEN why ELSE @[s]]]

-----------------------------------------------------------------------------
(* tmux and its users *)

Start(s) ==
  /\ upheavals < MaxUpheavals /\ s \notin alive
  /\ alive' = alive \cup {s} /\ young' = young \cup {s}
  /\ upheavals' = upheavals + 1
  /\ UNCHANGED <<raised, hooked, posts, serverVars, rings, history>>

\* The last session takes the tmux server with it, and its hook.
End(s) ==
  /\ s \in alive
  /\ alive' = alive \ {s} /\ young' = young \ {s}
  /\ raised' = [raised EXCEPT ![s] = 0]
  /\ hooked' = (hooked /\ alive' # {})
  /\ history' = Forget(history, {s}, "nothing")
  /\ UNCHANGED <<posts, serverVars, boundVars>>

\* A bell rings.  The hook fires always; the flag only if no client watches
\* the window, and a flag already up says nothing more.
Ring(s, watched) ==
  /\ rings < MaxRings /\ s \in alive
  /\ rings' = rings + 1
  /\ raised' = IF watched \/ raised[s] # 0 THEN raised
               ELSE [raised EXCEPT ![s] = rings']
  /\ posts' = IF hooked THEN posts \cup {<<s, rings'>>} ELSE posts
  /\ UNCHANGED <<alive, young, hooked, serverVars, upheavals, history>>

\* The window is made active.
Visit(s) ==
  /\ raised[s] # 0
  /\ raised' = [raised EXCEPT ![s] = 0]
  /\ history' = Forget(history, {s}, "nothing")
  /\ UNCHANGED <<alive, young, hooked, posts, serverVars, boundVars>>

\* curl fails silently.
PostLost(p) ==
  /\ p \in posts
  /\ posts' = posts \ {p}
  /\ UNCHANGED <<tmuxVars, serverVars, boundVars, history>>

-----------------------------------------------------------------------------
(* The handlers *)

\* _arm_bell_hook: set-hook needs a tmux server, and may fail with one.
ArmBellHook(ok) ==
  /\ ok => alive # {}
  /\ hooked' = (ok \/ hooked)
  /\ armed' = ok

\* From lifespan, once, and from POST /api/internal/setup-hooks.
SetupHooks(ok) ==
  /\ ArmBellHook(ok)
  /\ UNCHANGED <<alive, young, raised, posts, seen, bell, poll, advancing,
                 boundVars, history>>

\* mutant: the entry is changed without the lock.
ReceiveBellUnlocked(p) ==
  /\ p \in posts
  /\ posts' = posts \ {p}
  /\ bell' = [bell EXCEPT ![p[1]] = Fired(@)]
  /\ advancing' = advancing \cup {p[1]}
  /\ history' = [Observe(history, "advance", p[2], "hook", "posted twice")
                   EXCEPT !.owed = @ \cup {p[1]}]
  /\ UNCHANGED <<tmuxVars, armed, seen, poll, boundVars>>

\* The advance goes on after receive_bell gave the lock back.
ReceiveBell(p) ==
  /\ p \in posts /\ LockFree
  /\ posts' = posts \ {p}
  /\ bell' = [bell EXCEPT ![p[1]] = Fired(@)]
  /\ advancing' = advancing \cup {p[1]}
  /\ history' = [Observe(history, "advance", p[2], "hook", "posted twice")
                   EXCEPT !.owed = @ \cup {p[1]}]
  /\ UNCHANGED <<tmuxVars, armed, seen, poll, boundVars>>

\* From a browser that opens the session, or from a peer on its behalf.
ClearBell(s) ==
  /\ LockFree /\ bell[s].there
  /\ bell' = [bell EXCEPT ![s] = Acknowledged(@)]
  /\ history' = [history EXCEPT !.owed = @ \ {s}]
  /\ UNCHANGED <<tmuxVars, posts, armed, seen, poll, advancing, boundVars>>

AdvanceEnds(s) ==
  /\ s \in advancing
  /\ advancing' = advancing \ {s}
  /\ UNCHANGED <<tmuxVars, posts, armed, seen, bell, poll, boundVars, history>>

\* _bell_for_halt: a plain write, no advance.
AdvanceHalts(s) ==
  /\ s \in advancing /\ LockFree
  /\ advancing' = advancing \ {s}
  /\ bell' = [bell EXCEPT ![s] = Fired(@)]
  /\ history' = [history EXCEPT !.owed = @ \cup {s}]
  /\ UNCHANGED <<tmuxVars, posts, armed, seen, poll, boundVars>>

-----------------------------------------------------------------------------
(* The poll cycle *)

\* Before the lock: an unarmed hook is registered again.
PollBegins(ok) ==
  /\ poll.phase = "idle"
  /\ IF armed THEN ok /\ UNCHANGED <<armed, hooked>> ELSE ArmBellHook(ok)
  /\ poll' = [phase |-> "lock"]
  /\ UNCHANGED <<alive, young, raised, posts, seen, bell, advancing, boundVars,
                 history>>

\* An enumeration that fails ends the cycle.
PollFails ==
  /\ poll.phase = "lock"
  /\ poll' = NoPoll
  /\ UNCHANGED <<tmuxVars, posts, armed, seen, bell, advancing, boundVars,
                 history>>

PollEnumerates ==
  /\ poll.phase = "lock"
  /\ poll' = [phase |-> "listed", names |-> alive, young |-> young]
  /\ UNCHANGED <<tmuxVars, posts, armed, seen, bell, advancing, boundVars,
                 history>>

\* What a session without an entry starts with: a session created since the
\* server started rings at once, one that was there before does not.
SeededAlways(s) == Fired(empty_bell)   \* mutant: whatever its age
Seeded(s) == IF s \in poll.young THEN Fired(empty_bell) ELSE empty_bell

\* The sessions whose flags the cycle reads: those it enumerated.
PolledFromState == {s \in Names : bell[s].there}   \* mutant: those the state names
Polled == poll.names

\* Whether a transition is offered to the queue is decided before the flags are
\* read.
OnTransitionAlways == TRUE         \* mutant: armed or not
OnTransition == ~armed

\* The state is loaded after the panes were captured; entries of sessions that
\* are not listed go, sessions without one are seeded.
PollLoads ==
  /\ poll.phase = "listed"
  /\ poll' = [phase |-> "flags", names |-> poll.names, left |-> Polled,
              wired |-> OnTransition, believed |-> armed,
              candidates |-> {},
              bell |-> [s \in Names |-> IF s \notin poll.names THEN NoEntry
                                        ELSE IF bell[s].there THEN bell[s]
                                        ELSE Seeded(s)],
              owed |-> {s \in poll.young : ~bell[s].there}]
  /\ UNCHANGED <<tmuxVars, posts, armed, seen, bell, advancing, boundVars,
                 history>>

\* process_bell_flags, one session: a flag seen for the first time is a bell.  A
\* session that ended meanwhile shows no flag, and neither does one whose flag
\* tmux fails to tell (poll_bell_flag answers False to any error).
\* mutant: the hook, once armed, is trusted to deliver.
NewFlagUnarmed(s, told) == told /\ raised[s] # 0 /\ s \notin seen /\ ~armed
NewFlag(s, told)    == told /\ raised[s] # 0 /\ s \notin seen
FallenFlagOrNot(s, told) == s \in seen   \* mutant: a flag still up is forgotten too
FallenFlag(s, told) == (told => raised[s] = 0) /\ s \in seen

PollFlag(s, told) ==
  /\ poll.phase = "flags" /\ s \in poll.left
  /\ seen' = IF NewFlag(s, told) THEN seen \cup {s}
             ELSE IF FallenFlag(s, told) THEN seen \ {s} ELSE seen
  /\ poll' = [poll EXCEPT
        !.left = @ \ {s},
        !.bell[s] = IF NewFlag(s, told) THEN Fired(@) ELSE @,
        !.owed = IF NewFlag(s, told) THEN @ \cup {s} ELSE @,
        !.candidates = IF NewFlag(s, told) /\ poll.wired
                       THEN @ \cup {<<s, raised[s], history.forgot[s]>>} ELSE @]
  /\ history' = IF NewFlag(s, told)
                THEN [Forget(Observe(history, "count", raised[s], "poll",
                                     history.forgot[s]), {s}, "nothing")
                        EXCEPT !.unknown = IF hooked /\ ~poll.believed
                                           THEN @ \cup {raised[s]} ELSE @]
                ELSE IF told THEN history
                ELSE Forget(history, Up({s} \cap seen), "failed read")
  /\ UNCHANGED <<tmuxVars, posts, armed, bell, advancing, boundVars>>

\* apply_bell_clear_rule for the sessions `viewed` in full screen by somebody
\* active, and the save that ends the locked block.
ClearRule(viewed) == {s \in viewed : poll.bell[s].unseen}

\* The rest of the cycle, outside the lock: one candidate after the other.
Advancing(candidates) ==
  IF candidates = {} THEN NoPoll
  ELSE [phase |-> "advance", candidates |-> candidates]

PollSaves(viewed) ==
  /\ poll.phase = "flags" /\ poll.left = {}
  /\ viewed \subseteq poll.names
  /\ bell' = [s \in Names |-> IF s \in ClearRule(viewed)
                              THEN Acknowledged(poll.bell[s]) ELSE poll.bell[s]]
  /\ seen' = seen \ ClearRule(viewed)
  /\ poll' = Advancing(poll.candidates)
  /\ history' = [Forget(history, Up(ClearRule(viewed) \cap seen), "clear rule")
                   EXCEPT !.owed = ((@ \cap poll.names) \cup poll.owed)
                              \ ClearRule(viewed)]
  /\ UNCHANGED <<tmuxVars, posts, armed, advancing, boundVars>>

PollAdvances(c) ==
  /\ poll.phase = "advance" /\ c \in poll.candidates
  /\ poll' = Advancing(poll.candidates \ {c})
  /\ advancing' = advancing \cup {c[1]}
  /\ history' = Observe(history, "advance", c[2], "poll", c[3])
  /\ UNCHANGED <<tmuxVars, posts, armed, seen, bell, boundVars>>

\* The server stops and starts again: what is in memory is lost, tmux keeps its
\* sessions, their flags and the hook.
Restart ==
  /\ upheavals < MaxUpheavals
  /\ upheavals' = upheavals + 1
  /\ armed' = FALSE /\ seen' = {} /\ poll' = NoPoll /\ advancing' = {}
  /\ young' = {}
  /\ history' = Forget(history, Up(seen), "restart")
  /\ UNCHANGED <<alive, raised, hooked, posts, bell, rings>>

-----------------------------------------------------------------------------
(* Specification *)

Init ==
  /\ alive \in SUBSET Names /\ young = {}
  /\ raised = [s \in Names |-> 0]
  /\ hooked = FALSE /\ posts = {} /\ armed = FALSE /\ seen = {}
  /\ bell = [s \in Names |-> NoEntry]
  /\ poll = NoPoll /\ advancing = {}
  /\ rings = 0 /\ upheavals = 0
  /\ history = [done |-> {}, twice |-> {}, owed |-> {}, unknown |-> {},
                forgot |-> [s \in Names |-> "nothing"]]

Poll ==
  \/ \E ok \in BOOLEAN : PollBegins(ok)
  \/ PollEnumerates \/ PollLoads
  \/ \E s \in Names, told \in BOOLEAN : PollFlag(s, told)
  \/ \E viewed \in SUBSET Names : PollSaves(viewed)
  \/ poll.phase = "advance" /\ \E c \in poll.candidates : PollAdvances(c)

Next ==
  \/ \E s \in Names : Start(s) \/ End(s) \/ Visit(s)
  \/ \E s \in Names, watched \in BOOLEAN : Ring(s, watched)
  \/ \E p \in posts : PostLost(p) \/ ReceiveBell(p)
  \/ \E ok \in BOOLEAN : SetupHooks(ok)
  \/ \E s \in Names : ClearBell(s) \/ AdvanceEnds(s) \/ AdvanceHalts(s)
  \/ Poll \/ PollFails \/ Restart

\* _poll_loop runs a cycle every two seconds whatever a cycle raised; tmux does
\* not fail every enumeration, nor every read of one session's flag.  Nothing is
\* assumed of the users or of the network.
Fairness ==
  /\ WF_vars(Poll) /\ SF_vars(PollEnumerates)
  /\ \A s \in Names : SF_vars(PollFlag(s, TRUE))

Spec == Init /\ [][Next]_vars /\ Fairness

-----------------------------------------------------------------------------
(* Properties *)

Rings == 1..MaxRings
Mechanism == {"hook", "poll"}
Entry == [unseen : BOOLEAN, fresh : BOOLEAN, there : BOOLEAN]

\* Every variable has the shape its comment says.
TypeOK ==
  /\ young \subseteq alive /\ alive \subseteq Names
  /\ raised \in [Names -> 0..MaxRings] /\ hooked \in BOOLEAN
  /\ posts \subseteq Names \X Rings /\ armed \in BOOLEAN /\ seen \subseteq Names
  /\ bell \in [Names -> Entry] /\ advancing \subseteq Names
  /\ poll.phase \in {"idle", "lock", "listed", "flags", "advance"}
  /\ poll.phase = "flags" => /\ poll.bell \in [Names -> Entry]
                             /\ poll.left \subseteq poll.names
                             /\ poll.names \subseteq Names
  /\ history.done \subseteq {"count", "advance"} \X Rings \X Mechanism
  /\ history.owed \subseteq Names

\* A bell somebody is owed (a ring the server was told of, a halt of the queue, a
\* new session's seed) asks for attention until it is acknowledged or its session
\* has gone: no write of a handler is undone by the save of a poll cycle that
\* loaded the state before it, and no acknowledgement hides a later ring.
OwedAsksForAttention ==
  LockFree => \A s \in history.owed : needs_attention(bell[s])

\* And nothing else asks for it: an entry that needs attention is owed to
\* somebody, so that an acknowledged bell comes back only by a new ring, or by a
\* ring observed again for a reason SeenOnce knows.
NoIdleAlarm ==
  LockFree => \A s \in Names : needs_attention(bell[s]) => s \in history.owed

\* The poll counts a ring, and offers it to the queue, once for as long as its
\* flag stays up, but for three ways to forget that it saw the flag: the clear
\* rule forgets it while tmux still shows it, a read that fails is taken for a
\* flag that fell, and a restart forgets everything.
SeenOnce == history.twice = {}

\* A ring drains at most one item of the queue: the poll offers its transitions
\* to the queue only while the hook is not armed.  For both mechanisms to do it
\* takes a poll that reads the flag while tmux has a hook the server does not know
\* of: one set by the process before, or before a registration that failed.
AdvancedByOne ==
  \A r \in Rings : {<<"advance", r, "hook">>, <<"advance", r, "poll">>} \subseteq history.done
                   => r \in history.unknown

\* One ring is one bell, whichever mechanisms observe it and however often.
OncePerRing == SeenOnce /\ AdvancedByOne

\* A flag that is up and that no poll has taken into account is counted, unless
\* it falls first, whatever the hook, the handlers, failing enumerations and
\* failing reads do.
FlagIsCounted ==
  \A s \in Names, r \in Rings :
    (raised[s] = r /\ s \notin seen)
      ~> (raised[s] # r \/ <<"count", r, "poll">> \in history.done)

=============================================================================
