--------------------------- MODULE SteeringQueue ---------------------------
(***************************************************************************)
(* How the completion of a subagent run reaches the next model call of the *)
(* parent session: the third delivery path (subagent/announce/delivery.py),*)
(* the per-session queue in memory (announce/steering_queue.py) over its   *)
(* SQLite table (registry/pending_injections.py), the middleware that      *)
(* drains it before a model call, and the idle auto turn (auto_turn.py)    *)
(* that starts a turn with the completion, or puts it back.                *)
(* One session, one asyncio loop: a step is the code between two awaits,   *)
(* a SQLite statement a step of its own, in the database's thread.  The    *)
(* order of the items is left out: the queue is a set, keyed by run.       *)
(***************************************************************************)
EXTENDS Naturals, FiniteSets

CONSTANTS Runs,                \* the subagent runs of the session
          Stopped,             \* those the user stopped: never worth a turn of their own
          Parent,              \* the turn, as a caller of _ensure_hydrated
          Old,                 \* runs whose rows an earlier process left PENDING
          MaxCrash, MaxStop, MaxFault

ASSUME SteerAssumption ==
  /\ Stopped \subseteq Runs /\ Old \subseteq Runs /\ Parent \notin Runs
  /\ MaxCrash \in Nat /\ MaxStop \in Nat /\ MaxFault \in Nat

VARIABLES
  row,        \* status in pending_injections, per run; "none": no row
  mem,        \* runs in the deque of the session (and in by_run_id)
  hydrated,   \* the flag of the session's state
  hyd,        \* the hydration under way: its caller, and the rows it read
  enq,        \* progress of the routing of a run, and of its enqueue_steering
  last,       \* runs whose enqueue is not tried again
  announced,  \* runs routed since the process started
  missed,     \* those of them whose first query failed: never queued
  auto,       \* _INFLIGHT: the auto turn's runner and the run it carries
  turn,       \* the turn of the session, and its before_model
  taken,      \* what the drain took out of memory and has not returned
  todo,       \* what it has not marked consumed yet
  shown,      \* runs injected by a drain, ever
  direct,     \* runs whose completion opened an auto turn, ever
  bell,       \* runs left to the notification bell: idle, no websocket
  cut,        \* runs cut off by a stop or a crash, ever
  left        \* what is left of the environment's bounds
queue_vars == <<row, mem, hydrated, hyd>>
route_vars == <<enq, last, announced, missed, auto, bell>>
turn_vars  == <<turn, taken, todo, shown, cut>>
vars == <<queue_vars, route_vars, turn_vars, direct, left>>

NoHyd == [by |-> Parent, st |-> "off", rows |-> {}]
NoRun == [st |-> "off", run |-> Parent]
Bounds == {"crash", "stop", "fault"}

\* Type invariant: a drain holds items only while it marks them, and no caller
\* is in a hydration that it did not start (_ensure_hydrated).
SteerTypeOK ==
  /\ row \in [Runs -> {"none", "pending", "consumed"}]
  /\ mem \subseteq Runs /\ hydrated \in BOOLEAN
  /\ hyd \in [by : Runs \cup {Parent}, st : {"off", "asked", "read"}, rows : SUBSET Runs]
  /\ enq \in [Runs -> {"idle", "route", "load", "store"}]
  /\ last \subseteq Runs /\ announced \subseteq Runs /\ missed \subseteq announced
  /\ auto \in [st : {"off", "gate", "drive", "abandon"}, run : Runs \cup {Parent}]
  /\ turn \in {"idle", "begun", "rehydrate", "drain", "mark", "called"}
  /\ todo \subseteq taken /\ taken \subseteq Runs /\ shown \subseteq Runs
  /\ direct \subseteq Runs /\ bell \subseteq Runs /\ cut \subseteq Runs
  /\ left \in [Bounds -> Nat]
  /\ taken # {} => turn = "mark"
  /\ hyd.st # "off" => \/ hyd.by = Parent /\ turn \in {"rehydrate", "drain"}
                       \/ hyd.by # Parent /\ enq[hyd.by] = "load"

SteerInit ==
  /\ row = [r \in Runs |-> IF r \in Old THEN "pending" ELSE "none"]
  /\ mem = {} /\ hydrated = FALSE /\ hyd = NoHyd
  /\ enq = [r \in Runs |-> "idle"] /\ last = {} /\ announced = {} /\ missed = {}
  /\ auto = NoRun /\ turn = "idle" /\ taken = {} /\ todo = {}
  /\ shown = {} /\ direct = {} /\ bell = {} /\ cut = {}
  /\ left = [b \in Bounds |-> CASE b = "crash" -> MaxCrash [] b = "stop" -> MaxStop
                                [] OTHER -> MaxFault]

Pending == {r \in Runs : row[r] = "pending"}
Spend(b) == left[b] > 0 /\ left' = [left EXCEPT ![b] = @ - 1]

\* detect_state, as the third path and the auto turn's gate read it.
Busy == turn # "idle" \/ auto.st # "off"

---------------------------------------------------------------------------
(* enqueue_steering: memory first, then the row *)

\* A caller that finds the hydration done, or another's under way, goes on.
MayPass == hydrated \/ hyd.st # "off"

Ask(p) == hyd' = [by |-> p, st |-> "asked", rows |-> {}]

Enter(r) ==
  \/ /\ MayPass
     /\ mem' = mem \cup {r} /\ enq' = [enq EXCEPT ![r] = "store"] /\ UNCHANGED hyd
  \/ /\ ~MayPass
     /\ Ask(r) /\ enq' = [enq EXCEPT ![r] = "load"] /\ UNCHANGED mem

\* The routing of r is over; with it the runner that was putting r back.
Leave(r) == /\ enq' = [enq EXCEPT ![r] = "idle"]
            /\ last' = last \ {r}
            /\ auto' = IF auto.run = r THEN NoRun ELSE auto

\* INSERT OR IGNORE, then the row is read back: a consumed one takes the
\* element out of memory again.
Store(r) ==
  /\ enq[r] = "store"
  /\ row' = [row EXCEPT ![r] = IF @ = "none" THEN "pending" ELSE @]
  /\ mem' = IF row[r] = "consumed" THEN mem \ {r} ELSE mem
  /\ Leave(r)
  /\ UNCHANGED <<hydrated, hyd, announced, missed, bell, turn_vars, direct, left>>

\* The element stays in memory.  What is not the fallback is followed by it, by
\* the same road; the fallback gives up, and so does a runner that puts its
\* injection back.
StoreFails(r) ==
  /\ enq[r] = "store" /\ Spend("fault")
  /\ IF r \in last
       THEN Leave(r) /\ UNCHANGED <<mem, hyd>>
       ELSE Enter(r) /\ last' = last \cup {r} /\ UNCHANGED auto
  /\ UNCHANGED <<row, hydrated, announced, missed, bell, turn_vars, direct>>

---------------------------------------------------------------------------
(* _route_completion_injection *)

\* store.get: a consumed injection is never routed again.
Announce(r) ==
  /\ r \notin announced /\ enq[r] = "idle" /\ auto.run # r
  /\ announced' = announced \cup {r}
  /\ enq' = [enq EXCEPT ![r] = IF row[r] = "consumed" THEN "idle" ELSE "route"]
  /\ UNCHANGED <<queue_vars, last, missed, auto, bell, turn_vars, direct, left>>

\* The query raises: it is only logged, and nobody routes the run again.
AnnounceFails(r) ==
  /\ r \notin announced /\ enq[r] = "idle" /\ auto.run # r /\ Spend("fault")
  /\ announced' = announced \cup {r} /\ missed' = missed \cup {r}
  /\ UNCHANGED <<queue_vars, enq, last, auto, bell, turn_vars, direct>>

\* A stopped run and a busy session: the next model call, with the fallback
\* still to come.  An idle one whose trigger is missing, refuses or raises: the
\* fallback.
RouteToQueue(r) ==
  /\ enq[r] = "route" /\ Enter(r)
  /\ last' = IF r \in Stopped \/ Busy THEN last ELSE last \cup {r}
  /\ UNCHANGED <<row, hydrated, announced, missed, auto, bell, turn_vars, direct, left>>

RouteToBell(r) ==
  /\ enq[r] = "route" /\ r \notin Stopped /\ ~Busy
  /\ bell' = bell \cup {r} /\ enq' = [enq EXCEPT ![r] = "idle"]
  /\ UNCHANGED <<queue_vars, last, announced, missed, auto, turn_vars, direct, left>>

RouteToTurn(r) ==
  /\ enq[r] = "route" /\ r \notin Stopped /\ ~Busy
  /\ auto' = [st |-> "gate", run |-> r] /\ enq' = [enq EXCEPT ![r] = "idle"]
  /\ UNCHANGED <<queue_vars, last, announced, missed, bell, turn_vars, direct, left>>

---------------------------------------------------------------------------
(* _run_auto_turn *)

\* Mutant: a runner that finds the session taken drops its injection.
AutoGate_Drops ==
  /\ auto.st = "gate"
  /\ \/ turn = "idle" /\ turn' = "begun" /\ direct' = direct \cup {auto.run}
        /\ auto' = [auto EXCEPT !.st = "drive"]
     \/ turn # "idle" /\ auto' = NoRun /\ UNCHANGED <<turn, direct>>
  /\ UNCHANGED <<queue_vars, enq, last, announced, missed, bell, taken, todo, shown, cut, left>>

\* One yield later: the session still idle, the turn starts with the
\* completion; taken by the user meanwhile, the completion goes to the queue.
AutoGate ==
  /\ auto.st = "gate"
  /\ \/ /\ turn = "idle" /\ turn' = "begun"
        /\ direct' = direct \cup {auto.run}
        /\ auto' = [auto EXCEPT !.st = "drive"]
        /\ UNCHANGED <<mem, hyd, enq, last>>
     \/ /\ turn # "idle" /\ Enter(auto.run)
        /\ auto' = [auto EXCEPT !.st = "abandon"]
        /\ last' = last \cup {auto.run}
        /\ UNCHANGED <<turn, direct>>
  /\ UNCHANGED <<row, hydrated, announced, missed, bell, taken, todo, shown, cut, left>>

---------------------------------------------------------------------------
(* a turn: abefore_model before each model call *)

TurnBegins ==
  /\ turn = "idle" /\ turn' = "begun"
  /\ UNCHANGED <<queue_vars, route_vars, taken, todo, shown, cut, direct, left>>

\* Under the lock of the session, everything at once.
Take(m) == /\ mem' = {} /\ taken' = m /\ todo' = m
           /\ turn' = IF m = {} THEN "called" ELSE "mark"

\* rehydrate, then drain.
BeforeModel ==
  /\ turn \in {"begun", "called"}
  /\ \/ MayPass /\ Take(mem) /\ UNCHANGED hyd
     \/ ~MayPass /\ Ask(Parent) /\ turn' = "rehydrate" /\ UNCHANGED <<mem, taken, todo>>
  /\ UNCHANGED <<row, hydrated, route_vars, shown, cut, direct, left>>

\* mark_consumed: only a PENDING row changes.
Mark(r) ==
  /\ r \in todo /\ todo' = todo \ {r}
  /\ row' = [row EXCEPT ![r] = IF @ = "pending" THEN "consumed" ELSE @]
  /\ UNCHANGED <<mem, hydrated, hyd, route_vars, turn, taken, shown, cut, direct, left>>

\* Mutant: an item whose row could not be marked is not returned.
MarkFails_Drops(r) ==
  /\ r \in todo /\ Spend("fault") /\ todo' = todo \ {r} /\ taken' = taken \ {r}
  /\ UNCHANGED <<queue_vars, route_vars, turn, shown, cut, direct>>

MarkFails(r) ==
  /\ r \in todo /\ Spend("fault") /\ todo' = todo \ {r}
  /\ UNCHANGED <<queue_vars, route_vars, turn, taken, shown, cut, direct>>

\* Every item is returned, and the middleware adds it to the messages.
Inject ==
  /\ turn = "mark" /\ todo = {}
  /\ shown' = shown \cup taken /\ taken' = {} /\ turn' = "called"
  /\ UNCHANGED <<queue_vars, route_vars, todo, cut, direct, left>>

TurnEnds ==
  /\ turn = "called" /\ turn' = "idle"
  /\ auto' = IF auto.st = "drive" THEN NoRun ELSE auto
  /\ UNCHANGED <<queue_vars, enq, last, announced, missed, bell, taken, todo, shown, cut, direct, left>>

\* Mutant: a stop leaves what the drain took behind.
Stop_KeepsTaken ==
  /\ turn # "idle" /\ auto.st # "drive" /\ Spend("stop")
  /\ turn' = "idle" /\ cut' = cut \cup taken
  /\ hyd' = IF hyd.by = Parent THEN NoHyd ELSE hyd
  /\ UNCHANGED <<row, mem, hydrated, route_vars, taken, todo, shown, direct>>

\* The user's stop cancels the turn at the await it is in; the auto turn is
\* not registered for it.
Stop ==
  /\ turn # "idle" /\ auto.st # "drive" /\ Spend("stop")
  /\ turn' = "idle" /\ cut' = cut \cup taken /\ taken' = {} /\ todo' = {}
  /\ hyd' = IF hyd.by = Parent THEN NoHyd ELSE hyd
  /\ UNCHANGED <<row, mem, hydrated, route_vars, shown, direct>>

---------------------------------------------------------------------------
(* _ensure_hydrated *)

\* list_pending reads the table.
HydrateRead ==
  /\ hyd.st = "asked" /\ hyd' = [hyd EXCEPT !.st = "read", !.rows = Pending]
  /\ UNCHANGED <<row, mem, hydrated, route_vars, turn_vars, direct, left>>

\* The caller goes on with the memory m: to append its run, or to take all.
GoOn(m) ==
  \/ hyd.by = Parent /\ Take(m) /\ UNCHANGED enq
  \/ /\ hyd.by # Parent
     /\ mem' = m \cup {hyd.by} /\ enq' = [enq EXCEPT ![hyd.by] = "store"]
     /\ UNCHANGED <<turn, taken, todo>>

Hydrated ==
  /\ hyd.st = "read" /\ hydrated' = TRUE /\ hyd' = NoHyd
  /\ GoOn(mem \cup hyd.rows)
  /\ UNCHANGED <<row, last, announced, missed, auto, bell, shown, cut, direct, left>>

\* Mutant: a failed read counts as a hydration.
HydrateFails_Settles ==
  /\ hyd.st # "off" /\ Spend("fault") /\ hydrated' = TRUE /\ hyd' = NoHyd
  /\ GoOn(mem)
  /\ UNCHANGED <<row, last, announced, missed, auto, bell, shown, cut, direct>>

\* The read failed: the next access tries again.  For the turn that is its
\* own drain, called next.
HydrateFails ==
  /\ hyd.st # "off" /\ Spend("fault")
  /\ \/ /\ turn = "rehydrate" /\ hyd.by = Parent
        /\ turn' = "drain" /\ Ask(Parent) /\ UNCHANGED <<mem, enq, taken, todo>>
     \/ /\ ~(turn = "rehydrate" /\ hyd.by = Parent)
        /\ GoOn(mem) /\ hyd' = NoHyd
  /\ UNCHANGED <<row, hydrated, last, announced, missed, auto, bell, shown, cut, direct>>

---------------------------------------------------------------------------
(* a new process on the same table *)

\* What the queue owes: in memory, on its way out of a drain, or in the table
\* of a process that has not read it.
held == mem \cup taken \cup (IF hydrated THEN {} ELSE Pending)

\* A shutdown that cancels a running auto turn still stores its injection; a
\* crash does not.
Restart(orderly) ==
  /\ Spend("crash")
  /\ row' = IF orderly /\ auto.st = "drive"
              THEN [row EXCEPT ![auto.run] = IF @ = "none" THEN "pending" ELSE @]
              ELSE row
  /\ cut' = cut \cup (held \ Pending)
  /\ mem' = {} /\ hydrated' = FALSE /\ hyd' = NoHyd
  /\ enq' = [r \in Runs |-> "idle"] /\ last' = {} /\ announced' = {} /\ missed' = {}
  /\ auto' = NoRun /\ turn' = "idle" /\ taken' = {} /\ todo' = {}
  /\ UNCHANGED <<shown, direct, bell>>

Route(r) == Announce(r) \/ AnnounceFails(r) \/ RouteToQueue(r) \/ RouteToBell(r) \/ RouteToTurn(r)
Enqueue(r) == Store(r) \/ StoreFails(r)
Turn == TurnBegins \/ BeforeModel \/ Inject \/ TurnEnds \/ Stop
Hydrate == HydrateRead \/ Hydrated \/ HydrateFails

SteerNext ==
  \/ \E r \in Runs : Route(r) \/ Enqueue(r) \/ Mark(r) \/ MarkFails(r)
  \/ AutoGate \/ Turn \/ Hydrate
  \/ \E orderly \in BOOLEAN : Restart(orderly)

SteerSpec == SteerInit /\ [][SteerNext]_vars

\* The loop runs every task that is ready and the store answers; that a run
\* completes, or that anybody starts a turn, is nobody's obligation.
SteerFair ==
  /\ \A r \in Runs : WF_vars(Store(r)) /\ WF_vars(Mark(r))
                     /\ WF_vars(RouteToQueue(r) \/ RouteToBell(r) \/ RouteToTurn(r))
  /\ WF_vars(AutoGate) /\ WF_vars(HydrateRead) /\ WF_vars(Hydrated)
  /\ WF_vars(BeforeModel) /\ WF_vars(Inject) /\ WF_vars(TurnEnds)
SteerFairSpec == SteerSpec /\ SteerFair

---------------------------------------------------------------------------
(* Properties *)

M == INSTANCE Mailbox WITH Runs <- Runs, held <- held, shown <- shown, cut <- cut

\* The queue over its table implements the mailbox: whatever hydrations,
\* enqueues, failures of the store and drains overlap, a message is dropped
\* only by a stop or a crash (`drain`: "items are always returned, never
\* silently dropped").
MailboxSpec == M!MailSpec

\* A completion whose routing is over is owed by the queue, carried by a
\* runner, seen, cut off, or was left to the bell: no outcome of the trigger,
\* no failed write and no failed hydration loses it
\* (`_route_completion_injection`).  Its first query is another matter: when
\* that fails the completion is never queued.
RoutedKept ==
  \A r \in announced \ missed :
    enq[r] = "idle" /\ auto.run # r => r \in held \cup shown \cup direct \cup bell \cup cut

\* If turns keep starting, what the queue owes is injected: neither a failed
\* hydration nor a row of an earlier process waits for ever.
TurnsDeliver ==
  []<>(turn = "begun") => \A r \in Runs : r \in held ~> r \in shown \cup cut
=============================================================================
