# A verification project for sherry_agent

TLA+ models of the parts of the agent server in which concurrency, crashes and
ordering decide whether a user's message is answered once, in order, and by one
turn at a time; whether the result of a subagent reaches its parent; and whether
a plan of subagents keeps its children. TLC checks them on small instances;
TLAPS proves most of the safety properties, and two refinements, for every
instance.

| module | models | source |
|---|---|---|
| `InputQueue` | the durable queue of user messages | `src/server/queue/user_input_queue.py` |
| `InputQueue_proofs` | proofs about it | |
| `TurnQueue` | submission, executors, drain loop, streams, user commands, auto turn, restart | `src/server/service/{input_queue_service,turn_runner,stream_driver,auto_turn,boot_recovery,interrupt_marker}.py`, `src/server/trigger/ws/messages.py` |
| `TurnQueue_proofs` | proofs about its table: types, and that it implements `InputQueue` | |
| `TurnClaims_proofs` | proofs about its turns: how often, in which order and by whom a message is fed | |
| `Lane`, `Lane_proofs` | a concurrency lane with a limit that changes | `src/runtime/lane/core.py` |
| `EffectLog`, `EffectLog_proofs` | restart-recovery effects: intents, workers, shadow mode | `src/runtime/effects/`, `src/server/service/effects/boot.py` |
| `Mailbox` | what the steering queue promises: an at-least-once mailbox | |
| `SteeringQueue`, `SteeringQueue_proofs` | a completion on its way into the parent's next model call | `src/agent/tools/subagent/announce/`, `src/agent/tools/subagent/registry/pending_injections.py`, `src/server/service/auto_turn.py` |
| `SubagentRun`, `SubagentRun_proofs` | the record of one subagent run and all who write it | `src/agent/tools/subagent/{registry,spawn,control,orphan,announce}/` |
| `TaskFlow`, `TaskFlow_proofs` | one task flow under concurrent tool calls | `src/agent/tools/taskflow/` |
| `MC*` | instances for TLC | |

## 1. The system

The server is one Python process with one asyncio event loop. A client's message
becomes a *turn*: a run of the agent graph (LangGraph, with a SQLite
checkpointer) whose chunks are streamed back. A session runs one turn at a time;
what arrives meanwhile waits in a durable queue. A turn may pause on a
human-in-the-loop (HITL) interrupt, be stopped, fail, or die with the process.

| component | state | operations | what makes it correct |
|---|---|---|---|
| user input queue | table `user_input_queue`, partial unique index | `enqueue`, `insert_claimed`, `claim_next`, `cancel_queued`, `update_payload`, `prioritize`, `mark_terminal`, `requeue_claimed`, `recover`, `delete_session` | one active row per client message id; the cap; FIFO with send-now; terminal is final |
| turn intake | a lock per session, the in-flight call | `submit_user_input` | dedup; busy sessions queue; idle ones start one turn |
| turn runner | executor and drain tasks, claimed row | `execute_batch`, `on_turn_finished`, `kick_drain`, `_drain_loop` | one stream; every claim settles; queued messages are served |
| stream of a turn | `_active_tasks`, `ANSWERING`, HITL flag, checkpoint | `drive`, `run`, `write_interrupted_marker`, `check_interrupt` | flags agree with the stream, whatever cancels it |
| websocket frames | the resume task | generation, stop, cancel_queued, send_now, hitl_response | stop and send-now race the end of a turn |
| auto turn | in-flight set, injection | `maybe_trigger_auto_turn`, gate, drive | never beside a user's turn, never in its task slot |
| boot recovery | checkpoints, table | `reconcile_at_boot` | claims go back, HITL flags are rebuilt |
| lanes | semaphore, counters, limit | `acquire`, `release`, `set_max`, `drain` | no lost wake-up, order, limit |
| effect intents | table `effect_intents`, worker's list | `enqueue`, `fetch_pending`, `mark_*`, `replay_pending`, worker tick | compare-and-set excludes double runs; every intent settles |
| subagent registry, delivery | the run record in memory and on disk, terminal lock, delivery mirror | complete, kill, steer, recover, sweep, announce | an outcome stands; a result is announced once, and in the end |
| steering queue | per-session queue over `pending_injections` | `enqueue_steering`, `drain`, `rehydrate`, `mark_consumed` | nothing routed is lost |
| task flow | a row with a revision, the dispatch lock, child sessions | dispatch, resume, replan, wait_all, cancel, fail, finish, sweeps | no running child is dropped; terminal is final |
| todo list | rows with revisions | update with expected revision | no lost update |
| file tools' locks | lock per path, read state | acquire, release, edit | writers excluded, stale reads refused |
| channels, cron, heartbeat, terminal, models, plugins, client | transport, schedules, processes | submit messages through the intake | not part of the core |

How they interact: the intake and the drain write queue rows and start
executors; an executor drives a stream, which sets the flags the intake reads
(busy detection) and, when it ends, calls `on_turn_finished`, which finalizes
the row and wakes the drain. Stop, send-now and a HITL answer cancel the task
registered in `_active_tasks`. The auto turn and the effect worker come from
background tasks. A subagent that ends completes its record, and the announce
flow routes the completion: into the parent's next model call (steering queue)
when the session is busy, into an auto turn when it is idle. A task flow spawns
subagents for its steps, and their announcements come back as resume calls.

The hard parts, each at its line, are the `hazards` of `PROJECT.json` (those that no
property covers say why): decisions
taken before an await and used after it, a task that is created but not yet
registered, cancellation at any await, the drain that is woken too early, the
HITL flag that trails the checkpoint, resends, and crashes.

## 2. The modules

### InputQueue

`rows` is the table, `now` a coarse clock. A row's position stands for
`(created_at, id)`. Every mutating method is one `BEGIN IMMEDIATE` transaction
and one action; a refusal or a no-op leaves the table alone and is a stuttering
step. The payload, the reply target and the names are left out. `"GONE"` marks a
row that the purge of its session deleted, so that positions stay.

### TurnQueue

EXTENDS `InputQueue`, so its actions *are* the store's operations, and
`StoreSpec` checked as a PROPERTY says that the turn machinery implements the
abstract queue: every row it touches, it touches as the store allows. One
session, a set `Sub` of submissions (a resend is one more submission with the
same key), and three further tasks: the drain loop, the HITL resume turn, the
auto turn.

A step is the code between two awaits of one coroutine. The store's writers run
in a thread and hold its lock, and a SQLite transaction, until they return; no
other writer's effect can fall between a transaction and the code that runs on
its result up to the next await, except a plain read, which therefore is a step
of its own (`FindActive`, `FindDelivered`, `PlaceholderCheck`, `Resolve`,
`Defer`, `ListMarked`). The five-step path of `submit_user_input` is
`AcquireLock`, `FindActive`/`FindDelivered`, `DetectState`, `PlaceholderCheck`,
`ReadInterrupt`, then `SubmitBusy` or `SubmitIdle`.

| location `pc[t]` | code |
|---|---|
| `slot`, `resolve`, `drive` | `_run_executor` waits for a MAIN lane slot, `_resolve_claim_rows`, adoption check |
| `adopt` | awaiting the live task it found |
| `spawned`, `prepare`, `stream`, `marker`, `voiding`, `wrapup` | the child: created, registered, streaming, writing the interrupt marker, voiding rows, `check_interrupt` and last frame |
| `joined`, `aborted` | the executor after its child returned or was cancelled |
| `defer`, `kick` | `on_turn_finished` |
| `check`, `claim`, `final` | `_drain_loop` |
| `gate` | the auto turn's check |

`parked` is the durable truth (the checkpoint holds an interrupt) and `hitl` the
flag in memory; they differ between the end of a stream and `check_interrupt`,
and after a crash of a session that boot recovery does not cover. `fed` is a
history variable: the messages that entered the graph, with the crashes still to
come at that time. `Restart(covered)` empties the memory and runs the boot
repair, which completes before the server accepts anything
(`src/server/__main__.py:251-254`); it covers only sessions that have a
checkpoint.

A stop that cancels a task has two outcomes, and the model leaves both open: the
`CancelledError` is absorbed in the stream, which writes the interrupt marker
and ends as if complete, or it is raised in the driver, which re-raises it.

### Lane

`active`, `queued` and the semaphore of Python 3.13 with its futures. A waiting
task takes two steps: its future is resolved or cancelled, and the task runs on
later. `sem` numbers the semaphores, because `set_max` replaces the object;
`pending` is the deferred replacement. `draining` is the injected check that
refuses newcomers.

### EffectLog

One row per key, with a generation. Callers either queue the effect (`exec`) or
record an intent and perform it themselves (`shadow`); workers fetch a list,
claim each row by compare-and-set, run the handler (any outcome, an exception
being a retry) and record the outcome by another compare-and-set. `Restart`
crashes at any point, under either mode, and replays what was in flight if
`RestartReplay` says so: `run_restart_recovery` does it only when the effects and
`effects.restart_replay` are switched on. A second worker stands for a second process on the same table, or a worker that a reload
left running.

### SteeringQueue and Mailbox

`mem` is the deque of the session in memory, `row` the table, `hyd` the one
hydration that may be under way with the rows it has read, `enq[r]` where the
routing of run r stands, `auto` the auto turn's runner, `turn` the parent's turn
and `taken`/`todo` what a drain has taken out of memory and what it still has to
mark. Every SQLite statement and every await is a boundary: an enqueue appends to
memory and stores its row later (`Enter`, `Store`), a drain marks item by item
(`Mark`) before it returns (`Inject`), a hydration merges rows it read earlier
(`HydrateRead`, `Hydrated`). `shown`, `direct`, `bell` and `cut` are history: what
was injected, what opened a turn of its own, what was left to the bell, what a
stop or a crash cut off. Each statement may fail: the insert of an enqueue
(`StoreFails`), the mark of a drain (`MarkFails`), the read of a hydration
(`HydrateFails`) and the query a routing starts with (`AnnounceFails`). The last
is outside the `try` of `_route_completion_injection` and its caller only logs it;
`missed` keeps the runs to which that happened.

`Mailbox` states the promise without any of this: a set `held` of messages, of
which none goes away but by being shown or cut off. The refinement (`M == INSTANCE Mailbox
WITH held <- held, ...` at the end of `SteeringQueue`) maps `held` to
what is in memory, taken, or pending in the table of a process that has not
hydrated; `shown` and `cut` are the same. It is checked as the property
`MailboxSpec` and proved as `QueueIsMailbox`.

### SubagentRun

One run. `set_run` replaces the whole record, so the model keeps the copy of each
writer: the snapshot of each announce flow (`flow[x].snap`), the completed record
of the terminal lock (`lock.base`), of a steer (`steer[a].snap`) and of the
sweeper's list (`sweep.snap`), next to `mem` and its row `disk`. `work` are the
background tasks of the generations; a steer cancels one and starts the next.

| part | code |
|---|---|
| `TakeSlot` .. `Cancelled`, `Complete` | `spawn/core.py` and `control/steer.py`: the task of a run; `complete_subagent_run` with its lock, its generation check and the hold of a kept result |
| `Deliver` .. `EndFlow`, `Unlock` | `announce/`: capture, content mirror, publication, the delivered mark; the end of the lock |
| `Kill`, `Steer`, `Replace`, `Restart`, `BuildFails` | `control/` |
| `ScheduleRecovery`, `WakeRecovery`, `Resume`, `ResumeRefused` | `orphan/recovery.py` |
| `List`, `Reconcile`, `Announce`, `Retry`, `Discard` | `registry/sweeper.py` and the scans of `registry/lifecycle.py` |
| `Age`, `Persist`, `Crash` | the clock, the flush, `restore_runs_from_disk` |

Three flows can be under way at once: the one the lock covers, the recovery's and
the sweeper's. `Disturb` spends one unit of a common budget for kills, steers,
recoveries, failures, long waits and crashes.

### TaskFlow

One flow row (`status`, `step`, `results`, `replans`) and the calls on it
(`call[c]`: what it read or decided, and whether the row was written since). A
revision number is only ever compared with the row's, so the model keeps the
comparison's result, `behind`. `ReRead` and `GiveUp` are
`update_flow_with_conflict_retry`. `lock` is `flow_dispatch_lock`, held from the
read of a dispatch (or of the wave after a resume) to its record. Children are
numbered as they are spawned; a spawn may fail.

What a caller passes is left open as far as the code leaves it open. `Resume`
takes any `child_session_key`: of a child that is over, of one that still runs, or
of none of this flow (`Foreign`). `Judge` stands for the caller's `step_outcome`,
the gates and the model's verdict: it either spawns a replacement or leaves the
step done, failed, skipped or blocked, which is chosen when it is written. The
result is written on the row as it then is, whatever child its step has then: that
is the code's choice, and the properties say what follows from it. `retry_count` is
one counter under two limits, that of the step's policy (`MaxRetry`) and that of the
judge (`JudgeRetry`). `Edit` is `taskflow_update_steps`: it replaces the list, so
steps come and go (`"absent"`), and a step that has neither been dispatched nor done
gets whatever key, count and policy the caller passes; `MayBecome` and `WellFormed`
are what `_merge_steps` and `validate_steps_list` refuse.

## 3. What is checked

Bounds are named in each `.cfg`. `CHECK_DEADLOCK FALSE` everywhere: the models
run out of their bounded environment, and an idle server is a legal state.

| run | instance | shows | states |
|---|---|---|---|
| `input_queue` | 2 sessions, 2 keys, 3 rows, cap 2, 1 tick | `StoreTypeOK`, `ActiveKeyUnique`, `CapRespected`, `TerminalFinal`, `ClaimInOrder` | 734,326 |
| `turn_pair` | 2 messages; one stop, one cancel or send-now, one HITL pause | `OneStream`, `ClaimHasOwner`, `DeliveredWasFed`, `FedInOrder`, `StoreSpec`; live: `ServedAfterTurn`, `ClaimSettles` | 17,946 |
| `turn_auto` | a message and its resend; one stop, one cancel or send-now, one auto turn | `TypeOK`; live: `ServedAfterTurn` | 30,949 |
| `turn_crash` | 2 messages and a resend, cap 1; one pause, one crash | `FedOnce`, `NeverIntoParked` | 90,557 |
| `lane` | 3 tasks, limit 1 or 2 changed twice | `LaneTypeOK`, `NoOrphan`, `NoIdlePermit`, `PermitsConserved`, `Fifo`, `AdmitsWithinLimit`; live: `NoStarvation` | 7,580 |
| `effects` | 2 keys (one without a handler), 2 workers, 2 generations, 2 attempts, 1 crash with replay, both modes | `EffectTypeOK`, `RunsBounded`, `DoneTookPlace`, `OneRunPerGeneration`, `NotRepeated`; live: `EffectSettles` | 247,222 |
| `steering` | 2 runs, one stopped by the user, one with an old row; one crash, one stop, one failing statement | `SteerTypeOK`, `RoutedKept`, `MailboxSpec`; live: `TurnsDeliver` | 197,233 |
| `subagent` | 3 generations, 2 tasks, 2 attempts of a delivery, 2 disturbances | `RunTypeOK`, `AnnouncedOnce`, `OutcomeStands`; live: `Told` | 105,781 |
| `flow` | 2 steps, one depends on the other; 2 calls, 2 children, 1 retry by the policy and 1 by the judge, 2 attempts of a write, 1 replan, 1 edit | `FlowTypeOK`, `TerminalStands`, `NoChildDropped` | 2,167,262 |

Why these bounds are enough to be interesting: two messages are the smallest
instance with a queue behind a running turn, and the races in the hazards list
that a property covers occur in it (the mutants show it: each property is broken by some
plausible slip in the code within the same bounds). Three messages are not a
safe extension, see the second disagreement below. Three rows let an
expired, a prioritized and a plain row compete for one claim; three tasks on one
slot give a holder, a woken waiter and a waiting one. Two runs in the steering
queue let one enqueue fall into the other's hydration or drain. Two disturbances
put a kill or a crash into a steer or a recovery, three generations let a second
steer follow the first. Two calls and two children are enough for a lost race and
for a replacement under the other call. `MaxEdit` bounds together what the callers
may do at will (a replan, an update, a wait, a rejected finish, a result of a child
that is not over), one of them per behaviour; an update may pass one of two steps
(`MCEditSteps`: one that claims a child and a retry it never had, one settled by
hand), keep or remove what is there.

### Fairness

`FairSpec` of `TurnQueue` asks weak fairness of every task's steps, because an
asyncio loop runs every task that is ready and the store's calls return; of the
lane slot, because holders leave it; of the stream's end, because a stream is
cut by stop, error or completion, so a stream that runs for ever is not
considered. It asks nothing of the user, of crashes, of a HITL answer that has
not been given, of the auto turn's trigger. `Lane` asks that holders leave and
that ready tasks run. `EffectLog` asks that workers go on and that time passes;
nothing forces an enqueue, a handler's success or a restart; `EffectSettles` says
in its formula that it assumes the replay at boot. `SteerFairSpec` asks
that the loop runs what is ready and the store answers, and leaves it to
`TurnsDeliver` itself to assume that turns keep starting. `RunFairSpec` asks the
same of the tasks, the flows and the recovery, and that the sweeper comes round;
kills, steers, failures and crashes are the environment's and bounded. `TaskFlow`
has no fairness: what its calls wait for is a model's decision.

### Where the code and its comments disagree

Each is a run that TLC must find violated.

* `turn_lost_wakeup` (`NoStranded`): `submit_user_input` decides that the
  session is busy, then awaits `list_active` and `enqueue`. If the running turn
  ends in between, the drain it wakes finds nothing and leaves; the row is then
  QUEUED in an idle session until the next turn ends. The comment in
  `src/server/trigger/ws/messages.py:354` promises that it is executed when the
  current turn finishes.
* `turn_three_streams` (`OneStream`): with three messages, the drain may claim
  the second while the third, which found the session idle just before, writes
  its CLAIMED placeholder; both executors see no registered live task and start
  a child. The comment in `src/server/service/turn_runner.py:497` says never two
  streams. With three messages and cap 3 the same confusion breaks
  `ClaimHasOwner` and `DeliveredWasFed`, because an executor guesses its row as
  the first CLAIMED one. The fact that breaks here is `OneClaim` (at most one
  CLAIMED row); section 4 proves that these two steps are the only ones that
  break it, and what holds as long as they do not.
* `effect_shadow` (`ShadowMarksDone`): shadow mode calls `mark_done` on an
  intent that was never claimed, and the compare-and-set asks for `in_flight`;
  the intent stays pending and would run again once execution is switched on.
  The same pattern stands in the other shadow call sites.

### Limits of what the passing runs say

The environment of each passing run is chosen so that the disagreements above do
not occur, and these further schedules, met while modelling, lie outside them:

* `NeverIntoParked` does not hold with a pause *and* a stop: a stop that lands
  between the stream's end and `set_hitl_pending` leaves the checkpoint parked
  with the flag down, and the drain that follows feeds the next message.
* The auto turn's gate and an idle submission can each see the session idle: an
  executor registers its child only when the child runs, and `insert_claimed`
  raises no signal the gate reads.
* Stopping an auto turn voids every CLAIMED row of the session, which may be one
  whose executor is about to run it.
* A session without a checkpoint is not among boot recovery's candidates, so a
  claim it held at the crash stays CLAIMED, and later submissions of the session
  queue behind it.
* Rows requeued at boot wait for the next turn's end: nothing wakes the drain.
* `set_max` with the same or a lower limit on a full lane seeds the new
  semaphore with one permit (its floor), so one task too many may hold a slot.
  No production code calls it. `AdmitsWithinLimit` says what does hold: raising
  a limit once never exceeds it.

Subagent completions (`SteeringQueue`):

* A hydration that read the table before an item was enqueued and drained merges
  the old row afterwards, and the item is injected again; the middleware's
  comment calls that impossible. The mailbox promises at-least-once.
* A drain may take an item before its row is inserted: the row is then PENDING,
  and is injected again after a restart.
* A stop in the middle of `mark_consumed` loses the items already marked and
  leaves the others to the next process, although `drain` says that items are
  never silently dropped. They count as `cut`.
* An item that was routed on a stale "busy" waits for the next turn.
* The query that starts a routing (`store.get`, `delivery.py:243`) may fail. The
  failure is only logged (`delivery.py:306`), and the completion is never queued:
  `RoutedKept` excepts it (`missed`). Failing inserts, marks and hydrations lose
  nothing. `StoreFails` lets a routing whose first enqueue fails try the fallback
  once, and the fallback not again.

Run records (`SubagentRun`), all by a copy that is older than the record, which
is why `OutcomeStands` is stated of the steps in which nobody holds one:

* The last `set_run` of a kill writes the record from before its announcement:
  DELIVERED goes back to PENDING.
* A kill during a steer is undone when the steer writes its copy back, and it
  retires the tracker's expected generation, so that the old task's callback
  completes the new generation.
* The content mirror remembers attempts. After a failed first attempt a retry is
  reported as delivered, and the record stays in progress (`Told` speaks of
  completions that have not been attempted). Outcomes without a text share one
  key per generation.
* A steer whose child cannot be built leaves the run suppressed for good.
* The `finally` of a steered task unregisters whichever task is registered then.
* The sweeper's lists are older than the awaits between their items: an OK turns
  into TIMEOUT, a DELIVERED into PENDING. A run may be reconciled as stale after
  3600 s although `run_timeout_max` is 7200 s.

Task flows (`TaskFlow`):

* A replan that loses the race writes, on the fresh row, the steps it merged from
  its first read. `NoChildDropped` is therefore stated of writes that lost none.
* `taskflow_resume` does not ask whether the child it is given a result of is over:
  a resume of a live child (`step_outcome=skipped`, say) settles its step, or
  replaces the child. `NoChildDropped` excepts the step of just that child.
* `taskflow_update_steps` may leave a step in flight out of the list (it warns), or
  settle it; it is a write of another kind, and `NoChildDropped` is not about it.
  It may also give one key to two steps, or reset a retry count, so neither the
  uniqueness of the keys nor a bound on the retries of a step is claimed.
* The limits of policy and judge count in one `retry_count`: a policy of one retry
  may see two. A redispatch that lost its first write is not counted.
* Two resumes of one child may both spawn a replacement; a child spawned by a
  dispatch whose record loses every attempt stays unrecorded.
* wait_all's retries replace whichever child a step has by then, and, like the
  wave of a resume, do not ask whether the flow is terminal
  (`taskflow_finish`: "no further mutations are accepted"). `TerminalStands`
  excepts just these two writers.
* A step that the judge blocked while its dependencies are done is READY again by
  the same write; a step that a replan keeps BLOCKED behind done dependencies
  becomes ready only with the next result.

## 4. What is proved

Each proof is of the specification, for every value of the constants that
satisfies the named assumption of its module, and along one inductive invariant.

`InputQueue_proofs`, for every value of the constants that satisfies
`QueueAssumption` (positive capacity and TTL, `NoKey` not a key):

| theorem | states |
|---|---|
| `TypeCorrect` | `StoreSpec => []StoreTypeOK` |
| `KeysStayUnique` | `StoreSpec => []ActiveKeyUnique` |
| `CapHolds` | `StoreSpec => []CapRespected` |
| `TerminalStaysFinal` | `StoreSpec => TerminalFinal` |
| `ClaimsInOrder` | `StoreSpec => ClaimInOrder` |

The invariant is `QueueInv`, the conjunction of the three state properties:
each needs the type invariant, and the other two are inductive with it. The
argument is that of `StepShape`: a step either rewrites rows in place, where no
row changes its session or key, becomes active, or leaves a terminal state
except to be purged (`Rewrites`), or adds one row behind the two guards of the
insert (`Adds`). Uniqueness, the cap and finality follow from that shape alone,
so that an operation added to the store only has to be fitted into one of the
two forms. That the claim picks a row of the set it ranks (`FirstIsAhead`) rests
on a least element of a set of row numbers, by the well-foundedness of `<`.

`TurnQueue_proofs`, for every value of the constants that satisfies also
`TurnAssumption` (the three tasks differ from each other, from the submissions
and from `None`; the bounds are natural numbers), hence for any number of
submissions, any assignment of keys, any capacity, and any number of stops,
edits, auto turns, pauses and crashes:

| theorem | states |
|---|---|
| `TurnTypeCorrect` | `Spec => []TypeOK` |
| `TurnImplementsQueue` | `Spec => StoreSpec` |
| `TurnsKeepKeysAndCap` | `Spec => [](ActiveKeyUnique /\ CapRespected)` |
| `TurnsKeepFinality` | `Spec => TerminalFinal /\ ClaimInOrder` |

The invariant `TurnInv` strengthens `TypeOK` by three facts without which it is
not inductive. `RowsAccepted`: every row answers a submission, so the drain,
which feeds the message of the row it claimed, always finds one. `DrainHasRow`:
a drain past its claim knows its row, whichever of its awaits a stop hits, so
that its last step (`Finalize`) marks a row that exists. `BudgetOK`: crashes
only use their bound up. Every action then has a lemma that it keeps the types,
and `StepIsStoreStep` shows that it does to the table what one transaction of
the queue does, or nothing; the last two theorems follow from those of
`InputQueue_proofs` without looking at a single turn step again.

`TurnClaims_proofs` builds on it, under the same assumptions. Without any
further hypothesis:

| theorem | states |
|---|---|
| `MessagesFedOnce` | `Spec => []FedOnce` |
| `SecondClaimsAreStale` | `Spec => SecondClaimIsStale` |

`FedOnce` says that a client message (two submissions are the same message when
they have the same `client_msg_id`, `SameMessage`) enters the graph once, unless
one of its copies was voided or a crash put it back in the queue. Its invariant
`FedInv` follows a row from the dedup to the graph: submissions between the lock
and their answer exclude each other, and one that is past the dedup saw every
earlier copy voided (`Deduped`), so of two rows with one id one is voided
(`OneCopy`); a message on its way is not also queued, nor carried by its executor
and by the drain at a time (`OneCarrier`); once it was fed nothing that could feed
it has its row (`FedDone`); the crashes between two feeds are counted by the
budget each recorded (`FedApart`). `RowsLive` and `RowsNamed` say that rows keep
their session and answer one submission. Every step is one of six kinds
(`StepKind`: a turn goes on, the drain takes a row, the process starts over, a
submission goes on or writes, an executor feeds), fitted once in `StepHasKind`;
invariants are kept kind by kind.

What else should hold of the turns does not hold of every schedule, and the second
disagreement is why. The hypothesis of the next group names what goes wrong,
as a state predicate that is about the stale decisions and not about the
properties: `Orderly` is

* `OneClaim`: the session has at most one CLAIMED row. `SecondClaimsAreStale`
  proves that only two steps lose it, both made while another row is CLAIMED: the
  drain's claim, and an idle submission's write of its placeholder. No stop, marker,
  adoption, resume, error or restart does.
* `AutoCutAlone`: an auto turn is not cut while a row is CLAIMED beside it (its
  marker would void that row, see the limits above).

| theorem | states |
|---|---|
| `ClaimInvariant` | `Spec => ([]Orderly => []ClaimInv)` |
| `DeliveredMeansFed` | `Spec => ([]Orderly => []DeliveredWasFed)` |
| `ClaimsOwned` | `Spec => ([]Orderly => [](budget["crash"] = MaxCrash => ClaimHasOwner))` |
| `MessagesStreamAlone` | `Spec => ([]Orderly => []MessagesAlone)` |
| `FedInAcceptedOrder` | `Spec => ([]InLine => [](budget["crash"] = MaxCrash => FedInOrder))` |

The hypothesis is met: TLC finds `Orderly` (and `ClaimInv`, `FedInv` and
`MessagesAlone`) invariant on the instances of `turn_pair` and `turn_crash`, and
`OneClaim` on that of `turn_auto`, where `AutoCutAlone` fails for the reason given
in the limits. On the instances where part of it fails, `turn_auto` and
`turn_three_streams`, TLC still finds `ClaimInv` in every state reached through
orderly ones. For two kinds of configuration it is not needed:

| theorem | assumes | states |
|---|---|---|
| `OneSlotIsOrderly` | `Cap = 1`, no auto turn | `Spec => []Orderly` |
| `OneSlotSafe` | `Cap = 1`, no auto turn | `Spec => [](DeliveredWasFed /\ MessagesAlone)` |
| `OneClaimOneStream` | no auto turn, no HITL pause | `Spec => ([]OneClaim => []OneStream)` |
| `OneSlotOneStream` | `Cap = 1`, no auto turn, no HITL pause | `Spec => []OneStream` |

`ClaimInv` says that an executor's row is the one of the message it was started for
although it guesses it: a task that carries a row carries a CLAIMED one
(`HolderHasClaim`), with `OneClaim` therefore the only one, which is its own
(`SubmissionHasRow`, `IdleDrain`); the marker voids no other (`MarksOwn`); the task
a stop cancels is one whose child has started (`ActiveStarted`), so that a cancelled
turn has streamed what it marks (`StreamedOwn`); what it leaves behind is settled
(`SettledOwn`). `DeliveredWasFed` and `Owned` are inductive with these. `Moves` is
the form into which nearly all steps of a turn fit. `InLine` adds to `Orderly` what
legally changes the order: nothing is sent ahead (`NoneSentAhead`), and an idle
submission writes its placeholder only while nothing is queued (`IdleFindsNone`; it
can be violated when a turn ends before the woken drain claims: the new message
then runs first). `OrderInv` adds to the order of what was fed that nobody ahead of
a row that has left the queue for a turn is still queued, and nobody ahead of one
that was fed is still active. `IdleFindsNone` holds on the
instances of `turn_pair` and `turn_auto`. On that of `turn_three_streams` it fails,
and `OrderInv` holds in every state reached in line, among them states in which
all three messages were fed.

`Lane_proofs` (`LaneAssumption`: positive limits; any number of tasks and
changes):

| theorem | states |
|---|---|
| `LaneTypeCorrect` | `Spec => []LaneTypeOK` |
| `NobodyOrphaned` | `Spec => []NoOrphan` |
| `WakeUpsKept` | `Spec => []NoIdlePermit` |
| `SlotsInOrder` | `Spec => Fifo` |
| `PermitsAreConserved` | `Spec => []PermitsConserved` |
| `RaisedLimitHolds` | `Spec => AdmitsWithinLimit` |

`LaneInv` adds that a task is parked once and that the woken ones have nobody
waiting before them; without that order neither a cancellation (which passes its
permit on) nor `Fifo` goes through. `SupplyInv` adds up the permits: held, given
out and free, they make the limit, or the first limit as long as a raise waits for
the queue to empty. The two theorems on permits follow; the counting rests on
`WakeGives` and `WithoutGives`, which say what waking and leaving do to the number
of futures that hold a permit.

`EffectLog_proofs` (`EffectAssumption`: finitely many workers, at least one; any
number of keys, generations, attempts and crashes):

| theorem | states |
|---|---|
| `EffectTypeCorrect` | `Spec => []EffectTypeOK` |
| `OneWorkerRuns` | `Spec => []OneRunPerGeneration` |
| `DoneIsTrue` | `Spec => []DoneTookPlace` |
| `AttemptsBounded` | `Spec => []RunsBounded` |
| `NoSecondEffect` | `Spec => NotRepeated` |

`EffectInv` says what a worker's list may still hold of a row that has moved on
(`Listed`), that a row is in flight while a worker holds its generation, and only
then unless a crash without replay left it so (`Claimed`), that a handler that
answered "done" did it (`Answered`), and counts: the runs of a generation that is
not over are at most its recorded attempts, the one in flight and one per crash
(`Counted`), and once the attempts are used up each further run spends an old list
of another worker (`Spent`), which is where the bound's `Cardinality(Worker) - 1`
comes from. The theorems hold with and without the replay at boot.

`SteeringQueue_proofs` (`SteerAssumption`; any number of runs, stops, crashes and
failing statements):

| theorem | states |
|---|---|
| `SteerTypeCorrect` | `SteerSpec => []SteerTypeOK` |
| `CompletionKept` | `SteerSpec => []RoutedKept` |
| `QueueIsMailbox` | `SteerSpec => MailboxSpec` |

`SteerInv` adds four facts: the auto turn carries a run (`RunnerCarries`), a
consumed row was taken by a drain (`ConsumedSeen`), a run whose row is being
stored is in memory or was taken (`StoredEntered`), and a hydration that has read
the table has every row still pending that is not in memory and was not taken
(`ReadCovers`). The
refinement is proved step by step from them.

`SubagentRun_proofs` (`RunAssumption`; any number of generations, tasks, retries
and disturbances):

| theorem | states |
|---|---|
| `RunTypeCorrect` | `RunSpec => []RunTypeOK` |
| `PublishedOnce` | `RunSpec => []AnnouncedOnce` |
| `OutcomeKept` | `RunSpec => OutcomeStands` |

`RunInv` adds to the types and the lock: every copy of the record that says
"delivered" is of a generation that was published (`CopiesTrue`); a flow that is
about to publish has entered the mirror, alone, and nothing has been published
for its key (`Attempts`); a steer's copy is of an interrupted run and the
reconciliation's of a live one (`CopiesLive`). The last is what makes a write of
a copy that agrees with the record harmless to an ended run.

`TaskFlow_proofs` (`FlowAssumption`; any finite set of steps with any
dependencies, any calls and bounds):

| theorem | states |
|---|---|
| `FlowTypeCorrect` | `FlowSpec => []FlowTypeOK` |
| `TerminalIsFinal` | `FlowSpec => TerminalStands` |
| `RunningKept` | `FlowSpec => NoChildDropped` |

`FlowInv` adds to the types (`Typed`) and to the lock (`LockHeld`) what each call may
still rely on (`CallsOK`): as long as the row is the one it read, the steps of a
dispatch are not in flight (`SendOK`), the step of a result has the child it is of
(`BringOK`), a plan has every step in flight as it is (`PlanOK`), and the calls that
asked whether the flow is over know that it is not (`OpenOK`); in any case the counts
a call will write are within their limits (`RetryOK`), and the children it carries
were spawned for this flow (`GotOK`). A write leaves every other call behind, so it
has to keep these facts of its own call only. Nothing is needed about which steps
share a key.

Only model-checked:

* `NeverIntoParked` of `TurnQueue`. It holds within the environment of its run
  only: a stop between the pause and its flag, an adoption, or a write on a stale
  idle decision each break it beyond, and a hypothesis that excludes all three
  would say little more than the property.
* `OneStream` with HITL pauses or auto turns: a resumed turn and an auto turn own
  no row, so what keeps them apart from the others is the registered task and the
  gate, each of which has a window (limits above).
* `DeliveredWasFed`, `ClaimHasOwner` and `FedInOrder` without their hypotheses, in
  the environments of their runs: for arbitrary constants they are false, as the
  second disagreement shows.
* Every liveness property: liveness under fairness is out of TLAPS's reach.

## 5. What is not modelled

* In `TurnQueue`: the channel executor and an unregistered executor (FAILED
  rows), `continue_generation`, `edit_message`, `resume_stream`; store writes
  or an interrupt probe that fail; the promotion of parked settings; the clock
  (expiry is checked in `InputQueue`); other sessions' use of the MAIN lane
  (the wait for a slot is a step that takes as long as it likes); the 5 s cap on
  waiting for a cancelled task; child runs; the message history itself
  (`heal_dangling_turns`). A submission refused by a draining lane at shutdown.
* In `Lane`: the change of the event loop, `drain()`'s polling, the registry.
* In `EffectLog`: the order and limit of a fetch, the length of the backoff, the
  purge, the handlers' own idempotence, the fallback when an enqueue fails.
* In `SteeringQueue`: the order of the items and their text, other sessions.
* In `SubagentRun`: the arbitration between a kill and a late completion
  (`kill_reconciliation`), `aborted_last_run`, silent replies, descendants, swarm
  groups, cleanup and archive, the caps on suspended deliveries, a delivery given
  up after 24 hours, failed runs that left a text. The publication's third path is
  `SteeringQueue`; the flush of a row is atomic.
* In `TaskFlow`: `taskflow_run_task`, `taskflow_create` and `taskflow_plan`, the
  pruning, budgets and tokens, the counters of the finish gates (the write that
  records them is `FinishRejected`), a caller's stale `expected_revision`, which is
  refused, a restart, and the list order in which `unlock_dependents` lets a skip
  cascade further within one pass (the model unlocks one level per write). Assumed:
  every policy has the same `max_retries`; a count past both limits is like one at
  the higher; the planner names each step once; a caller passes no empty key;
  `auto_dispatch_all_ready_on_resume` has its default. The children that `AutoFail`
  kills one by one after its write (if `auto_kill_on_detach` is on) end in the model
  by `ChildEnds`, in any order.
* Of the system: the components listed as not modelled in `PROJECT.json`, with
  their reasons.

## 6. Plan

Done: the modules of section 2 and their proofs. Left, in this order:

1. Proofs: `Lane` as the implementation of an abstract pool of slots, from
   `SupplyInv`; what `NoChildDropped` leaves open in `TaskFlow` (which child a lost
   race may drop) as an action property of its own.
2. Extend `TurnQueue`: failing store writes, parked settings, shutdown with a
   draining lane, and the expiry's clock.
3. `PathLock` for the file tools and the todo list's revisions, as small modules
   over an abstract register.
4. `SubagentRun` over `SteeringQueue`: the third path composed, so that "told"
   becomes "injected"; cascades of a kill over descendants.
