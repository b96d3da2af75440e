---------------------------- MODULE SubagentRun ----------------------------
(***************************************************************************)
(* The record of one subagent run (agent/tools/subagent) and those who     *)
(* write it: its background tasks (spawn/core.py), a kill, a steer, the    *)
(* recovery of an orphan, the sweeper, and the announce flow each of them  *)
(* may carry.  set_run replaces the whole record, so a writer that held a  *)
(* copy across an await puts back what it read: every actor's copy is a    *)
(* part of the state here.  A step is the code between two awaits of the   *)
(* one asyncio loop.  A task is named by the generation it was started in. *)
(***************************************************************************)
EXTENDS Naturals, FiniteSets

CONSTANTS MaxGen,            \* bound on the generations of the run
          AnnounceRetryMax,  \* announce_retry_max: attempts of one delivery
          MaxTasks,          \* bound on the background tasks alive at a time
          MaxDisturb         \* kills, steers, recoveries, long waits, failures and crashes, in all

ASSUME RunAssumption ==
  /\ MaxGen \in Nat \ {0} /\ AnnounceRetryMax \in Nat \ {0}
  /\ MaxTasks \in Nat \ {0} /\ MaxDisturb \in Nat

Gens     == 1..MaxGen
Tasks    == 1..MaxTasks      \* 1 is the spawned one, the others are of steers
Killer   == 0                \* the lock's holder, when it is kill_subagent_run
Nobody   == MaxTasks + 1
Outcomes == {"ok", "failed", "killed", "timeout", "unstarted"}
Record   == [st   : {"pending", "running", "interrupted", "terminal"},
             gen  : Gens,
             out  : Outcomes \cup {"none"},
             dlv  : {"pending", "progress", "delivered", "failed", "suspended", "discarded"},
             supp : BOOLEAN,   \* suppress_announce_reason is set
             old  : BOOLEAN,   \* started over an hour ago: stale
             keep : BOOLEAN]   \* cleanup == "keep"
Steerers == {"user", "recovery"}
Flows    == {"lock", "recovery", "sweep"}   \* who carries an announce flow
Scans    == {"reconcile", "announce", "retry"}

VARIABLES
  mem,     \* the record in memory
  disk,    \* its row in subagent_runs
  work,    \* the background tasks: where each is, the generation it calls back for
  task,    \* the task registered for the run; 0: none
  expect,  \* the generation the terminal tracker expects; 0: none
  lock,    \* holder of the terminal lock, and the record it has completed
  flow,    \* the announce flows under way: where each is, the copy it works on
  steer,   \* the steers under way, and the copy each has
  rec,     \* the recovery task of the run
  sweep,   \* the sweeper's loop under way, and the copy its list holds
  mirror,  \* _delivery_mirror: what a delivery was attempted for
  keys,    \* _delivered_keys
  sent,    \* how often a completion was published since the process started
  told,    \* the completions ever published
  left     \* what is left of the environment's bounds
run_vars   == <<mem, disk>>
task_vars  == <<work, task, expect, lock>>
told_vars  == <<mirror, keys, sent, told>>
vars == <<run_vars, task_vars, flow, steer, rec, sweep, told_vars, left>>

Live(r)  == r.st # "terminal"
Key(r)   == <<r.gen, r.out = "ok">>   \* only a run that went well left a text
First(k) == [st |-> "pending", gen |-> 1, out |-> "none", dlv |-> "pending",
             supp |-> FALSE, old |-> FALSE, keep |-> k]
NoFlow   == [pc |-> "off", snap |-> First(FALSE), n |-> 0]
NoSteer  == [pc |-> "off", snap |-> First(FALSE)]
NoRec    == [pc |-> "off", saw |-> {}]
NoSweep  == [scan |-> "off", snap |-> First(FALSE)]
Free     == [by |-> Nobody, base |-> First(FALSE)]
NoTask   == [pc |-> "off", cb |-> 0, out |-> "ok", hit |-> FALSE]
Disturb  == left > 0 /\ left' = left - 1

\* register_run and register_task are done: the task waits for its lane slot.
RunInit ==
  /\ mem \in {First(k) : k \in BOOLEAN} /\ disk = mem
  /\ work = [g \in Tasks |-> IF g = 1 THEN [NoTask EXCEPT !.pc = "lane"] ELSE NoTask]
  /\ task = 1 /\ expect = 1 /\ lock = Free
  /\ flow = [x \in Flows |-> NoFlow] /\ steer = [a \in Steerers |-> NoSteer]
  /\ rec = NoRec /\ sweep = NoSweep
  /\ mirror = {} /\ keys = {} /\ told = {}
  /\ sent = [k \in Gens \X BOOLEAN |-> 0]
  /\ left = MaxDisturb

---------------------------------------------------------------------------
(* complete_subagent_run *)

Close(r, o) == [r EXCEPT !.st = "terminal", !.out = o]

\* run_subagent_announce_flow up to its first await; where it declines, its
\* caller goes on with what follows.
Open(x, r) ==
  flow' = [flow EXCEPT ![x] =
    [pc   |-> IF ~Live(r) /\ r.dlv # "delivered" /\ ~r.supp THEN "capture" ELSE "after",
     snap |-> r, n |-> 0]]

\* A callback older than the generation that is expected is stale.
Stale(g) == expect # 0 /\ g < expect

Refused(g) == lock # Free \/ Stale(g)

\* Mutant: a completion overwrites the outcome of an ended record.
Complete_Overwrites(by, g, o) ==
  LET r == Close(mem, o)
  IN IF Refused(g)
       THEN UNCHANGED <<run_vars, expect, lock, flow>>
       ELSE /\ expect' = 0 /\ disk' = r /\ mem' = r
            /\ lock' = [by |-> by, base |-> r] /\ Open("lock", r)

\* What a completion by `by` with outcome o does, generation g being checked.
\* An ended record keeps its outcome, and is announced again.
Complete(by, g, o) ==
  LET r     == IF Live(mem) THEN Close(mem, o) ELSE mem
      holds == r.keep /\ r.out = "ok" /\ r.dlv = "pending" /\ ~r.supp
  IN IF Refused(g)
       THEN UNCHANGED <<run_vars, expect, lock, flow>>
       ELSE /\ expect' = 0
            /\ disk' = IF Live(mem) THEN r ELSE disk
            /\ IF holds
                 THEN /\ mem' = [r EXCEPT !.dlv = "suspended"]
                      /\ UNCHANGED <<lock, flow>>
                 ELSE /\ mem' = r /\ lock' = [by |-> by, base |-> r] /\ Open("lock", r)

---------------------------------------------------------------------------
(* A background task *)

At(g, pc) == work[g].pc = pc /\ ~work[g].hit

\* The lane slot is held: PENDING becomes RUNNING; an ended run is left.
TakeSlot(g) ==
  /\ At(g, "lane")
  /\ IF Live(mem)
       THEN /\ mem' = IF mem.st = "pending" THEN [mem EXCEPT !.st = "running", !.old = FALSE]
                                            ELSE mem
            /\ work' = [work EXCEPT ![g].pc = "run", ![g].cb = mem.gen]
            /\ UNCHANGED task
       ELSE work' = [work EXCEPT ![g] = NoTask] /\ task' = 0 /\ UNCHANGED mem
  /\ UNCHANGED <<disk, expect, lock, flow, steer, rec, sweep, told_vars, left>>

\* The callback of g: its task reference is gone before.
Callback(g, o) ==
  /\ Complete(g, work[g].cb, o)
  /\ work' = [work EXCEPT ![g] = [@ EXCEPT !.pc = IF lock'.by = g THEN "flow" ELSE "tail",
                                           !.out = o, !.hit = FALSE]]

\* The child agent returns, fails or times out, or the task is cancelled.  A
\* spawned task releases its resources first; a steered one completes at once.
EndRun(g, o) ==
  IF g = 1
    THEN /\ work' = [work EXCEPT ![g] = [@ EXCEPT !.pc = "release", !.out = o, !.hit = FALSE]]
         /\ UNCHANGED <<run_vars, task, expect, lock, flow>>
    ELSE task' = 0 /\ Callback(g, o)

Finish(g) ==
  /\ At(g, "run") /\ \E o \in {"ok", "failed"} : EndRun(g, o)
  /\ UNCHANGED <<steer, rec, sweep, told_vars, left>>

Release(g) ==
  /\ At(g, "release") /\ work' = [work EXCEPT ![g].pc = "settle"] /\ task' = 0
  /\ UNCHANGED <<run_vars, expect, lock, flow, steer, rec, sweep, told_vars, left>>

\* After a failure the grace period is over: nothing to do if the run has ended.
Settle(g) ==
  /\ At(g, "settle")
  /\ IF work[g].out = "failed" /\ ~Live(mem)
       THEN work' = [work EXCEPT ![g].pc = "tail"] /\ UNCHANGED <<run_vars, expect, lock, flow>>
       ELSE Callback(g, work[g].out)
  /\ UNCHANGED <<task, steer, rec, sweep, told_vars, left>>

\* remove_task pops whichever task is registered by now.
EndTask(g) ==
  /\ At(g, "tail") /\ work' = [work EXCEPT ![g] = NoTask] /\ task' = 0
  /\ UNCHANGED <<run_vars, expect, lock, flow, steer, rec, sweep, told_vars, left>>

\* A cancellation is delivered: in the lane, or in the release, nothing is
\* completed.
Cancelled(g) ==
  /\ work[g].hit
  /\ \/ work[g].pc \in {"lane", "release"} /\ work' = [work EXCEPT ![g] = NoTask] /\ task' = 0
        /\ UNCHANGED <<run_vars, expect, lock, flow>>
     \/ work[g].pc = "run" /\ EndRun(g, "killed")
  /\ UNCHANGED <<steer, rec, sweep, told_vars, left>>

CancelTask(w) == IF task = 0 THEN w ELSE [w EXCEPT ![task].hit = TRUE]

---------------------------------------------------------------------------
(* The announce flow of x: run_subagent_announce_flow from its first await *)
(* on, with deliver_subagent_announcement                                  *)

Captured(r) == IF r.out # "ok" /\ mem.out = "ok" THEN {mem} ELSE {}

\* Mutant: the content mirror is not looked at.
Deliver_NoMirror(x) ==
  /\ flow[x].pc = "capture"
  /\ \E r \in {flow[x].snap} :
       IF r.gen \in keys
         THEN flow' = [flow EXCEPT ![x].pc = "after"] /\ UNCHANGED <<run_vars, mirror>>
         ELSE LET p == [r EXCEPT !.dlv = "progress"]
              IN /\ mirror' = mirror \cup {Key(r)} /\ mem' = p /\ disk' = p
                 /\ flow' = [flow EXCEPT ![x] = [pc |-> "publish", snap |-> p, n |-> 0]]
  /\ UNCHANGED <<task_vars, steer, rec, sweep, keys, sent, told, left>>

\* Without a result text the copy's place is taken by the current record, if
\* that has one by now (capture_subagent_completion_reply).  What was delivered,
\* or attempted, in this process is reported delivered and left as it is.
Deliver(x) ==
  /\ flow[x].pc = "capture"
  /\ \E r \in {flow[x].snap} \cup Captured(flow[x].snap) :
       IF r.gen \in keys \/ Key(r) \in mirror
         THEN flow' = [flow EXCEPT ![x].pc = "after"] /\ UNCHANGED <<run_vars, mirror>>
         ELSE LET p == [r EXCEPT !.dlv = "progress"]
              IN /\ mirror' = mirror \cup {Key(r)} /\ mem' = p /\ disk' = p
                 /\ flow' = [flow EXCEPT ![x] = [pc |-> "publish", snap |-> p, n |-> 0]]
  /\ UNCHANGED <<task_vars, steer, rec, sweep, keys, sent, told, left>>

Publish(x) ==
  /\ flow[x].pc = "publish"
  /\ sent' = [sent EXCEPT ![Key(flow[x].snap)] = @ + 1] /\ told' = told \cup {Key(flow[x].snap)}
  /\ flow' = [flow EXCEPT ![x].pc = "third"]
  /\ UNCHANGED <<run_vars, task_vars, steer, rec, sweep, mirror, keys, left>>

\* A permanent error ends the delivery and leaves the record in progress;
\* another one marks it failed and is tried again, AnnounceRetryMax in all.
PublishFails(x) ==
  /\ flow[x].pc = "publish" /\ Disturb
  /\ \/ flow' = [flow EXCEPT ![x].pc = "after"] /\ UNCHANGED run_vars
     \/ LET f == [flow[x].snap EXCEPT !.dlv = "failed"]
        IN /\ mem' = f /\ disk' = f
           /\ flow' = [flow EXCEPT ![x] =
                [pc |-> IF flow[x].n + 1 < AnnounceRetryMax THEN "publish" ELSE "after",
                 snap |-> f, n |-> flow[x].n + 1]]
  /\ UNCHANGED <<task_vars, steer, rec, sweep, told_vars>>

\* The third path has been routed (module SteeringQueue); now it is delivered.
MarkDelivered(x) ==
  /\ flow[x].pc = "third"
  /\ LET d == [flow[x].snap EXCEPT !.dlv = "delivered"] IN mem' = d /\ disk' = d
  /\ keys' = keys \cup {flow[x].snap.gen}
  /\ flow' = [flow EXCEPT ![x].pc = "after"]
  /\ UNCHANGED <<task_vars, steer, rec, sweep, mirror, sent, told, left>>

\* Mutant: a kill leaves the lock held.
Unlock_KillKeepsLock ==
  /\ flow["lock"].pc = "after" /\ flow' = [flow EXCEPT !["lock"] = NoFlow]
  /\ IF lock.by = Killer
       THEN mem' = lock.base /\ UNCHANGED <<work, lock>>
       ELSE work' = [work EXCEPT ![lock.by].pc = "tail"] /\ lock' = Free /\ UNCHANGED mem
  /\ UNCHANGED <<disk, task, expect, steer, rec, sweep, told_vars, left>>

\* The lock is released.  A kill then writes the record it got back, which is
\* the one from before the announcement, with aborted_last_run.
Unlock ==
  /\ flow["lock"].pc = "after"
  /\ lock' = Free /\ flow' = [flow EXCEPT !["lock"] = NoFlow]
  /\ IF lock.by = Killer
       THEN mem' = lock.base /\ UNCHANGED work
       ELSE work' = [work EXCEPT ![lock.by].pc = "tail"] /\ UNCHANGED mem
  /\ UNCHANGED <<disk, task, expect, steer, rec, sweep, told_vars, left>>

EndFlow(x) ==
  /\ x # "lock" /\ flow[x].pc = "after" /\ flow' = [flow EXCEPT ![x] = NoFlow]
  /\ rec' = IF x = "recovery" THEN NoRec ELSE rec
  /\ UNCHANGED <<run_vars, task_vars, steer, sweep, told_vars, left>>

---------------------------------------------------------------------------
(* kill_subagent_run; steer_subagent_run *)

\* cancel_recovery, cancel_task, then the completion; refused or not, the
\* kill returns.  The flow the completion opens ends in Unlock.
Kill ==
  /\ Live(mem) /\ Disturb
  /\ rec' = NoRec /\ steer' = [steer EXCEPT !["recovery"] = NoSteer]
  /\ work' = CancelTask(work)
  /\ Complete(Killer, mem.gen, "killed")
  /\ UNCHANGED <<task, sweep, told_vars>>

Steerable(r) == r.st \in {"running", "interrupted"}

\* The announcement of the old generation is suppressed, its task cancelled.
Redirect(a, r) ==
  /\ mem' = [r EXCEPT !.supp = TRUE]
  /\ work' = CancelTask(work)
  /\ steer' = [steer EXCEPT ![a].pc = "settle"]

Steer ==
  /\ Steerable(mem) /\ steer["user"].pc = "off" /\ Disturb
  /\ Redirect("user", mem)
  /\ UNCHANGED <<disk, task, expect, lock, flow, rec, sweep, told_vars>>

\* replace_run_after_steer: a new generation, whatever the state of the run.
Renew(r) == [r EXCEPT !.gen = @ + 1, !.st = "interrupted", !.out = "none", !.dlv = "pending"]

\* The cancelled task has settled, or the wait for it timed out.
Replace(a) ==
  /\ steer[a].pc = "settle" /\ mem.gen < MaxGen
  /\ LET r == [Renew(mem) EXCEPT !.supp = TRUE]
     IN /\ mem' = r /\ expect' = r.gen
        /\ steer' = [steer EXCEPT ![a] = [pc |-> "build", snap |-> r]]
  /\ UNCHANGED <<disk, work, task, lock, flow, rec, sweep, told_vars, left>>

Idle == {g \in Tasks \ {1} : work[g].pc = "off"}

EndSteer(a) == /\ steer' = [steer EXCEPT ![a] = NoSteer]
               /\ rec' = IF a = "recovery" THEN NoRec ELSE rec

\* The child agent is built: the copy is written back as PENDING, announced
\* again, and its task is created.
Restart(a) ==
  /\ steer[a].pc = "build" /\ Idle # {} /\ EndSteer(a)
  /\ mem' = [steer[a].snap EXCEPT !.st = "pending", !.old = FALSE, !.supp = FALSE]
  /\ task' = CHOOSE g \in Idle : TRUE
  /\ work' = [work EXCEPT ![task'] = [NoTask EXCEPT !.pc = "lane"]]
  /\ UNCHANGED <<disk, expect, lock, flow, sweep, told_vars, left>>

\* The child agent cannot be built: the run stays as it is, silenced.
BuildFails(a) ==
  /\ steer[a].pc = "build" /\ Disturb /\ EndSteer(a)
  /\ UNCHANGED <<run_vars, task_vars, flow, sweep, told_vars>>

---------------------------------------------------------------------------
(* orphan/recovery.py *)

\* A live run without a task is scheduled for recovery.  The delay is longer
\* than any grace period a task may be in.
ScheduleRecovery ==
  /\ Live(mem) /\ task = 0 /\ rec.pc = "off" /\ Disturb
  /\ rec' = [pc |-> "wait", saw |-> {g \in Tasks : work[g].pc \in {"settle", "flow", "tail"}}]
  /\ UNCHANGED <<run_vars, task_vars, flow, steer, sweep, told_vars>>

\* A run that is still live is resumed; one that is PENDING is given up.
WakeRecovery ==
  /\ rec.pc = "wait" /\ \A g \in rec.saw : work[g].pc \notin {"settle", "flow", "tail"}
  /\ CASE ~Live(mem)         -> rec' = NoRec /\ UNCHANGED <<mem, flow>>
       [] mem.st = "pending" -> /\ mem' = Close(mem, "unstarted") /\ Open("recovery", mem')
                                /\ rec' = [NoRec EXCEPT !.pc = "flow"]
       [] OTHER              -> rec' = [NoRec EXCEPT !.pc = "read"] /\ UNCHANGED <<mem, flow>>
  /\ UNCHANGED <<disk, task_vars, steer, sweep, told_vars, left>>

\* The chat history has been read: a new generation, and it is steered.
Resume ==
  /\ rec.pc = "read" /\ mem.gen < MaxGen
  /\ Redirect("recovery", Renew(mem)) /\ rec' = [rec EXCEPT !.pc = "steer"]
  /\ UNCHANGED <<disk, task, expect, lock, flow, sweep, told_vars, left>>

\* The steer is refused, by its rate limit: finalize_interrupted_run_with_retry.
ResumeRefused ==
  /\ rec.pc = "read" /\ mem.gen < MaxGen
  /\ mem' = Close(Renew(mem), "timeout") /\ Open("recovery", mem')
  /\ rec' = [rec EXCEPT !.pc = "flow"]
  /\ UNCHANGED <<disk, task_vars, steer, sweep, told_vars, left>>

---------------------------------------------------------------------------
(* The sweeper: each of its loops lists the runs, then works through the   *)
(* list with awaits in between                                             *)

\* Mutant: the scan looks for failed deliveries, and misses the pending ones.
Wanted_MissesPending(s, r) ==
  CASE s = "reconcile" -> Steerable(r) /\ r.old
    [] OTHER           -> ~Live(r) /\ r.dlv \in {"failed", "suspended"}

Wanted(s, r) ==
  CASE s = "reconcile" -> Steerable(r) /\ r.old
    [] s = "announce"  -> ~Live(r) /\ ~r.supp /\ r.out # "unstarted" /\ r.dlv = "pending"
    [] s = "retry"     -> ~Live(r) /\ r.dlv \in {"failed", "suspended"}

List(s) ==
  /\ sweep.scan = "off" /\ flow["sweep"].pc = "off" /\ Wanted(s, mem)
  /\ sweep' = [scan |-> s, snap |-> mem]
  /\ UNCHANGED <<run_vars, task_vars, flow, steer, rec, told_vars, left>>

\* recover_orphaned_runs
Reconcile ==
  /\ sweep.scan = "reconcile" /\ sweep' = NoSweep
  /\ mem' = Close(sweep.snap, "timeout") /\ Open("sweep", mem')
  /\ UNCHANGED <<disk, task_vars, steer, rec, told_vars, left>>

\* _scan_undelivered_terminal_runs
Announce ==
  /\ sweep.scan = "announce" /\ sweep' = NoSweep /\ Open("sweep", sweep.snap)
  /\ UNCHANGED <<run_vars, task_vars, steer, rec, told_vars, left>>

\* finalize_suspended_deliveries and finalize_failed_deliveries
Retry ==
  /\ sweep.scan = "retry" /\ sweep' = NoSweep
  /\ mem' = [sweep.snap EXCEPT !.dlv = "pending"] /\ Open("sweep", mem')
  /\ UNCHANGED <<disk, task_vars, steer, rec, told_vars, left>>

\* announce_hard_expiry_ms has passed, or too many suspended deliveries.
Discard ==
  /\ sweep.scan = "retry" /\ sweep' = NoSweep
  /\ mem' = [sweep.snap EXCEPT !.dlv = "discarded"]
  /\ UNCHANGED <<disk, task_vars, flow, steer, rec, told_vars, left>>

---------------------------------------------------------------------------
(* Time, the flush to disk, and a restart *)

Age == /\ Steerable(mem) /\ ~mem.old /\ Disturb /\ mem' = [mem EXCEPT !.old = TRUE]
       /\ UNCHANGED <<disk, task_vars, flow, steer, rec, sweep, told_vars>>

Persist == /\ disk # mem /\ disk' = mem
           /\ UNCHANGED <<mem, task_vars, flow, steer, rec, sweep, told_vars, left>>

\* restore_runs_from_disk: no task survives, and the clock starts anew.
Restored(r) ==
  [(CASE r.st = "pending" -> Close(r, "unstarted")
      [] r.st = "running" -> Close(r, "timeout")
      [] OTHER            -> r) EXCEPT !.old = FALSE]

Crash ==
  /\ Disturb
  /\ mem' = Restored(disk)
  /\ work' = [g \in Tasks |-> NoTask] /\ task' = 0 /\ expect' = 0 /\ lock' = Free
  /\ flow' = [x \in Flows |-> NoFlow] /\ steer' = [a \in Steerers |-> NoSteer]
  /\ rec' = NoRec /\ sweep' = NoSweep /\ mirror' = {} /\ keys' = {}
  /\ sent' = [k \in DOMAIN sent |-> 0]
  /\ UNCHANGED <<disk, told>>

---------------------------------------------------------------------------
Task(g) == TakeSlot(g) \/ Finish(g) \/ Release(g) \/ Settle(g) \/ EndTask(g) \/ Cancelled(g)
Flow(x) == Deliver(x) \/ Publish(x) \/ MarkDelivered(x) \/ EndFlow(x)
Steering(a) == Replace(a) \/ Restart(a)
Recovery == WakeRecovery \/ Resume \/ ResumeRefused
Sweeping == Reconcile \/ Announce \/ Retry \/ Discard

RunNext ==
  \/ \E g \in Tasks : Task(g)
  \/ \E x \in Flows : Flow(x) \/ PublishFails(x)
  \/ Unlock \/ Kill \/ Steer
  \/ \E a \in Steerers : Steering(a) \/ BuildFails(a)
  \/ ScheduleRecovery \/ Recovery
  \/ \E s \in Scans : List(s)
  \/ Sweeping \/ Age \/ Persist \/ Crash

RunSpec == RunInit /\ [][RunNext]_vars

\* What asyncio runs: a step that is ready.  The sweeper's loops come round
\* again and again.
RunFairSpec ==
  /\ RunSpec
  /\ \A g \in Tasks : WF_vars(Task(g))
  /\ \A x \in Flows : WF_vars(Flow(x))
  /\ WF_vars(Unlock) /\ WF_vars(Sweeping) /\ WF_vars(Recovery)
  /\ \A a \in Steerers : WF_vars(Steering(a))
  /\ \A s \in Scans : WF_vars(List(s))

---------------------------------------------------------------------------
\* Type invariant: the terminal lock of complete_subagent_run is held exactly
\* while the announce flow it covers runs, and by who waits for that flow.
RunTypeOK ==
  /\ mem \in Record /\ disk \in Record
  /\ work \in [Tasks -> [pc : {"off", "lane", "run", "release", "settle", "flow", "tail"},
                        cb : Gens \cup {0}, out : Outcomes, hit : BOOLEAN]]
  /\ task \in Tasks \cup {0} /\ expect \in Gens \cup {0}
  /\ lock \in [by : Tasks \cup {Killer, Nobody}, base : Record]
  /\ flow \in [Flows -> [pc : {"off", "capture", "publish", "third", "after"},
                         snap : Record, n : Nat]]
  /\ steer \in [Steerers -> [pc : {"off", "settle", "build"}, snap : Record]]
  /\ rec \in [pc : {"off", "wait", "read", "steer", "flow"}, saw : SUBSET Tasks]
  /\ sweep \in [scan : Scans \cup {"off"}, snap : Record]
  /\ keys \subseteq Gens /\ told \subseteq DOMAIN sent /\ mirror \subseteq DOMAIN sent
  /\ left \in 0..MaxDisturb
  /\ flow["lock"].pc # "off" <=> lock.by # Nobody
  /\ \A g \in Tasks : work[g].pc = "flow" <=> lock.by = g

\* In one process the result of a generation is published once, whoever
\* announces it, from whatever copy (`_check_delivery_mirror`), and a record
\* says "delivered" only of a generation that has been published.
AnnouncedOnce ==
  /\ \A k \in DOMAIN sent : sent[k] <= 1
  /\ mem.dlv = "delivered" => \E k \in told : k[1] = mem.gen

\* Nobody holds a copy older than the record across an await.
Result(r) == <<r.gen, r.st, r.out>>
NoStaleCopy ==
  /\ \A x \in Flows : flow[x].pc # "off" => Result(flow[x].snap) = Result(mem)
  /\ \A a \in Steerers : steer[a].pc = "build" => Result(steer[a].snap) = Result(mem)
  /\ lock # Free => Result(lock.base) = Result(mem)
  /\ sweep.scan # "off" => Result(sweep.snap) = Result(mem)

\* An ended run keeps its generation and outcome (`complete_run`: "a no-op")
\* until a new generation begins: no late callback, second completion, kill,
\* steer or recovery undoes it; a copy written back by set_run may.
OutcomeStands ==
  [][~Live(mem) /\ NoStaleCopy => \/ Result(mem') = Result(mem)
                                 \/ mem'.gen > mem.gen \/ Crash]_vars

Owed(g) == /\ ~Live(mem) /\ mem.gen = g /\ mem.dlv = "pending" /\ ~mem.supp
           /\ mem.out # "unstarted" /\ Key(mem) \notin mirror /\ left = 0
\* Once nothing more disturbs the process, the result of an ended run that has
\* not been attempted is published, by the flow that carries it or by the
\* sweeper's scan (`_scan_undelivered_terminal_runs`), unless the run is
\* steered meanwhile.
Told == \A g \in Gens : Owed(g) ~> \/ \E k \in told : k[1] = g
                                  \/ mem.gen # g \/ mem.supp
=============================================================================
