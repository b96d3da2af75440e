------------------------------ MODULE TaskFlow ------------------------------
(***************************************************************************)
(* One task flow (agent/tools/taskflow): a row of steps with dependencies, *)
(* whose tools read the row, wait for a model, a spawn or a child, and     *)
(* write the row back under optimistic locking.  The calls run side by     *)
(* side: the model's own, the resume an announcement makes, the sweeper.   *)
(* A revision is only ever compared with the row's, so what is kept of it  *)
(* is whether a call's is behind.  A tool that reads and writes at once,   *)
(* and gives up on a conflict, is one step.                                *)
(***************************************************************************)
EXTENDS Naturals, FiniteSets

CONSTANTS Steps, Deps,      \* step ids, and what the first plan makes each depend on
          Policy,           \* the steps it gives a retry policy
          Callers,          \* calls that can be under way at a time
          MaxRetry,         \* max_retries of a retry policy
          JudgeRetry,       \* STEP_JUDGE["max_retries"]
          MaxTries,         \* persist_max_attempts of one write
          MaxReplan,        \* REPLAN_MAX
          MaxChild,         \* bound on the children spawned
          MaxEdit,          \* bound on replans, updates of the steps, waits, rejected
                            \* finishes, and results of children that are not over
          EditSteps         \* bound: what a caller of update_steps may pass

NoCall   == "none"
Top      == IF MaxRetry > JudgeRetry THEN MaxRetry ELSE JudgeRetry
NoChild  == 0
Foreign  == MaxChild + 1     \* the key of no child of this flow
Keys     == 0..Foreign
Statuses == {"ready", "blocked", "dispatched", "done", "failed", "skipped", "cancelled"}

\* A step: child_session_key, retry_count (past both limits all counts are
\* alike), whether it has a retry_policy, depends_on.
Step   == [st : Statuses \cup {"absent"}, key : Keys, n : 0..Top, pol : BOOLEAN, deps : SUBSET Steps]
Absent == [st |-> "absent", key |-> NoChild, n |-> 0, pol |-> FALSE, deps |-> {}]

ASSUME FlowAssumption ==
  /\ IsFiniteSet(Steps) /\ NoCall \notin Callers
  /\ Deps \in [Steps -> SUBSET Steps] /\ Policy \subseteq Steps
  /\ MaxChild \in Nat /\ MaxRetry \in Nat /\ JudgeRetry \in Nat /\ MaxTries \in Nat \ {0}
  /\ MaxReplan \in Nat /\ MaxEdit \in Nat /\ EditSteps \subseteq Step

\* A new step without a child.
Planned(deps, pol) == [Absent EXCEPT !.st = IF deps = {} THEN "ready" ELSE "blocked",
                                     !.deps = deps, !.pol = pol]

VARIABLES
  status,   \* of the flow
  step,     \* its steps, "absent" where it has none of that id
  results,  \* the keys a result or a failure note is recorded of
  replans,  \* replan_count
  call,     \* the calls under way
  lock,     \* flow_dispatch_lock
  born,     \* how many children have been spawned
  ended,    \* those whose run is over
  edits
row_vars   == <<status, step, results, replans>>
child_vars == <<born, ended>>
vars == <<row_vars, child_vars, call, lock, edits>>

NoOp == [pc |-> "off", child |-> NoChild, sid |-> {}, want |-> {}, verdict |-> "none",
         got |-> [s \in Steps |-> NoChild], plan |-> [s \in Steps |-> Absent],
         count |-> 0, was |-> "running", tries |-> 1, behind |-> FALSE]

FlowInit ==
  /\ status = "running" /\ step = [s \in Steps |-> Planned(Deps[s], s \in Policy)]
  /\ results = {} /\ replans = 0 /\ born = 0 /\ ended = {} /\ edits = 0
  /\ call = [c \in Callers |-> NoOp] /\ lock = NoCall

Terminal   == status \in {"done", "failed", "cancelled"}
Resolved   == {"done", "failed", "skipped", "cancelled", "absent"}
Present(f) == {s \in Steps : f[s].st # "absent"}
At(c, pc)  == call[c].pc = pc

\* An absent dependency, or the step itself, is never satisfied.
DepsDone(f, s) == \A d \in f[s].deps : d # s /\ f[d].st = "done"
Ready(f) == {s \in Steps : f[s].st = "ready" /\ f[s].key = NoChild /\ DepsDone(f, s)}

\* Every write of the row leaves behind the revision of each call that read it.
Behind(f) == [d \in Callers |-> IF f[d].pc \in {"off", "wave", "poll"} THEN f[d]
                                ELSE [f[d] EXCEPT !.behind = TRUE]]
Written   == call' = Behind(call)
End(c)    == call' = Behind([call EXCEPT ![c] = NoOp])
Quit(c)   == call' = [call EXCEPT ![c] = NoOp]

\* New children for some of the steps S: the spawns that succeed.
Support(f) == {s \in Steps : f[s] # NoChild}
Spawned(S) ==
  {f \in [Steps -> {NoChild} \cup (born + 1 .. MaxChild)] :
     /\ Support(f) \subseteq S
     /\ {f[s] : s \in Support(f)} = born + 1 .. born + Cardinality(Support(f))}

\* The child k takes the step o; with the count n.
Taken(o, k)      == [o EXCEPT !.st = "dispatched", !.key = k]
Retried(o, k, n) == [Taken(o, k) EXCEPT !.n = n]

ChildEnds ==
  /\ \E k \in 1..born : k \notin ended /\ ended' = ended \cup {k}
  /\ UNCHANGED <<row_vars, call, lock, born, edits>>

---------------------------------------------------------------------------
(* update_flow_with_conflict_retry: a write that lost is built again on the *)
(* fresh row, unless the flow is terminal by now or the attempts are spent  *)

MayWrite(c) == At(c, "write") /\ ~call[c].behind

\* Mutant: the helper does not ask whether the fresh row is terminal.
ReRead_Revives(c) ==
  /\ At(c, "write") /\ call[c].behind /\ call[c].tries < MaxTries
  /\ call' = [call EXCEPT ![c].behind = FALSE, ![c].tries = @ + 1]
  /\ UNCHANGED <<row_vars, child_vars, lock, edits>>

ReRead(c) ==
  /\ At(c, "write") /\ call[c].behind /\ call[c].tries < MaxTries /\ ~Terminal
  /\ call' = [call EXCEPT ![c].behind = FALSE, ![c].tries = @ + 1]
  /\ UNCHANGED <<row_vars, child_vars, lock, edits>>

\* Mutant: a dispatch whose record is lost keeps the lock.
GiveUp_KeepsLock(c) ==
  /\ At(c, "write") /\ call[c].behind /\ (call[c].tries = MaxTries \/ Terminal)
  /\ Quit(c)
  /\ UNCHANGED <<row_vars, child_vars, lock, edits>>

GiveUp(c) ==
  /\ At(c, "write") /\ call[c].behind /\ (call[c].tries = MaxTries \/ Terminal)
  /\ Quit(c) /\ lock' = IF lock = c THEN NoCall ELSE lock
  /\ UNCHANGED <<row_vars, child_vars, edits>>

---------------------------------------------------------------------------
(* taskflow_dispatch, and the wave of a resume *)

Dispatchable(s) ==
  \/ step[s].st = "ready"
  \/ step[s].st = "blocked" /\ step[s].deps # {} /\ DepsDone(step, s)

\* is_redispatch, of a step with a policy: it counts against the retries.
Redispatched(o) == o.pol /\ (o.key # NoChild \/ o.n > 0)

\* Read, validate and spawn under the lock of the flow.  What it will record
\* are the steps as it read them.
Dispatch(c) ==
  /\ At(c, "off") /\ lock = NoCall /\ ~Terminal
  /\ \E S \in SUBSET {s \in Steps : Dispatchable(s)} \ {{}} :
       /\ \A s \in S : Redispatched(step[s]) => step[s].n < MaxRetry
       /\ call' = [call EXCEPT ![c] =
            [NoOp EXCEPT !.pc = "spawn", !.want = S,
               !.plan = [s \in Steps |->
                  IF s \notin S THEN Absent
                  ELSE [step[s] EXCEPT !.n = IF Redispatched(step[s]) THEN @ + 1 ELSE @]]]]
  /\ lock' = c
  /\ UNCHANGED <<row_vars, child_vars, edits>>

\* The wave keeps what is still ready; whether the flow is is not asked.
TakeWave(c) ==
  /\ At(c, "wave") /\ lock = NoCall
  /\ IF call[c].want \cap Ready(step) = {}
       THEN Quit(c) /\ UNCHANGED lock
       ELSE /\ lock' = c
            /\ call' = [call EXCEPT ![c].pc = "spawn", ![c].want = @ \cap Ready(step)]
  /\ UNCHANGED <<row_vars, child_vars, edits>>

Spawn(c) ==
  /\ At(c, "spawn")
  /\ \E f \in Spawned(call[c].want) :
       /\ born' = born + Cardinality(Support(f))
       /\ IF Support(f) = {}
            THEN Quit(c) /\ lock' = NoCall
            ELSE /\ call' = [call EXCEPT ![c].pc = "write", ![c].verdict = "dispatch",
                                           ![c].want = {}, ![c].got = f]
                 /\ UNCHANGED lock
  /\ UNCHANGED <<row_vars, ended, edits>>

\* apply_dispatched_steps: the first write carries the steps as dispatched, a
\* later one only their children; a step that is gone by then is added again.
\* A wave has nothing but the children to record.
RecordDispatch(c) ==
  LET o == call[c]
      base(s) == IF step[s].st = "absent" \/ (o.tries = 1 /\ o.plan[s].st # "absent")
                   THEN o.plan[s] ELSE step[s]
  IN /\ MayWrite(c) /\ o.verdict = "dispatch"
     /\ step' = [s \in Steps |-> IF o.got[s] = NoChild THEN step[s] ELSE Taken(base(s), o.got[s])]
     /\ End(c) /\ lock' = NoCall
     /\ UNCHANGED <<status, results, replans, child_vars, edits>>

---------------------------------------------------------------------------
(* taskflow_resume *)

\* The policy's retries and the judge's share one counter.
MayRetry(o) == o.n < JudgeRetry \/ (o.pol /\ o.n < MaxRetry)

\* A result is brought of whatever child_session_key the caller names, whether
\* that child is running, over or unknown; it is for one step that has the key.
Resume(c, k) ==
  /\ At(c, "off") /\ ~Terminal
  /\ \/ k \in ended /\ UNCHANGED edits
     \/ k \notin ended /\ edits < MaxEdit /\ edits' = edits + 1
  /\ LET Brought(S, want, n) ==
           call' = [call EXCEPT ![c] = [NoOp EXCEPT !.pc = "judge", !.child = k, !.was = status,
                                                    !.sid = S, !.want = want, !.count = n]]
     IN \/ \E s \in Steps : /\ step[s].key = k
                           /\ Brought({s}, IF MayRetry(step[s]) THEN {s} ELSE {}, step[s].n)
        \/ (\A s \in Steps : step[s].key # k) /\ Brought({}, {}, 0)
  /\ UNCHANGED <<row_vars, child_vars, lock>>

\* The caller's outcome, the gates and the judge decide, from the row that was
\* read; for a retry the replacement is spawned before anything is written.
Judge(c) ==
  /\ At(c, "judge")
  /\ \/ /\ call' = [call EXCEPT ![c].pc = "write", ![c].verdict = "outcome",
                                  ![c].want = {}, ![c].count = 0]
        /\ UNCHANGED born
     \/ \E f \in Spawned(call[c].want) :
          /\ Support(f) # {} /\ born' = born + Cardinality(Support(f))
          /\ call' = [call EXCEPT ![c].pc = "write", ![c].verdict = "retry",
                                  ![c].want = {}, ![c].got = f]
  /\ UNCHANGED <<row_vars, ended, lock, edits>>

\* unlock_dependents: a skipped or cancelled dependency skips, an absent one, or
\* the step itself, leaves it blocked.
Unlock(f) ==
  [s \in Steps |->
     LET sts == {f[d].st : d \in f[s].deps}
     IN IF f[s].st # "blocked" \/ sts = {} \/ "absent" \in sts \/ s \in f[s].deps THEN f[s]
        ELSE [f[s] EXCEPT !.st = CASE sts \cap {"skipped", "cancelled"} # {} -> "skipped"
                                   [] sts = {"done"}                       -> "ready"
                                   [] OTHER                                -> "blocked"]]

\* The decided outcome is applied to the row as it is now, whatever child the
\* step has by now; to none if the step is gone.  Then a wave, if the caller
\* lets it and there is anything to start.
RecordResult(c) ==
  LET o   == call[c]
      hit == o.sid \cap Present(step)
      Made(v) == [s \in Steps |-> IF s \in hit THEN [step[s] EXCEPT !.st = v] ELSE step[s]]
      Unlocked(f) == {s \in Steps : f[s].st = "blocked" /\ Unlock(f)[s].st = "ready"}
      Then(W) == IF W = {} THEN NoOp ELSE [NoOp EXCEPT !.pc = "wave", !.want = W]
  IN /\ MayWrite(c) /\ o.child # NoChild
     /\ results' = results \cup ({o.child} \ {Foreign})
     /\ status' = IF o.was = "waiting" THEN "running" ELSE status
     /\ \/ /\ o.verdict = "retry"
           /\ step' = [s \in Steps |-> IF s \in hit THEN Retried(step[s], o.got[s], o.count + 1)
                                                    ELSE step[s]]
           /\ \E W \in {{}, Ready(step')} : call' = Behind([call EXCEPT ![c] = Then(W)])
        \/ /\ o.verdict = "outcome"
           /\ \E v \in {"done", "failed", "skipped", "blocked"} :
                /\ step' = Unlock(Made(v))
                /\ \E W \in {{}, Ready(step') \cup Unlocked(Made(v))} :
                     call' = Behind([call EXCEPT ![c] = Then(W)])
     /\ UNCHANGED <<replans, child_vars, lock, edits>>

---------------------------------------------------------------------------
(* taskflow_replan *)

\* The plan for the row that is read: kept steps stay, the model's are new,
\* with any dependencies among the two; the others are gone.
PlanFor(c, kept) ==
  /\ At(c, "off") /\ ~Terminal /\ replans < MaxReplan /\ edits < MaxEdit /\ edits' = edits + 1
  /\ Present(step) # {}
  /\ \E P \in SUBSET (Steps \ kept) \ {{}} : \E d \in [P -> SUBSET (kept \cup P)] :
       call' = [call EXCEPT ![c] =
         [NoOp EXCEPT !.pc = "write", !.verdict = "replan", !.count = replans,
                      !.plan = [s \in Steps |-> CASE s \in kept -> step[s]
                                                  [] s \in P    -> Planned(d[s], FALSE)
                                                  [] OTHER      -> Absent]]]
  /\ UNCHANGED <<row_vars, child_vars, lock>>

\* Mutant: what is in flight is planned anew with the rest.
Replan_DropsRunning(c) ==
  \E keep \in BOOLEAN : PlanFor(c, {s \in Steps : keep /\ step[s].st = "done"})

\* What is in flight stays, and what is done if it is to be kept.
Replan(c) ==
  \E keep \in BOOLEAN :
    PlanFor(c, {s \in Steps : step[s].st = "dispatched" \/ (keep /\ step[s].st = "done")})

\* The plan is written, on whichever row: its steps replace those there.
RecordPlan(c) ==
  /\ MayWrite(c) /\ call[c].verdict = "replan"
  /\ step' = call[c].plan /\ replans' = call[c].count + 1 /\ status' = "running"
  /\ End(c)
  /\ UNCHANGED <<results, child_vars, lock, edits>>

---------------------------------------------------------------------------
(* taskflow_wait_all *)

WaitAll(c) ==
  /\ At(c, "off")
  /\ LET S == {s \in Steps : step[s].st = "dispatched"}
     IN /\ S # {}
        /\ call' = [call EXCEPT ![c] =
             [NoOp EXCEPT !.pc = "poll", !.want = S,
                          !.got = [s \in Steps |-> IF s \in S THEN step[s].key ELSE NoChild]]]
  /\ UNCHANGED <<row_vars, child_vars, lock, edits>>

\* All have settled: the row is read again.  A child without a result is tried
\* again, or its step given up.
Settled(c) ==
  /\ At(c, "poll") /\ \A s \in call[c].want : call[c].got[s] \in ended
  /\ LET S == {s \in call[c].want : step[s].pol /\ call[c].got[s] \notin results}
         again == {s \in S : step[s].n < MaxRetry}
     IN IF S = {} THEN Quit(c)
        ELSE call' = [call EXCEPT ![c] =
               [NoOp EXCEPT !.pc = "respawn", !.want = again, !.sid = S \ again,
                  !.plan = [s \in Steps |-> IF s \in S
                              THEN [Absent EXCEPT !.key = call[c].got[s], !.n = step[s].n]
                              ELSE Absent]]]
  /\ UNCHANGED <<row_vars, child_vars, lock, edits>>

Respawn(c) ==
  /\ At(c, "respawn")
  /\ \E f \in Spawned(call[c].want) :
       /\ born' = born + Cardinality(Support(f))
       /\ IF Support(f) = {} /\ call[c].sid = {} THEN Quit(c)
          ELSE call' = [call EXCEPT ![c].pc = "write", ![c].verdict = "wait",
                                        ![c].want = {}, ![c].got = f]
  /\ UNCHANGED <<row_vars, ended, lock, edits>>

RecordRetries(c) ==
  LET o     == call[c]
      again == {s \in Present(step) : o.got[s] # NoChild}
  IN /\ MayWrite(c) /\ o.verdict = "wait"
     /\ step' = [s \in Steps |->
          CASE s \in again                             -> Retried(step[s], o.got[s], o.plan[s].n + 1)
            [] s \in (Present(step) \cap o.sid) \ again -> [step[s] EXCEPT !.st = "done"]
            [] OTHER                                  -> step[s]]
     /\ results' = results \cup {o.plan[s].key : s \in o.sid}
     /\ End(c)
     /\ UNCHANGED <<status, replans, child_vars, lock, edits>>

---------------------------------------------------------------------------
(* Tools that read and write at once *)

\* No child of the flow is stopped by the write; what is left running ends later.
Settle(new) ==
  /\ ~Terminal /\ status' = "failed" /\ Written
  /\ step' = [s \in Steps |-> IF step[s].st \in Resolved THEN step[s] ELSE [step[s] EXCEPT !.st = new]]
  /\ UNCHANGED <<results, replans, child_vars, lock, edits>>

\* taskflow_cancel: what is not done is cancelled.
Cancel ==
  /\ ~Terminal /\ status' = "cancelled" /\ Written
  /\ step' = [s \in Steps |-> IF step[s].st \in {"done", "absent"} THEN step[s]
                              ELSE [step[s] EXCEPT !.st = "cancelled"]]
  /\ UNCHANGED <<results, replans, child_vars, lock, edits>>

\* taskflow_fail, and the deadline: the steps stay as they are.
Fail ==
  /\ ~Terminal /\ status' = "failed" /\ Written
  /\ UNCHANGED <<step, results, replans, child_vars, lock, edits>>

\* A finish that is out of budget.
AutoFail == Settle("failed")

\* The sweeps: no child of the flow is live.
Collect == {step[s].key : s \in Steps} \cap (1..born) \subseteq ended /\ Settle("failed")

Finish ==
  /\ ~Terminal /\ \A s \in Present(step) : step[s].st = "done"
  /\ status' = "done" /\ Written
  /\ UNCHANGED <<step, results, replans, child_vars, lock, edits>>

\* A write of what is left out here: a rejected finish counts.
FinishRejected ==
  /\ ~Terminal /\ edits < MaxEdit /\ edits' = edits + 1 /\ Written
  /\ UNCHANGED <<row_vars, child_vars, lock>>

\* mark_flow_superseded: on a terminal flow only the revision moves.
Supersede ==
  /\ status' = IF Terminal THEN status ELSE "cancelled"
  /\ Written
  /\ UNCHANGED <<step, results, replans, child_vars, lock, edits>>

SetWaiting ==
  /\ ~Terminal /\ edits < MaxEdit /\ edits' = edits + 1 /\ status' = "waiting" /\ Written
  /\ UNCHANGED <<step, results, replans, child_vars, lock>>

\* What an update may make of the step o: one in flight is settled at most, a
\* done one keeps its dependencies, and both need and keep their child; any
\* other is made ready or blocked, with whatever child key, count and policy the
\* caller passes.
MayBecome(o, e) ==
  CASE o.st = "dispatched" -> /\ e.st \in {"dispatched", "done", "failed", "skipped", "cancelled"}
                              /\ e.key = o.key /\ o.key # NoChild
    [] o.st = "done"       -> /\ e.st = "done" /\ e.deps = o.deps
                              /\ e.key = o.key /\ o.key # NoChild
    [] OTHER               -> e.st \in {"ready", "blocked"}

\* validate_steps_list: dependencies exist and have no cycle.
WellFormed(f) ==
  /\ \A s \in Present(f) : f[s].deps \subseteq Present(f)
  /\ \A S \in SUBSET Present(f) \ {{}} : \E s \in S : f[s].deps \cap S = {}

\* taskflow_update_steps replaces the whole list; also a step in flight may be
\* left out of it.
Edit ==
  /\ ~Terminal /\ edits < MaxEdit /\ edits' = edits + 1 /\ Written
  /\ \E keep \in SUBSET Steps : \E e \in [Steps \ keep -> EditSteps \cup {Absent}] :
       LET f == [s \in Steps |->
                   IF s \in keep THEN step[s]
                   ELSE IF e[s].st # "absent" /\ step[s].st \in {"dispatched", "done"}
                          THEN [e[s] EXCEPT !.key = step[s].key]
                          ELSE e[s]]
       IN /\ \A s \in Present(f) : MayBecome(step[s], f[s]) /\ f[s].key \in (0..born) \cup {Foreign}
          /\ WellFormed(f) /\ step' = f
  /\ UNCHANGED <<status, results, replans, child_vars, lock>>

---------------------------------------------------------------------------
Dispatching(c) == Dispatch(c) \/ TakeWave(c) \/ Spawn(c) \/ RecordDispatch(c)
Resuming(c) == (\E k \in (1..born) \cup {Foreign} : Resume(c, k)) \/ Judge(c) \/ RecordResult(c)
Waiting(c) == WaitAll(c) \/ Settled(c) \/ Respawn(c) \/ RecordRetries(c)

FlowNext ==
  \/ ChildEnds
  \/ \E c \in Callers : \/ ReRead(c) \/ GiveUp(c) \/ Dispatching(c) \/ Resuming(c)
                         \/ Replan(c) \/ RecordPlan(c) \/ Waiting(c)
  \/ Cancel \/ Fail \/ AutoFail \/ Collect \/ Finish \/ FinishRejected \/ Supersede
  \/ SetWaiting \/ Edit

FlowSpec == FlowInit /\ [][FlowNext]_vars

---------------------------------------------------------------------------
\* Type invariant: a step in flight carries a child that was spawned, and
\* flow_dispatch_lock is held by just the call that spawns a wave or records one.
FlowTypeOK ==
  /\ status \in {"running", "waiting", "done", "failed", "cancelled"}
  /\ step \in [Steps -> Step]
  /\ \A s \in Steps : step[s].st = "dispatched" => step[s].key \in 1..born
  /\ results \subseteq 1..born
  /\ replans \in 0..MaxReplan /\ born \in 0..MaxChild /\ ended \subseteq 1..born
  /\ \A c \in Callers :
       /\ call[c].pc \in {"off", "wave", "spawn", "judge", "poll", "respawn", "write"}
       /\ call[c].verdict \in {"none", "dispatch", "outcome", "retry", "replan", "wait"}
       /\ call[c].tries \in 1..MaxTries
       /\ lock = c <=> (At(c, "spawn") \/ (At(c, "write") /\ call[c].verdict = "dispatch"))

\* "Terminal, no further mutations are accepted" (taskflow_finish): a flow that
\* is over stays as it ended, whatever call was under way.  Two calls don't ask,
\* and may yet write its steps: the wave of a resume (_auto_dispatch_ready) and
\* wait_all's retries (_retry_settled_steps).
TerminalStands ==
  [][Terminal => /\ status' = status /\ replans' = replans
                 /\ \/ step' = step
                    \/ \E c \in Callers : RecordDispatch(c) \/ RecordRetries(c)]_vars

\* "A child session that has ALREADY spawned must never be silently dropped"
\* (update_flow_with_conflict_retry): a write that lost no race leaves every
\* step whose child is running as it is, dispatched, with that child; all but
\* the one whose child the call itself was given a result of.  wait_all's
\* retries are left out: they go by the children it polled, and replace
\* whichever child the step has got since.
Running(s) == step[s].st = "dispatched" /\ step[s].key \notin ended
NoChildDropped ==
  [][\A c \in Callers :
       MayWrite(c) /\ call[c].tries = 1 /\ call[c].verdict # "wait" /\ ~At(c, "write")'
         => \A s \in Steps : Running(s) /\ step[s].key # call[c].child => step'[s] = step[s]]_vars
=============================================================================
