--------------------------- MODULE TaskFlow_proofs ---------------------------
(***************************************************************************)
(* Proofs about a task flow, for any steps with any dependencies, any      *)
(* number of calls side by side and any bounds: a flow that is over stays  *)
(* as it ended, and no child is dropped by a write that lost no race.      *)
(***************************************************************************)
EXTENDS TaskFlow, FiniteSetTheorems, TLAPS

Pcs      == {"off", "wave", "spawn", "judge", "poll", "respawn", "write"}
Verdicts == {"none", "dispatch", "outcome", "retry", "replan", "wait"}
Flows    == {"running", "waiting", "done", "failed", "cancelled"}
Call     == [pc : Pcs, child : Keys, sid : SUBSET Steps, want : SUBSET Steps,
             verdict : Verdicts, got : [Steps -> Keys], plan : [Steps -> Step],
             count : Nat, was : Flows, tries : 1..MaxTries, behind : BOOLEAN]

\* A step in flight has a child.
Manned(f) == \A s \in Steps : f[s].st = "dispatched" => f[s].key \in 1..born

RowTyped ==
  /\ status \in Flows /\ step \in [Steps -> Step] /\ replans \in 0..MaxReplan
  /\ born \in 0..MaxChild /\ ended \subseteq 1..born /\ results \subseteq 1..born
  /\ Manned(step)

Typed == RowTyped /\ call \in [Callers -> Call]

\* What a call is about.
Sending(c)  == At(c, "spawn") \/ (At(c, "write") /\ call[c].verdict = "dispatch")
Bringing(c) == call[c].child # NoChild
Planning(c) == At(c, "write") /\ call[c].verdict = "replan"
Retrying(c) == At(c, "respawn") \/ (At(c, "write") /\ call[c].verdict = "wait")

\* It has read the row as it is now, or has not written since it read it first.
UpToDate(c) == ~call[c].behind
First(c)    == UpToDate(c) /\ call[c].tries = 1

\* It spawns a child for s, or has spawned one and not recorded it.
Serves(c, s) == IF At(c, "write") THEN call[c].got[s] # NoChild ELSE s \in call[c].want

LockHeld == \A c \in Callers : lock = c <=> Sending(c)

\* A dispatch goes to steps that were free when it read the row.
SendOK(c) ==
  Sending(c) /\ First(c) => \A s \in Steps : Serves(c, s) => step[s].st # "dispatched"

\* A result goes to the one step whose child it is.
BringOK(c) ==
  /\ At(c, "judge") => Bringing(c)
  /\ Bringing(c) =>
       /\ At(c, "judge") \/ (At(c, "write") /\ call[c].verdict \in {"outcome", "retry"})
       /\ call[c].child \in (1..born) \cup {Foreign}
       /\ \A s, t \in call[c].sid : s = t
       /\ call[c].want \subseteq call[c].sid
       /\ call[c].want # {} \/ call[c].verdict = "retry" => call[c].count < Top
       /\ call[c].verdict = "retry" => \A s \in call[c].sid : call[c].got[s] # NoChild
       /\ First(c) => \A s \in call[c].sid : step[s].key = call[c].child

\* A plan keeps what was in flight when the row was read.
PlanOK(c) == Planning(c) =>
  /\ call[c].count < MaxReplan /\ Manned(call[c].plan)
  /\ First(c) => \A s \in Steps : step[s].st = "dispatched" => call[c].plan[s] = step[s]

RetryOK(c) == Retrying(c) =>
  /\ \A s \in Steps : Serves(c, s) => call[c].plan[s].n < MaxRetry
  /\ \A s \in call[c].sid : call[c].plan[s].key \in 1..born

\* The calls that asked whether the flow is over know it is not, unless they
\* are behind; the wave and wait_all do not ask.
OpenOK(c) ==
  /\ At(c, "judge") \/ (At(c, "write") /\ call[c].verdict \notin {"dispatch", "wait"})
  /\ UpToDate(c)
  => ~Terminal

\* What a call waits for or has spawned are children of the flow.
GotOK(c) == \A s \in Steps : call[c].got[s] \in 0..born

CallOK(c) == SendOK(c) /\ BringOK(c) /\ PlanOK(c) /\ RetryOK(c) /\ OpenOK(c) /\ GotOK(c)
CallsOK   == \A c \in Callers : CallOK(c)

\* The inductive invariant.
FlowInv == Typed /\ LockHeld /\ CallsOK

---------------------------------------------------------------------------
(* Lemmas about the operators *)

\* The children of a wave: each for one of the steps asked for.
LEMMA SpawnedShape ==
  ASSUME born \in 0..MaxChild, NEW S \in SUBSET Steps, NEW f \in Spawned(S)
  PROVE  /\ f \in [Steps -> Keys]
         /\ born + Cardinality(Support(f)) \in born..MaxChild
         /\ \A s \in Steps : f[s] \in 0..born + Cardinality(Support(f))
         /\ \A s \in Steps : f[s] # NoChild => s \in S
<1> DEFINE U == Support(f)
           n == Cardinality(U)
           I == born + 1 .. born + n
<1>1. /\ MaxChild \in Nat /\ born \in Nat /\ f \in [Steps -> {NoChild} \cup (born + 1 .. MaxChild)]
      /\ U \subseteq S /\ U \subseteq Steps /\ {f[s] : s \in U} = I
  BY FlowAssumption DEF Spawned, Support
<1>2. n \in Nat
  BY <1>1, FlowAssumption, FS_Subset, FS_CardinalityType
<1> HIDE DEF n, U
<1>3. \A s \in Steps : f[s] # NoChild => s \in S /\ f[s] \in I
  BY <1>1 DEF U, Support
<1>4. born + n <= MaxChild
  <2>1. CASE n = 0
    BY <1>1, <2>1
  <2>2. CASE n # 0
    <3>1. born + n \in I
      BY <1>1, <1>2, <2>2
    <3>2. PICK s \in U : f[s] = born + n
      BY <1>1, <3>1
    <3> QED BY <1>1, <1>2, <2>2, <3>2 DEF NoChild
  <2> QED BY <2>1, <2>2
<1>5. f \in [Steps -> Keys]
  BY <1>1 DEF Keys, NoChild, Foreign
<1>6. \A s \in Steps : f[s] \in 0..born + n
  BY <1>1, <1>2, <1>3 DEF NoChild
<1> QED BY <1>1, <1>2, <1>3, <1>4, <1>5, <1>6 DEF n, U

\* A write leaves the calls as they are, but for being behind.
LEMMA BehindKeeps ==
  ASSUME NEW f \in [Callers -> Call]
  PROVE  /\ Behind(f) \in [Callers -> Call]
         /\ \A c \in Callers :
              Behind(f)[c] = IF f[c].pc \in {"off", "wave", "poll"} THEN f[c]
                             ELSE [f[c] EXCEPT !.behind = TRUE]
  BY DEF Behind, Call

\* The counts and keys that are set are counts and keys.
LEMMA Ranges ==
  /\ Top \in Nat /\ MaxRetry <= Top /\ JudgeRetry <= Top
  /\ NoChild \in Keys /\ Foreign \in Keys /\ 1..MaxChild \subseteq Keys
  /\ NoChild \notin 1..MaxChild /\ Foreign # NoChild
  BY FlowAssumption DEF Top, Keys, Foreign, NoChild

\* What the model's steps make of a step of the flow is a step.
LEMMA StepFields ==
  /\ Absent \in Step
  /\ \A deps \in SUBSET Steps, pol \in BOOLEAN : Planned(deps, pol) \in Step
  /\ \A o \in Step : /\ \A st \in Statuses : [o EXCEPT !.st = st] \in Step
                     /\ \A k \in Keys : [o EXCEPT !.key = k] \in Step /\ Taken(o, k) \in Step
                     /\ \A n \in 0..Top : [o EXCEPT !.n = n] \in Step
                     /\ \A k \in Keys, n \in 0..Top :
                          /\ [o EXCEPT !.key = k, !.n = n] \in Step
                          /\ Retried(o, k, n) \in Step
<1>1. /\ Statuses \subseteq Statuses \cup {"absent"} /\ {"ready", "blocked", "dispatched"} \subseteq Statuses
      /\ "absent" \in Statuses \cup {"absent"}
      /\ NoChild \in Keys /\ 0 \in 0..Top /\ FALSE \in BOOLEAN /\ {} \in SUBSET Steps
  BY Ranges DEF Statuses
<1>2. ASSUME NEW o \in Step
      PROVE  /\ \A st \in Statuses : [o EXCEPT !.st = st] \in Step
             /\ \A k \in Keys : [o EXCEPT !.key = k] \in Step
             /\ \A n \in 0..Top : [o EXCEPT !.n = n] \in Step
             /\ \A deps \in SUBSET Steps, pol \in BOOLEAN, st \in Statuses :
                  [o EXCEPT !.st = st, !.deps = deps, !.pol = pol] \in Step
             /\ \A k \in Keys, n \in 0..Top : [o EXCEPT !.key = k, !.n = n] \in Step
             /\ \A k \in Keys, st \in Statuses : [o EXCEPT !.st = st, !.key = k] \in Step
  BY DEF Step
<1>3. Absent \in Step
  BY <1>1 DEF Absent, Step
<1>4. ASSUME NEW deps \in SUBSET Steps, NEW pol \in BOOLEAN PROVE Planned(deps, pol) \in Step
  BY <1>1, <1>2, <1>3 DEF Planned
<1>5. ASSUME NEW o \in Step, NEW k \in Keys PROVE Taken(o, k) \in Step
  BY <1>1, <1>2 DEF Taken
<1>6. ASSUME NEW o \in Step, NEW k \in Keys, NEW n \in 0..Top PROVE Retried(o, k, n) \in Step
  BY <1>2, <1>5 DEF Retried
<1> QED BY <1>2, <1>3, <1>4, <1>5, <1>6

\* A caller that does nothing is typed.
LEMMA NoOpIsCall == NoOp \in Call
<1>1. 1 \in 1..MaxTries
  BY FlowAssumption
<1>2. Absent \in Step /\ NoChild \in Keys
  BY StepFields, Ranges
<1>3. [s \in Steps |-> NoChild] \in [Steps -> Keys] /\ [s \in Steps |-> Absent] \in [Steps -> Step]
  BY <1>2
<1>4. "none" \in Verdicts /\ "off" \in Pcs /\ "running" \in Flows
  BY DEF Pcs, Verdicts, Flows
<1> QED BY <1>1, <1>2, <1>3, <1>4 DEF NoOp, Call

\* What is not blocked is not unlocked, and unlocking starts nothing.
LEMMA UnlockKeeps ==
  ASSUME NEW f \in [Steps -> Step], NEW s \in Steps
  PROVE  /\ f[s].st # "blocked" => Unlock(f)[s] = f[s]
         /\ Unlock(f)[s] # f[s] => Unlock(f)[s].st # "dispatched"
  BY DEF Unlock, Step

\* Unlocking gives steps.
LEMMA UnlockTyped ==
  ASSUME NEW f \in [Steps -> Step]
  PROVE  Unlock(f) \in [Steps -> Step]
<1>1. ASSUME NEW s \in Steps
      PROVE  Unlock(f)[s] \in {f[s], [f[s] EXCEPT !.st = "skipped"], [f[s] EXCEPT !.st = "ready"],
                           [f[s] EXCEPT !.st = "blocked"]}
  BY DEF Unlock
<1>2. {"skipped", "ready", "blocked"} \subseteq Statuses
  BY DEF Statuses
<1> QED BY <1>1, <1>2, StepFields DEF Unlock

---------------------------------------------------------------------------
(* The invariant is inductive: types *)

\* One call changes, and the row is left alone or written.
LEMMA CallSet ==
  ASSUME call \in [Callers -> Call], NEW c \in Callers, NEW o \in Call
  PROVE  /\ [call EXCEPT ![c] = o] \in [Callers -> Call]
         /\ Behind([call EXCEPT ![c] = o]) \in [Callers -> Call]
<1>1. [call EXCEPT ![c] = o] \in [Callers -> Call]
  OBVIOUS
<1> QED BY <1>1, BehindKeeps

\* What the steps of a call change of it.
LEMMA CallFields ==
  ASSUME NEW o \in Call
  PROVE  /\ \A v \in Verdicts, f \in [Steps -> Keys] :
              [o EXCEPT !.pc = "write", !.verdict = v, !.want = {}, !.got = f] \in Call
         /\ [o EXCEPT !.pc = "write", !.verdict = "outcome", !.want = {}, !.count = 0] \in Call
         /\ \A n \in Nat, pl \in [Steps -> Step] :
              [o EXCEPT !.pc = "write", !.verdict = "replan", !.count = n, !.plan = pl] \in Call
         /\ \A T \in SUBSET Steps :
              /\ [o EXCEPT !.pc = "spawn", !.want = T] \in Call
              /\ [o EXCEPT !.pc = "wave", !.want = T] \in Call
              /\ \A f \in [Steps -> Keys] : [o EXCEPT !.pc = "poll", !.want = T, !.got = f] \in Call
              /\ \A pl \in [Steps -> Step] :
                   /\ [o EXCEPT !.pc = "spawn", !.want = T, !.plan = pl] \in Call
                   /\ \A U \in SUBSET Steps :
                        [o EXCEPT !.pc = "respawn", !.want = T, !.sid = U, !.plan = pl] \in Call
         /\ \A k \in Keys, w \in Flows, S \in SUBSET Steps, T \in SUBSET Steps, n \in Nat :
              [o EXCEPT !.pc = "judge", !.child = k, !.was = w, !.sid = S, !.want = T, !.count = n]
                \in Call
         /\ \A m \in 1..MaxTries : [o EXCEPT !.behind = FALSE, !.tries = m] \in Call
  BY DEF Call, Pcs, Verdicts

\* How a call goes on when a result has been recorded.
LEMMA ResultThen ==
  ASSUME call \in [Callers -> Call], NEW c \in Callers, RecordResult(c)
  PROVE  \E o \in Call : /\ o.pc \in {"off", "wave"} /\ o.child = NoChild /\ o.got = NoOp.got
                         /\ call' = Behind([call EXCEPT ![c] = o])
<1>1. \A f : Ready(f) \subseteq Steps
  BY DEF Ready
<1>2. \E W \in SUBSET Steps :
        call' = Behind([call EXCEPT ![c] = IF W = {} THEN NoOp
                                           ELSE [NoOp EXCEPT !.pc = "wave", !.want = W]])
  <2> DEFINE Next(W) == Behind([call EXCEPT ![c] = IF W = {} THEN NoOp
                                           ELSE [NoOp EXCEPT !.pc = "wave", !.want = W]])
  <2>1. \/ \E W \in {{}, Ready(step')} : call' = Next(W)
        \/ \E U \in SUBSET Steps : \E W \in {{}, Ready(step') \cup U} : call' = Next(W)
    BY DEF RecordResult
  <2> HIDE DEF Next
  <2>2. \E W \in SUBSET Steps : call' = Next(W)
    BY <1>1, <2>1
  <2> QED BY <2>2 DEF Next
<1>3. PICK W \in SUBSET Steps :
        call' = Behind([call EXCEPT ![c] = IF W = {} THEN NoOp
                                           ELSE [NoOp EXCEPT !.pc = "wave", !.want = W]])
  BY <1>2
<1> DEFINE w == [NoOp EXCEPT !.pc = "wave", !.want = W]
<1>4. /\ NoOp \in Call /\ NoOp.pc = "off" /\ NoOp.child = NoChild
      /\ w \in Call /\ w.pc = "wave" /\ w.child = NoChild /\ w.got = NoOp.got
  BY NoOpIsCall, CallFields DEF NoOp
<1>5. call' = Behind([call EXCEPT ![c] = IF W = {} THEN NoOp ELSE w])
  BY <1>3
<1> HIDE DEF w
<1> QED BY <1>4, <1>5

\* What a replan makes: what it keeps stays, and nothing else is in flight.
LEMMA PlanShape ==
  ASSUME step \in [Steps -> Step], NEW c \in Callers, NEW kept \in SUBSET Steps, PlanFor(c, kept)
  PROVE  \E pl \in [Steps -> Step] :
           /\ call' = [call EXCEPT ![c] = [NoOp EXCEPT !.pc = "write", !.verdict = "replan",
                                                      !.count = replans, !.plan = pl]]
           /\ \A s \in Steps : IF s \in kept THEN pl[s] = step[s] ELSE pl[s].st # "dispatched"
<1> DEFINE Made(P, d) == call' = [call EXCEPT ![c] =
          [NoOp EXCEPT !.pc = "write", !.verdict = "replan", !.count = replans,
                       !.plan = [s \in Steps |-> CASE s \in kept -> step[s]
                                                   [] s \in P    -> Planned(d[s], FALSE)
                                                   [] OTHER      -> Absent]]]
<1>0. PICK P \in SUBSET (Steps \ kept) : \E d \in [P -> SUBSET (kept \cup P)] : Made(P, d)
  BY DEF PlanFor
<1>1. PICK d \in [P -> SUBSET (kept \cup P)] : Made(P, d)
  BY <1>0
<1> DEFINE pl == [s \in Steps |-> CASE s \in kept -> step[s]
                                   [] s \in P    -> Planned(d[s], FALSE)
                                   [] OTHER      -> Absent]
<1>2. ASSUME NEW s \in Steps
      PROVE  /\ pl[s] \in Step
             /\ IF s \in kept THEN pl[s] = step[s] ELSE pl[s].st # "dispatched"
  <2>1. CASE s \in kept
    BY <2>1
  <2>2. CASE s \in P
    <3>1. pl[s] = Planned(d[s], FALSE) /\ d[s] \in SUBSET Steps
      BY <2>2
    <3>2. Planned(d[s], FALSE) \in Step /\ Planned(d[s], FALSE).st # "dispatched"
      BY <3>1, StepFields DEF Planned, Absent
    <3> QED BY <2>2, <3>1, <3>2
  <2>3. CASE s \notin kept /\ s \notin P
    <3>1. pl[s] = Absent /\ Absent \in Step /\ Absent.st # "dispatched"
      BY <2>3, StepFields DEF Absent
    <3> QED BY <2>3, <3>1
  <2> QED BY <2>1, <2>2, <2>3
<1>3. call' = [call EXCEPT ![c] = [NoOp EXCEPT !.pc = "write", !.verdict = "replan",
                                               !.count = replans, !.plan = pl]]
  BY <1>1
<1>4. pl \in [Steps -> Step]
  BY <1>2
<1> HIDE DEF pl
<1> QED BY <1>2, <1>3, <1>4

\* Every step keeps the types of the calls.
LEMMA CallsTyped ==
  ASSUME FlowInv, [FlowNext]_vars
  PROVE  call' \in [Callers -> Call]
<1>0. /\ call \in [Callers -> Call] /\ \A c \in Callers : call[c] \in Call
      /\ step \in [Steps -> Step] /\ \A s \in Steps : step[s] \in Step
      /\ status \in Flows /\ replans \in Nat /\ born \in 0..MaxChild
      /\ NoOp \in Call
  BY NoOpIsCall, FlowAssumption DEF FlowInv, Typed, RowTyped
<1>1. ASSUME NEW c \in Callers, ReRead(c) PROVE call' \in [Callers -> Call]
  <2>1. call[c].tries + 1 \in 1..MaxTries /\ call[c] \in Call
    BY <1>1, <1>0, FlowAssumption DEF ReRead, Call
  <2> QED BY <1>1, <1>0, <2>1, CallSet, CallFields DEF ReRead
<1>2. ASSUME NEW c \in Callers, GiveUp(c) PROVE call' \in [Callers -> Call]
  BY <1>2, <1>0, CallSet DEF GiveUp, Quit
<1>3. ASSUME NEW c \in Callers, Dispatch(c) PROVE call' \in [Callers -> Call]
  <2>1. PICK S \in SUBSET {s \in Steps : Dispatchable(s)} \ {{}} :
          /\ \A s \in S : Redispatched(step[s]) => step[s].n < MaxRetry
          /\ call' = [call EXCEPT ![c] =
               [NoOp EXCEPT !.pc = "spawn", !.want = S,
                  !.plan = [s \in Steps |->
                     IF s \notin S THEN Absent
                     ELSE [step[s] EXCEPT !.n = IF Redispatched(step[s]) THEN @ + 1 ELSE @]]]]
    BY <1>3 DEF Dispatch
  <2> DEFINE again(s) == IF Redispatched(step[s]) THEN step[s].n + 1 ELSE step[s].n
             pl == [s \in Steps |-> IF s \notin S THEN Absent ELSE [step[s] EXCEPT !.n = again(s)]]
  <2>2. \A s \in S : again(s) \in 0..Top
    <3>1. \A s \in S : step[s].n \in 0..Top
      BY <1>0 DEF Step
    <3> QED BY <2>1, <3>1, Ranges, FlowAssumption
  <2>3. pl \in [Steps -> Step]
    <3> HIDE DEF again
    <3> QED BY <1>0, <2>2, StepFields
  <2>4. call' = [call EXCEPT ![c] = [NoOp EXCEPT !.pc = "spawn", !.want = S, !.plan = pl]]
    BY <2>1
  <2> HIDE DEF pl
  <2> QED BY <1>0, <2>3, <2>4, CallSet, CallFields
<1>4. ASSUME NEW c \in Callers, TakeWave(c) PROVE call' \in [Callers -> Call]
  <2>1. CASE call' = [call EXCEPT ![c] = NoOp]
    BY <1>0, <2>1, CallSet
  <2>2. CASE call' = [call EXCEPT ![c].pc = "spawn", ![c].want = @ \cap Ready(step)]
    <3>1. call[c].want \cap Ready(step) \in SUBSET Steps
      BY DEF Ready
    <3> QED BY <1>0, <2>2, <3>1, CallSet, CallFields
  <2> QED BY <1>4, <2>1, <2>2 DEF TakeWave, Quit
<1>5. ASSUME NEW c \in Callers, NEW f \in Spawned(call[c].want), NEW v \in Verdicts,
             \/ call' = [call EXCEPT ![c] = NoOp]
             \/ call' = [call EXCEPT ![c].pc = "write", ![c].verdict = v,
                                     ![c].want = {}, ![c].got = f]
      PROVE  call' \in [Callers -> Call]
  <2>1. call[c].want \in SUBSET Steps
    BY <1>0 DEF Call
  <2>2. f \in [Steps -> Keys]
    BY <1>0, <2>1, SpawnedShape
  <2>3. [call[c] EXCEPT !.pc = "write", !.verdict = v, !.want = {}, !.got = f] \in Call
    BY <1>0, <2>2, CallFields
  <2> QED BY <1>0, <1>5, <2>3, CallSet
<1>6. ASSUME NEW c \in Callers, Spawn(c) \/ Respawn(c) PROVE call' \in [Callers -> Call]
  <2>1. {"dispatch", "wait"} \subseteq Verdicts
    BY DEF Verdicts
  <2> QED BY <1>5, <1>6, <2>1 DEF Spawn, Respawn, Quit
<1>7. ASSUME NEW c \in Callers, NEW k \in (1..born) \cup {Foreign}, Resume(c, k)
      PROVE  call' \in [Callers -> Call]
  <2>1. k \in Keys /\ 0 \in Nat /\ \A s \in Steps : step[s].n \in Nat
    BY <1>0, Ranges, FlowAssumption DEF Step, Keys, Foreign
  <2>2. PICK S \in SUBSET Steps, T \in SUBSET Steps, n \in Nat :
          call' = [call EXCEPT ![c] = [NoOp EXCEPT !.pc = "judge", !.child = k, !.was = status,
                                                   !.sid = S, !.want = T, !.count = n]]
    BY <1>7, <2>1 DEF Resume
  <2> QED BY <1>0, <2>1, <2>2, CallSet, CallFields
<1>8. ASSUME NEW c \in Callers, Judge(c) PROVE call' \in [Callers -> Call]
  <2>1. "retry" \in Verdicts
    BY DEF Verdicts
  <2>2. CASE call' = [call EXCEPT ![c].pc = "write", ![c].verdict = "outcome",
                                  ![c].want = {}, ![c].count = 0]
    BY <1>0, <2>2, CallSet, CallFields
  <2>3. CASE \E f \in Spawned(call[c].want) :
               call' = [call EXCEPT ![c].pc = "write", ![c].verdict = "retry",
                                    ![c].want = {}, ![c].got = f]
    BY <1>5, <2>1, <2>3
  <2> QED BY <1>8, <2>2, <2>3 DEF Judge
<1>9. ASSUME NEW c \in Callers, RecordResult(c) PROVE call' \in [Callers -> Call]
  <2>1. PICK o \in Call : call' = Behind([call EXCEPT ![c] = o])
    BY <1>9, <1>0, ResultThen
  <2> QED BY <1>0, <2>1, CallSet
<1>10. ASSUME NEW c \in Callers, Replan(c) PROVE call' \in [Callers -> Call]
  <2>1. PICK kept \in SUBSET Steps : PlanFor(c, kept)
    BY <1>10 DEF Replan
  <2>2. PICK pl \in [Steps -> Step] :
          call' = [call EXCEPT ![c] = [NoOp EXCEPT !.pc = "write", !.verdict = "replan",
                                                   !.count = replans, !.plan = pl]]
    BY <1>0, <2>1, PlanShape
  <2> QED BY <1>0, <2>2, CallSet, CallFields
<1>11. ASSUME NEW c \in Callers, RecordDispatch(c) \/ RecordPlan(c) \/ RecordRetries(c)
       PROVE  call' \in [Callers -> Call]
  <2>1. End(c)
    BY <1>11 DEF RecordDispatch, RecordPlan, RecordRetries
  <2> QED BY <1>0, <2>1, CallSet DEF End
<1>12. ASSUME NEW c \in Callers, WaitAll(c) PROVE call' \in [Callers -> Call]
  <2> DEFINE T == {s \in Steps : step[s].st = "dispatched"}
             g == [s \in Steps |-> IF s \in T THEN step[s].key ELSE NoChild]
  <2>1. g \in [Steps -> Keys]
    BY <1>0, Ranges DEF Step
  <2>2. call' = [call EXCEPT ![c] = [NoOp EXCEPT !.pc = "poll", !.want = T, !.got = g]]
    BY <1>12 DEF WaitAll
  <2> HIDE DEF g
  <2> QED BY <1>0, <2>1, <2>2, CallSet, CallFields
<1>13. ASSUME NEW c \in Callers, Settled(c) PROVE call' \in [Callers -> Call]
  <2> DEFINE S == {s \in call[c].want : step[s].pol /\ call[c].got[s] \notin results}
             T == {s \in S : step[s].n < MaxRetry}
             pl == [s \in Steps |-> IF s \in S
                      THEN [Absent EXCEPT !.key = call[c].got[s], !.n = step[s].n] ELSE Absent]
  <2>1. \/ call' = [call EXCEPT ![c] = NoOp]
        \/ call' = [call EXCEPT ![c] =
             [NoOp EXCEPT !.pc = "respawn", !.want = T, !.sid = S \ T, !.plan = pl]]
    BY <1>13 DEF Settled, Quit
  <2>2. pl \in [Steps -> Step]
    <3>1. \A s \in Steps : call[c].got[s] \in Keys /\ step[s].n \in 0..Top
      BY <1>0 DEF Call, Step
    <3> QED BY <3>1, StepFields
  <2>3. T \in SUBSET Steps /\ S \ T \in SUBSET Steps
    BY <1>0 DEF Call
  <2> HIDE DEF S, T, pl
  <2>4. [NoOp EXCEPT !.pc = "respawn", !.want = T, !.sid = S \ T, !.plan = pl] \in Call
    BY <1>0, <2>2, <2>3, CallFields
  <2> QED BY <1>0, <2>1, <2>4, CallSet
<1>14. CASE ChildEnds \/ UNCHANGED vars
  BY <1>14, <1>0 DEF ChildEnds, vars
<1>15. CASE \/ Cancel \/ Fail \/ AutoFail \/ Collect \/ Finish \/ FinishRejected \/ Supersede
            \/ SetWaiting \/ Edit
  BY <1>15, <1>0, BehindKeeps DEF Cancel, Fail, AutoFail, Collect, Settle, Finish, FinishRejected,
                                  Supersede, SetWaiting, Edit, Written
<1> QED
  BY <1>1, <1>2, <1>3, <1>4, <1>6, <1>7, <1>8, <1>9, <1>10, <1>11, <1>12, <1>13, <1>14, <1>15
  DEF FlowNext, Dispatching, Resuming, Waiting

\* Children are never fewer, and no step in flight loses its child by that.
LEMMA BornGrows ==
  ASSUME FlowInv, [FlowNext]_vars
  PROVE  /\ born \in 0..MaxChild /\ born' \in born..MaxChild
         /\ 1..born \subseteq 1..born' /\ 0..born \subseteq 0..born'
<1>0. /\ born \in 0..MaxChild /\ MaxChild \in Nat
      /\ \A c \in Callers : call[c].want \in SUBSET Steps
  BY FlowAssumption DEF FlowInv, Typed, RowTyped, Call
<1>1. ASSUME NEW c \in Callers, Spawn(c) \/ Judge(c) \/ Respawn(c) PROVE born' \in born..MaxChild
  <2>1. \A f \in Spawned(call[c].want) : born + Cardinality(Support(f)) \in born..MaxChild
    BY <1>0, SpawnedShape
  <2> QED BY <1>0, <1>1, <2>1 DEF Spawn, Judge, Respawn
<1>2. ASSUME NEW c \in Callers,
             \/ ReRead(c) \/ GiveUp(c) \/ Dispatch(c) \/ TakeWave(c) \/ RecordDispatch(c)
             \/ (\E k \in (1..born) \cup {Foreign} : Resume(c, k)) \/ RecordResult(c)
             \/ Replan(c) \/ RecordPlan(c) \/ WaitAll(c) \/ Settled(c) \/ RecordRetries(c)
      PROVE  born' = born
  BY <1>2 DEF ReRead, GiveUp, Dispatch, TakeWave, RecordDispatch, Resume, RecordResult, Replan,
              PlanFor, RecordPlan, WaitAll, Settled, RecordRetries, child_vars
<1>3. ASSUME \/ ChildEnds \/ Cancel \/ Fail \/ AutoFail \/ Collect \/ Finish \/ FinishRejected
             \/ Supersede \/ SetWaiting \/ Edit \/ UNCHANGED vars
      PROVE  born' = born
  <2>1. CASE ChildEnds \/ Cancel \/ Fail \/ Finish \/ FinishRejected \/ Supersede \/ SetWaiting
    BY <2>1 DEF ChildEnds, Cancel, Fail, Finish, FinishRejected, Supersede, SetWaiting, child_vars
  <2>2. CASE AutoFail \/ Collect
    BY <2>2 DEF AutoFail, Collect, Settle, child_vars
  <2>3. CASE Edit \/ UNCHANGED vars
    BY <2>3 DEF Edit, child_vars, vars
  <2> QED BY <1>3, <2>1, <2>2, <2>3
<1>4. born' \in born..MaxChild
  BY <1>0, <1>1, <1>2, <1>3 DEF FlowNext, Dispatching, Resuming, Waiting
<1> QED BY <1>0, <1>4

\* Every step keeps the types of the row.
LEMMA RowStep ==
  ASSUME FlowInv, [FlowNext]_vars
  PROVE  RowTyped'
<1> USE DEF RowTyped
<1>0. /\ RowTyped /\ \A c \in Callers : call[c] \in Call /\ CallOK(c)
      /\ born' \in 0..MaxChild /\ 1..born \subseteq 1..born' /\ 1..born \subseteq Keys
      /\ \A s \in Steps : step[s] \in Step
      /\ \A c \in Callers, s \in Steps : call[c].got[s] \in Keys
  <2>1. RowTyped /\ \A c \in Callers : call[c] \in Call /\ CallOK(c)
    BY DEF FlowInv, Typed, CallsOK
  <2>2. born \in 0..MaxChild /\ born' \in born..MaxChild /\ 1..born \subseteq 1..born'
    BY BornGrows
  <2>3. 1..born \subseteq Keys /\ born' \in 0..MaxChild
    BY <2>2, Ranges, FlowAssumption
  <2>4. \A c \in Callers, s \in Steps : call[c].got[s] \in Keys
    BY <2>1 DEF Call
  <2> QED BY <2>1, <2>2, <2>3, <2>4
<1>1. ASSUME UNCHANGED row_vars, ended' \subseteq 1..born PROVE RowTyped'
  BY <1>1, <1>0 DEF row_vars, Manned
<1>2. ASSUME NEW c \in Callers,
             \/ ReRead(c) \/ GiveUp(c) \/ Dispatch(c) \/ TakeWave(c) \/ Spawn(c)
             \/ (\E k \in (1..born) \cup {Foreign} : Resume(c, k)) \/ Judge(c)
             \/ Replan(c) \/ WaitAll(c) \/ Settled(c) \/ Respawn(c)
      PROVE  RowTyped'
  <2>1. UNCHANGED row_vars /\ ended' = ended
    BY <1>2 DEF ReRead, GiveUp, Dispatch, TakeWave, Spawn, Resume, Judge, Replan, PlanFor,
                WaitAll, Settled, Respawn, child_vars
  <2> QED BY <1>0, <1>1, <2>1
<1>3. ASSUME NEW c \in Callers, RecordDispatch(c) PROVE RowTyped'
  <2> DEFINE o == call[c]
             base(s) == IF step[s].st = "absent" \/ (o.tries = 1 /\ o.plan[s].st # "absent")
                          THEN o.plan[s] ELSE step[s]
  <2>1. /\ step' = [s \in Steps |-> IF o.got[s] = NoChild THEN step[s] ELSE Taken(base(s), o.got[s])]
        /\ UNCHANGED <<status, replans, results, born, ended>>
    BY <1>3 DEF RecordDispatch, child_vars
  <2>2. ASSUME NEW s \in Steps
        PROVE  /\ step'[s] \in Step
               /\ step'[s].st = "dispatched" => step'[s].key \in 1..born
    <3>1. CASE o.got[s] = NoChild
      BY <1>0, <2>1, <3>1 DEF Manned
    <3>2. CASE o.got[s] # NoChild
      <4>1. base(s) \in Step
        BY <1>0 DEF Call
      <4>2. o.got[s] \in Keys /\ o.got[s] \in 1..born
        BY <1>0, <3>2 DEF CallOK, GotOK, NoChild
      <4>3. step'[s] = Taken(base(s), o.got[s])
        BY <2>1, <3>2
      <4> HIDE DEF base, o
      <4>4. Taken(base(s), o.got[s]).key = o.got[s]
        BY <4>1 DEF Taken, Step
      <4> QED BY <4>1, <4>2, <4>3, <4>4, StepFields
    <3> QED BY <3>1, <3>2
  <2>3. step' \in [Steps -> Step]
    BY <2>1, <2>2
  <2> QED BY <1>0, <2>1, <2>2, <2>3 DEF Manned
<1>4. ASSUME NEW c \in Callers, RecordResult(c) PROVE RowTyped'
  <2> DEFINE o == call[c]
             hit == o.sid \cap Present(step)
             Made(v) == [s \in Steps |-> IF s \in hit THEN [step[s] EXCEPT !.st = v] ELSE step[s]]
  <2>1. Bringing(c) /\ o.child \in (1..born) \cup {Foreign} /\ hit \subseteq Steps
    BY <1>4, <1>0 DEF RecordResult, Bringing, CallOK, BringOK, Call
  <2>2. /\ status' \in Flows /\ results' \subseteq 1..born
        /\ UNCHANGED <<replans, born, ended>>
    BY <1>4, <1>0, <2>1 DEF RecordResult, Flows, child_vars
  <2>3. CASE /\ o.verdict = "retry"
             /\ step' = [s \in Steps |-> IF s \in hit THEN Retried(step[s], o.got[s], o.count + 1)
                                                      ELSE step[s]]
    <3>1. /\ o.count + 1 \in 0..Top
          /\ \A s \in o.sid : o.got[s] # NoChild
      BY <1>0, <2>1, <2>3, Ranges DEF CallOK, BringOK, Call
    <3>2. ASSUME NEW s \in Steps
          PROVE  /\ step'[s] \in Step
                 /\ step'[s].st = "dispatched" => step'[s].key \in 1..born
      <4>1. CASE s \in hit
        <5>1. o.got[s] \in Keys /\ o.got[s] \in 1..born
          BY <1>0, <3>1, <4>1 DEF CallOK, GotOK, NoChild
        <5>2. step'[s] = Retried(step[s], o.got[s], o.count + 1)
          BY <2>3, <4>1
        <5> HIDE DEF o
        <5>3. \A k, n : Retried(step[s], k, n).key = k
          BY <1>0 DEF Retried, Taken, Step
        <5>4. Retried(step[s], o.got[s], o.count + 1) \in Step
          BY <1>0, <3>1, <5>1, StepFields, Zenon
        <5> QED BY <5>1, <5>2, <5>3, <5>4
      <4>2. CASE s \notin hit
        BY <1>0, <2>3, <4>2 DEF Manned
      <4> QED BY <4>1, <4>2
    <3>3. step' \in [Steps -> Step]
      BY <2>3, <3>2
    <3> QED BY <1>0, <2>2, <3>2, <3>3 DEF Manned
  <2>4. ASSUME NEW v \in {"done", "failed", "skipped", "blocked"}, step' = Unlock(Made(v))
        PROVE  RowTyped'
    <3>1. v \in Statuses /\ v # "dispatched"
      BY DEF Statuses
    <3>2. Made(v) \in [Steps -> Step]
      BY <1>0, <3>1, StepFields
    <3>3. ASSUME NEW s \in Steps, Made(v)[s].st = "dispatched" PROVE Made(v)[s].key \in 1..born
      <4>1. CASE s \in hit
        BY <1>0, <3>1, <3>3, <4>1 DEF Step
      <4>2. CASE s \notin hit
        BY <1>0, <3>3, <4>2 DEF Manned
      <4> QED BY <4>1, <4>2
    <3> HIDE DEF Made
    <3>4. ASSUME NEW s \in Steps, step'[s].st = "dispatched" PROVE step'[s].key \in 1..born
      BY <2>4, <3>2, <3>3, <3>4, UnlockKeeps
    <3>5. step' \in [Steps -> Step]
      BY <2>4, <3>2, UnlockTyped
    <3> QED BY <1>0, <2>2, <3>4, <3>5 DEF Manned
  <2> QED BY <1>4, <2>3, <2>4 DEF RecordResult
<1>5. ASSUME NEW c \in Callers, RecordPlan(c) PROVE RowTyped'
  <2>1. /\ call[c].count < MaxReplan /\ call[c].count \in Nat
        /\ call[c].plan \in [Steps -> Step] /\ Manned(call[c].plan)
    BY <1>5, <1>0 DEF RecordPlan, MayWrite, CallOK, PlanOK, Planning, Call
  <2>2. /\ step' = call[c].plan /\ replans' = call[c].count + 1 /\ status' = "running"
        /\ UNCHANGED <<results, born, ended>>
    BY <1>5 DEF RecordPlan, child_vars
  <2> QED BY <1>0, <2>1, <2>2, FlowAssumption DEF Flows, Manned
<1>6. ASSUME NEW c \in Callers, RecordRetries(c) PROVE RowTyped'
  <2> DEFINE o == call[c]
             n(s) == o.plan[s].n + 1
             again == {s \in Present(step) : o.got[s] # NoChild}
  <2>1. /\ step' = [s \in Steps |->
              CASE s \in again                             -> Retried(step[s], o.got[s], n(s))
                [] s \in (Present(step) \cap o.sid) \ again -> [step[s] EXCEPT !.st = "done"]
                [] OTHER                                  -> step[s]]
        /\ results' = results \cup {o.plan[s].key : s \in o.sid}
        /\ UNCHANGED <<status, replans, born, ended>>
    BY <1>6 DEF RecordRetries, child_vars
  <2>2. RetryOK(c) /\ Retrying(c) /\ GotOK(c) /\ At(c, "write")
    BY <1>6, <1>0 DEF RecordRetries, MayWrite, Retrying, CallOK
  <2>3. ASSUME NEW s \in Steps
        PROVE  /\ step'[s] \in Step
               /\ step'[s].st = "dispatched" => step'[s].key \in 1..born
    <3>1. CASE s \in again
      <4>1. o.got[s] \in Keys /\ o.got[s] \in 1..born
        BY <1>0, <2>2, <3>1 DEF GotOK, NoChild
      <4>2. n(s) \in 0..Top
        <5>1. o.plan[s].n < MaxRetry /\ o.plan[s].n \in 0..Top
          BY <1>0, <2>2, <3>1 DEF RetryOK, Serves, Call, Step
        <5> QED BY <5>1, Ranges, FlowAssumption
      <4> HIDE DEF n
      <4>3. step'[s] = Retried(step[s], o.got[s], n(s))
        BY <2>1, <3>1
      <4> HIDE DEF o
      <4>4. \A k, m : Retried(step[s], k, m).key = k
        BY <1>0 DEF Retried, Taken, Step
      <4>5. Retried(step[s], o.got[s], n(s)) \in Step
        BY <1>0, <4>1, <4>2, StepFields, Zenon
      <4> QED BY <4>1, <4>3, <4>4, <4>5
    <3>2. CASE s \in (Present(step) \cap o.sid) \ again
      <4>1. step'[s] = [step[s] EXCEPT !.st = "done"]
        BY <2>1, <3>2
      <4>2. "done" \in Statuses
        BY DEF Statuses
      <4>3. [step[s] EXCEPT !.st = "done"] \in Step
        BY <1>0, <4>2, StepFields, Zenon
      <4>4. [step[s] EXCEPT !.st = "done"].st = "done"
        BY <1>0 DEF Step
      <4> QED BY <4>1, <4>3, <4>4
    <3>3. CASE s \notin again /\ s \notin (Present(step) \cap o.sid) \ again
      <4>1. step'[s] = step[s]
        BY <2>1, <3>3
      <4> QED BY <1>0, <4>1 DEF Manned
    <3> QED BY <3>1, <3>2, <3>3
  <2>4. step' \in [Steps -> Step]
    BY <2>1, <2>3
  <2>5. results' \subseteq 1..born
    BY <1>0, <2>1, <2>2 DEF RetryOK
  <2> QED BY <1>0, <2>1, <2>3, <2>4, <2>5 DEF Manned
<1>7. CASE ChildEnds
  <2>1. UNCHANGED row_vars /\ ended' \subseteq 1..born
    BY <1>0, <1>7 DEF ChildEnds
  <2> QED BY <1>1, <2>1
<1>8. ASSUME \A s \in Steps : \/ step'[s] = step[s]
                             \/ \E st \in Statuses \ {"dispatched"} : step'[s] = [step[s] EXCEPT !.st = st],
             step' = [s \in Steps |-> step'[s]],
             status' \in Flows, UNCHANGED <<results, replans, child_vars>>
      PROVE  RowTyped'
  <2>1. ASSUME NEW s \in Steps
        PROVE  /\ step'[s] \in Step
               /\ step'[s].st = "dispatched" => step'[s].key \in 1..born
    <3>1. CASE step'[s] = step[s]
      BY <1>0, <3>1 DEF Manned
    <3>2. ASSUME NEW st \in Statuses \ {"dispatched"}, step'[s] = [step[s] EXCEPT !.st = st]
          PROVE  step'[s] \in Step /\ step'[s].st # "dispatched"
      BY <1>0, <3>2, StepFields DEF Step
    <3> QED BY <1>8, <3>1, <3>2
  <2>2. step' \in [Steps -> Step]
    BY <1>8, <2>1
  <2> QED BY <1>0, <1>8, <2>1, <2>2 DEF Manned, child_vars
<1>9. CASE Cancel \/ AutoFail \/ Collect
  <2>1. {"failed", "cancelled"} \subseteq (Statuses \ {"dispatched"}) \cap Flows
    BY DEF Statuses, Flows
  <2> QED BY <1>8, <1>9, <2>1 DEF Cancel, AutoFail, Collect, Settle
<1>10. CASE Fail \/ Finish \/ FinishRejected \/ Supersede \/ SetWaiting \/ UNCHANGED vars
  <2>1. step' = step /\ status' \in Flows /\ UNCHANGED <<results, replans, child_vars>>
    BY <1>0, <1>10 DEF Fail, Finish, FinishRejected, Supersede, SetWaiting, Flows, row_vars, vars
  <2> QED BY <1>0, <2>1 DEF child_vars, Manned
<1>11. CASE Edit
  <2> DEFINE F(keep, e) == [s \in Steps |->
                   IF s \in keep THEN step[s]
                   ELSE IF e[s].st # "absent" /\ step[s].st \in {"dispatched", "done"}
                          THEN [e[s] EXCEPT !.key = step[s].key]
                          ELSE e[s]]
             Ok(f) == \A s \in Present(f) : MayBecome(step[s], f[s])
  <2>1. PICK keep \in SUBSET Steps :
          \E e \in [Steps \ keep -> EditSteps \cup {Absent}] : Ok(F(keep, e)) /\ step' = F(keep, e)
    BY <1>11 DEF Edit
  <2>2. PICK e \in [Steps \ keep -> EditSteps \cup {Absent}] : Ok(F(keep, e)) /\ step' = F(keep, e)
    BY <2>1
  <2>3. ASSUME NEW s \in Steps PROVE step'[s] \in Step
    <3>1. CASE s \in keep
      BY <1>0, <2>2, <3>1
    <3>2. CASE s \notin keep
      <4>1. e[s] \in Step /\ step[s].key \in Keys
        BY <1>0, <2>2, <3>2, StepFields, FlowAssumption DEF Step
      <4>2. step'[s] = e[s] \/ step'[s] = [e[s] EXCEPT !.key = step[s].key]
        BY <2>2, <3>2
      <4> QED BY <4>1, <4>2, StepFields
    <3> QED BY <3>1, <3>2
  <2>4. ASSUME NEW s \in Steps, step'[s].st = "dispatched" PROVE step'[s].key \in 1..born
    <3>1. MayBecome(step[s], step'[s])
      BY <2>2, <2>4 DEF Present
    <3>2. step[s].st = "dispatched" /\ step'[s].key = step[s].key
      BY <2>4, <3>1 DEF MayBecome
    <3> QED BY <1>0, <3>2 DEF Manned
  <2>5. step' = [s \in Steps |-> step'[s]]
    BY <2>2
  <2>6. UNCHANGED <<status, results, replans, born, ended>>
    BY <1>11 DEF Edit, child_vars
  <2> QED BY <1>0, <2>3, <2>4, <2>5, <2>6 DEF Manned
<1> QED
  BY <1>2, <1>3, <1>4, <1>5, <1>6, <1>7, <1>9, <1>10, <1>11
  DEF FlowNext, Dispatching, Resuming, Waiting

\* Every step keeps the types.
LEMMA TypedStep == FlowInv /\ [FlowNext]_vars => Typed'
  BY RowStep, CallsTyped DEF Typed

---------------------------------------------------------------------------
(* The invariant is inductive: calls *)

\* A step of one call, and a step of none.
ByCall(c) == \/ ReRead(c) \/ GiveUp(c) \/ Dispatching(c) \/ Resuming(c)
             \/ Replan(c) \/ RecordPlan(c) \/ Waiting(c)
ByNone == \/ ChildEnds \/ Cancel \/ Fail \/ AutoFail \/ Collect \/ Finish \/ FinishRejected
          \/ Supersede \/ SetWaiting \/ Edit

\* What becomes of a call whose step it is not: it is left behind by a write.
Moved(d) ==
  \/ call'[d] = call[d] /\ (UNCHANGED <<status, step>> \/ call[d].pc \in {"off", "wave", "poll"})
  \/ call'[d] = [call[d] EXCEPT !.behind = TRUE]

\* A write moves the calls it leaves as they are.
LEMMA BehindMoves ==
  ASSUME NEW f \in [Callers -> Call], call' = Behind(f), NEW d \in Callers, f[d] = call[d]
  PROVE  Moved(d)
  BY BehindKeeps DEF Moved

\* A tool that reads and writes at once moves every call.
LEMMA NoneMoves ==
  ASSUME Typed, ByNone \/ UNCHANGED vars, NEW d \in Callers
  PROVE  Moved(d)
<1>1. CASE ChildEnds \/ UNCHANGED vars
  BY <1>1 DEF ChildEnds, Moved, vars, row_vars
<1>2. CASE call' = Behind(call)
  BY <1>2, BehindMoves DEF Typed
<1> QED BY <1>1, <1>2 DEF ByNone, Cancel, Fail, AutoFail, Collect, Settle, Finish, FinishRejected,
                         Supersede, SetWaiting, Edit, Written

\* A step of a call moves the others.
LEMMA OthersMove ==
  ASSUME Typed, NEW c \in Callers, ByCall(c), NEW d \in Callers, d # c
  PROVE  Moved(d)
<1>1. CASE UNCHANGED row_vars /\ \E o : call' = [call EXCEPT ![c] = o]
  BY <1>1 DEF Typed, Moved, row_vars
<1>2. CASE \E o \in Call : call' = Behind([call EXCEPT ![c] = o])
  <2>1. PICK o \in Call : call' = Behind([call EXCEPT ![c] = o])
    BY <1>2
  <2>2. [call EXCEPT ![c] = o] \in [Callers -> Call] /\ [call EXCEPT ![c] = o][d] = call[d]
    BY DEF Typed
  <2> QED BY <2>1, <2>2, BehindMoves
<1>3. CASE RecordDispatch(c) \/ RecordPlan(c) \/ RecordRetries(c)
  <2>1. End(c)
    BY <1>3 DEF RecordDispatch, RecordPlan, RecordRetries
  <2> QED BY <1>2, <2>1, NoOpIsCall DEF End
<1>4. CASE RecordResult(c)
  BY <1>2, <1>4, ResultThen DEF Typed
<1>5. CASE ReRead(c) \/ GiveUp(c) \/ Dispatch(c) \/ TakeWave(c) \/ Spawn(c)
  BY <1>1, <1>5 DEF ReRead, GiveUp, Dispatch, TakeWave, Spawn, Quit, row_vars
<1>6. CASE (\E k \in (1..born) \cup {Foreign} : Resume(c, k)) \/ Judge(c)
  BY <1>1, <1>6 DEF Resume, Judge, row_vars
<1>7. CASE Replan(c)
  BY <1>1, <1>7 DEF Replan, PlanFor, row_vars
<1>8. CASE WaitAll(c) \/ Settled(c) \/ Respawn(c)
  BY <1>1, <1>8 DEF WaitAll, Settled, Respawn, Quit, row_vars
<1> QED BY <1>3, <1>4, <1>5, <1>6, <1>7, <1>8 DEF ByCall, Dispatching, Resuming, Waiting

\* What holds of a call survives the steps of the others.
LEMMA MovedKeeps ==
  ASSUME Typed, NEW d \in Callers, CallOK(d), Moved(d),
         1..born \subseteq 1..born', 0..born \subseteq 0..born'
  PROVE  CallOK(d)' /\ (Sending(d)' <=> Sending(d))
<1> USE DEF Moved, At, Sending, Bringing, Planning, Retrying, UpToDate, First, Serves
<1>0. call[d] \in Call
  BY DEF Typed
<1>1. SendOK(d)' /\ (Sending(d)' <=> Sending(d))
  BY <1>0 DEF CallOK, SendOK, Call
<1>2. BringOK(d)'
  BY <1>0 DEF CallOK, BringOK, Call
<1>3. PlanOK(d)'
  BY <1>0 DEF CallOK, PlanOK, Manned, Call
<1>4. RetryOK(d)'
  BY <1>0 DEF CallOK, RetryOK, Call
<1>5. OpenOK(d)'
  BY <1>0 DEF CallOK, OpenOK, Call, Terminal
<1>6. GotOK(d)'
  BY <1>0 DEF CallOK, GotOK, Call
<1> QED BY <1>1, <1>2, <1>3, <1>4, <1>5, <1>6 DEF CallOK

\* A call that ends, or waits, is about nothing.
LEMMA IdleOK ==
  ASSUME NEW c \in Callers, call'[c].pc \in {"off", "wave", "poll"}, call'[c].child = NoChild,
         GotOK(c)'
  PROVE  CallOK(c)' /\ ~Sending(c)'
  BY DEF CallOK, SendOK, BringOK, PlanOK, RetryOK, OpenOK, At, Sending, Bringing,
         Planning, Retrying

\* A call that does nothing, or has spawned nothing.
LEMMA NoneGot ==
  ASSUME born' \in Nat, NEW c \in Callers, call'[c].got = NoOp.got
  PROVE  GotOK(c)'
  BY DEF GotOK, NoOp, NoChild

\* The dispatch lock is taken free, and freed by who has it.
LockStep(c) ==
  \/ lock' = lock /\ (Sending(c)' <=> Sending(c))
  \/ lock = NoCall /\ lock' = c /\ Sending(c)'
  \/ lock = c /\ lock' = NoCall /\ ~Sending(c)'

\* A call that ends does nothing.
LEMMA EndCall ==
  ASSUME Typed, NEW c \in Callers, End(c)
  PROVE  call'[c] = NoOp
<1>1. [call EXCEPT ![c] = NoOp] \in [Callers -> Call]
  BY NoOpIsCall DEF Typed
<1> QED BY <1>1, BehindKeeps DEF End, NoOp

\* A call keeps what holds of it by its own steps.
LEMMA OwnStep ==
  ASSUME FlowInv, NEW c \in Callers, ByCall(c)
  PROVE  CallOK(c)' /\ LockStep(c)
<1> USE DEF At, Sending, Bringing, Planning, Retrying, UpToDate, First, Serves, CallOK, SendOK,
            BringOK, PlanOK, RetryOK, OpenOK, GotOK
<1>0. /\ Typed /\ RowTyped /\ call[c] \in Call /\ call \in [Callers -> Call] /\ CallOK(c)
      /\ (lock = c <=> Sending(c)) /\ \A s \in Steps : step[s] \in Step
      /\ NoOp \in Call /\ NoOp.pc = "off" /\ NoOp.child = NoChild
      /\ born \in 0..MaxChild /\ born' \in born..MaxChild /\ born' \in Nat /\ 0 \in 0..born'
      /\ 1..born \subseteq 1..born' /\ 0..born \subseteq 0..born'
  <2>1. FlowNext
    BY DEF ByCall, FlowNext
  <2>2. /\ born \in 0..MaxChild /\ born' \in born..MaxChild
        /\ 1..born \subseteq 1..born' /\ 0..born \subseteq 0..born'
    BY <2>1, BornGrows
  <2>3. born' \in Nat /\ 0 \in 0..born'
    BY <2>2, FlowAssumption
  <2>4. NoOp \in Call /\ NoOp.pc = "off" /\ NoOp.child = NoChild
    BY NoOpIsCall DEF NoOp
  <2> QED BY <2>2, <2>3, <2>4 DEF FlowInv, Typed, RowTyped, CallsOK, LockHeld
<1>1. ASSUME call'[c] = NoOp PROVE CallOK(c)' /\ ~Sending(c)'
  BY <1>0, <1>1, NoneGot, IdleOK
<1>2. ASSUME NEW S \in SUBSET Steps, NEW f \in Spawned(S), born' = born + Cardinality(Support(f))
      PROVE  \A s \in Steps : f[s] \in 0..born' /\ (f[s] # NoChild => s \in S)
  BY <1>0, <1>2, SpawnedShape
<1>3. CASE ReRead(c)
  <2>1. /\ call'[c] = [call[c] EXCEPT !.behind = FALSE, !.tries = @ + 1]
        /\ call[c].tries + 1 # 1 /\ call'[c].tries = call[c].tries + 1
    BY <1>3, <1>0 DEF ReRead, Call
  <2>2. ~Terminal' /\ UNCHANGED <<step, born, lock>>
    BY <1>3 DEF ReRead, Terminal, row_vars, child_vars
  <2> QED BY <1>3, <1>0, <2>1, <2>2 DEF ReRead, LockStep, Call
<1>4. CASE GiveUp(c)
  <2>1. call'[c] = NoOp
    BY <1>4, <1>0 DEF GiveUp, Quit
  <2> QED BY <1>4, <1>0, <1>1, <2>1 DEF GiveUp, LockStep
<1>5. CASE Dispatch(c)
  <2>0. PICK S \in SUBSET {s \in Steps : Dispatchable(s)} :
          call' = [call EXCEPT ![c] =
            [NoOp EXCEPT !.pc = "spawn", !.want = S,
               !.plan = [s \in Steps |->
                  IF s \notin S THEN Absent
                  ELSE [step[s] EXCEPT !.n = IF Redispatched(step[s]) THEN @ + 1 ELSE @]]]]
    BY <1>5 DEF Dispatch
  <2> DEFINE pl == [s \in Steps |->
                  IF s \notin S THEN Absent
                  ELSE [step[s] EXCEPT !.n = IF Redispatched(step[s]) THEN @ + 1 ELSE @]]
  <2>1. call'[c] = [NoOp EXCEPT !.pc = "spawn", !.want = S, !.plan = pl]
    BY <1>0, <2>0
  <2> HIDE DEF pl
  <2>2. /\ call'[c].pc = "spawn" /\ call'[c].want = S /\ call'[c].child = NoChild
        /\ call'[c].got = NoOp.got /\ \A s \in Steps : NoOp.got[s] = NoChild
    BY <2>1 DEF NoOp
  <2>3. \A s \in S : step'[s].st # "dispatched"
    BY <1>5 DEF Dispatch, Dispatchable, row_vars
  <2>4. CallOK(c)' /\ Sending(c)'
    BY <1>0, <2>2, <2>3, NoneGot
  <2> QED BY <1>5, <2>4 DEF Dispatch, LockStep
<1>6. CASE TakeWave(c)
  <2>1. call[c].child = NoChild /\ ~Sending(c)
    BY <1>6, <1>0 DEF TakeWave
  <2>2. CASE call'[c] = NoOp /\ UNCHANGED lock
    BY <1>1, <2>1, <2>2 DEF LockStep
  <2>3. CASE /\ call'[c] = [call[c] EXCEPT !.pc = "spawn", !.want = @ \cap Ready(step)]
             /\ lock' = c
    <3>1. /\ call'[c].pc = "spawn" /\ call'[c].child = NoChild /\ call'[c].got = call[c].got
          /\ call'[c].want = call[c].want \cap Ready(step)
      BY <1>0, <2>1, <2>3 DEF Call
    <3>2. \A s \in call'[c].want : step[s].st # "dispatched"
      BY <3>1 DEF Ready
    <3>3. step' = step /\ lock = NoCall
      BY <1>6, <1>0 DEF TakeWave, row_vars
    <3> QED BY <1>0, <2>3, <3>1, <3>2, <3>3 DEF LockStep
  <2> QED BY <1>6, <1>0, <2>2, <2>3 DEF TakeWave, Quit
<1>7. CASE Spawn(c)
  <2>1. call[c].child = NoChild /\ Sending(c) /\ lock = c /\ step' = step
        /\ call[c].pc = "spawn" /\ call[c].want \in SUBSET Steps
    BY <1>7, <1>0 DEF Spawn, row_vars, Call
  <2>2. CASE call'[c] = NoOp /\ lock' = NoCall
    BY <1>1, <2>1, <2>2 DEF LockStep
  <2>3. ASSUME NEW f \in Spawned(call[c].want), born' = born + Cardinality(Support(f)), lock' = lock,
               call'[c] = [call[c] EXCEPT !.pc = "write", !.verdict = "dispatch",
                                          !.want = {}, !.got = f]
        PROVE  CallOK(c)' /\ LockStep(c)
    <3>1. \A s \in Steps : f[s] \in 0..born' /\ (f[s] # NoChild => s \in call[c].want)
      BY <1>2, <2>1, <2>3
    <3>2. /\ call'[c].pc = "write" /\ call'[c].verdict = "dispatch" /\ call'[c].want = {}
          /\ call'[c].got = f /\ call'[c].child = NoChild
          /\ call'[c].behind = call[c].behind /\ call'[c].tries = call[c].tries
      BY <1>0, <2>1, <2>3 DEF Call
    <3>3. CallOK(c)' /\ Sending(c)'
      BY <1>7, <1>0, <2>1, <3>1, <3>2
    <3> QED BY <2>1, <2>3, <3>3 DEF LockStep
  <2> QED BY <1>7, <1>0, <2>2, <2>3 DEF Spawn, Quit
<1>8. CASE RecordDispatch(c)
  <2>1. call'[c] = NoOp /\ lock = c /\ lock' = NoCall
    BY <1>8, <1>0, EndCall DEF RecordDispatch, MayWrite
  <2> QED BY <1>1, <2>1 DEF LockStep
<1>9. ASSUME NEW k \in (1..born) \cup {Foreign}, Resume(c, k) PROVE CallOK(c)' /\ LockStep(c)
  <2>1. /\ ~Sending(c) /\ ~Terminal' /\ k # NoChild /\ k \in (1..born') \cup {Foreign}
        /\ UNCHANGED <<lock, step>>
    <3>1. k # NoChild
      BY <1>0, Ranges DEF NoChild
    <3> QED BY <1>9, <1>0, <3>1 DEF Resume, Terminal, row_vars, child_vars
  <2> DEFINE o(S, T, n) == [NoOp EXCEPT !.pc = "judge", !.child = k, !.was = status,
                                        !.sid = S, !.want = T, !.count = n]
  <2>2. /\ \A S, T, n : /\ o(S, T, n).pc = "judge" /\ o(S, T, n).child = k /\ o(S, T, n).sid = S
                        /\ o(S, T, n).want = T /\ o(S, T, n).count = n
                        /\ o(S, T, n).verdict = "none" /\ o(S, T, n).got = NoOp.got
    BY DEF NoOp
  <2>3. \/ \E s \in Steps : /\ step[s].key = k
                            /\ call'[c] = o({s}, IF MayRetry(step[s]) THEN {s} ELSE {}, step[s].n)
        \/ call'[c] = o({}, {}, 0)
    BY <1>9, <1>0 DEF Resume
  <2> HIDE DEF o
  <2>4. \A s \in Steps : MayRetry(step[s]) => step[s].n < Top
    <3>1. \A s \in Steps : step[s].n \in Nat
      BY <1>0, Ranges DEF Step
    <3> QED BY <3>1, Ranges, FlowAssumption DEF MayRetry
  <2>5. CallOK(c)' /\ ~Sending(c)'
    <3>1. CASE call'[c] = o({}, {}, 0)
      BY <1>0, <2>1, <2>2, <3>1, NoneGot
    <3>2. ASSUME NEW s \in Steps, step[s].key = k,
                 call'[c] = o({s}, IF MayRetry(step[s]) THEN {s} ELSE {}, step[s].n)
          PROVE  CallOK(c)' /\ ~Sending(c)'
      <4>1. /\ call'[c].pc = "judge" /\ call'[c].child = k /\ call'[c].sid = {s}
            /\ call'[c].count = step[s].n /\ call'[c].verdict = "none" /\ call'[c].got = NoOp.got
            /\ call'[c].want = IF MayRetry(step[s]) THEN {s} ELSE {}
        BY <2>2, <3>2
      <4>2. call'[c].want \subseteq {s} /\ (call'[c].want # {} => call'[c].count < Top)
        BY <2>4, <4>1
      <4> QED BY <1>0, <2>1, <3>2, <4>1, <4>2, NoneGot
    <3> QED BY <2>3, <3>1, <3>2
  <2> QED BY <2>1, <2>5 DEF LockStep
<1>10. CASE Judge(c)
  <2>1. /\ ~Sending(c) /\ UNCHANGED <<lock, step, status, ended>> /\ call[c].pc = "judge"
        /\ call[c].want \in SUBSET Steps
    BY <1>10, <1>0 DEF Judge, row_vars, Call
  <2>2. ASSUME call'[c] = [call[c] EXCEPT !.pc = "write", !.verdict = "outcome",
                                          !.want = {}, !.count = 0]
        PROVE  CallOK(c)' /\ ~Sending(c)'
    <3>1. /\ call'[c].pc = "write" /\ call'[c].verdict = "outcome" /\ call'[c].want = {}
          /\ call'[c].got = call[c].got /\ call'[c].child = call[c].child
          /\ call'[c].sid = call[c].sid
          /\ call'[c].behind = call[c].behind /\ call'[c].tries = call[c].tries
      BY <1>0, <2>2 DEF Call
    <3> QED BY <1>0, <2>1, <3>1 DEF Terminal
  <2>3. ASSUME NEW f \in Spawned(call[c].want), Support(f) # {},
               born' = born + Cardinality(Support(f)),
               call'[c] = [call[c] EXCEPT !.pc = "write", !.verdict = "retry",
                                          !.want = {}, !.got = f]
        PROVE  CallOK(c)' /\ ~Sending(c)'
    <3>1. \A s \in Steps : f[s] \in 0..born' /\ (f[s] # NoChild => s \in call[c].want)
      BY <1>2, <2>1, <2>3
    <3>2. /\ call'[c].pc = "write" /\ call'[c].verdict = "retry" /\ call'[c].want = {}
          /\ call'[c].got = f /\ call'[c].child = call[c].child
          /\ call'[c].sid = call[c].sid /\ call'[c].count = call[c].count
          /\ call'[c].behind = call[c].behind /\ call'[c].tries = call[c].tries
      BY <1>0, <2>3 DEF Call
    <3>3. call[c].want # {} /\ \A s \in call[c].sid : f[s] # NoChild
      <4>1. PICK s \in Steps : f[s] # NoChild
        BY <2>3 DEF Support
      <4>2. s \in call[c].want /\ s \in call[c].sid
        BY <1>0, <2>1, <3>1, <4>1
      <4> QED BY <1>0, <2>1, <4>1, <4>2
    <3> QED BY <1>0, <2>1, <3>1, <3>2, <3>3 DEF Terminal
  <2> QED BY <1>10, <1>0, <2>1, <2>2, <2>3 DEF Judge, LockStep
<1>11. CASE RecordResult(c)
  <2>1. PICK o \in Call : /\ o.pc \in {"off", "wave"} /\ o.child = NoChild /\ o.got = NoOp.got
                         /\ call' = Behind([call EXCEPT ![c] = o])
    BY <1>11, <1>0, ResultThen
  <2>2. [call EXCEPT ![c] = o] \in [Callers -> Call] /\ [call EXCEPT ![c] = o][c] = o
    BY <1>0
  <2>3. call'[c] = o
    BY <2>1, <2>2, BehindKeeps
  <2>4. CallOK(c)' /\ ~Sending(c)'
    BY <1>0, <2>1, <2>3, NoneGot, IdleOK
  <2>5. ~Sending(c)
    BY <1>11, <1>0 DEF RecordResult, MayWrite
  <2> QED BY <1>11, <2>4, <2>5 DEF RecordResult, LockStep
<1>12. CASE Replan(c)
  <2>1. PICK kept \in SUBSET Steps :
          PlanFor(c, kept) /\ \A s \in Steps : step[s].st = "dispatched" => s \in kept
    BY <1>12 DEF Replan
  <2>2. PICK pl \in [Steps -> Step] :
          /\ call' = [call EXCEPT ![c] = [NoOp EXCEPT !.pc = "write", !.verdict = "replan",
                                                     !.count = replans, !.plan = pl]]
          /\ \A s \in Steps : IF s \in kept THEN pl[s] = step[s] ELSE pl[s].st # "dispatched"
    BY <1>0, <2>1, PlanShape DEF RowTyped
  <2>3. /\ call'[c].pc = "write" /\ call'[c].child = NoChild /\ call'[c].verdict = "replan"
        /\ call'[c].count = replans /\ call'[c].plan = pl /\ call'[c].got = NoOp.got
    BY <1>0, <2>2 DEF NoOp
  <2>4. /\ ~Terminal' /\ replans < MaxReplan /\ UNCHANGED <<step, lock>> /\ ~Sending(c)
    BY <2>1 DEF PlanFor, Terminal, row_vars
  <2>5. \A s \in Steps : /\ step[s].st = "dispatched" => pl[s] = step[s]
                         /\ pl[s].st = "dispatched" => pl[s].key \in 1..born'
    BY <1>0, <2>1, <2>2 DEF RowTyped, Manned
  <2>6. CallOK(c)' /\ ~Sending(c)'
    BY <1>0, <2>3, <2>4, <2>5, NoneGot DEF Manned
  <2> QED BY <2>4, <2>6 DEF LockStep
<1>13. CASE RecordPlan(c)
  <2>1. call'[c] = NoOp /\ ~Sending(c) /\ lock' = lock
    BY <1>13, <1>0, EndCall DEF RecordPlan, MayWrite
  <2> QED BY <1>1, <2>1 DEF LockStep
<1>14. CASE WaitAll(c)
  <2> DEFINE T == {s \in Steps : step[s].st = "dispatched"}
             g == [s \in Steps |-> IF s \in T THEN step[s].key ELSE NoChild]
  <2>1. call'[c] = [NoOp EXCEPT !.pc = "poll", !.want = T, !.got = g] /\ lock' = lock /\ ~Sending(c)
    BY <1>14, <1>0 DEF WaitAll
  <2>2. \A s \in Steps : g[s] \in 0..born'
    BY <1>0 DEF RowTyped, Manned, NoChild
  <2> HIDE DEF g, T
  <2>3. call'[c].pc = "poll" /\ call'[c].child = NoChild /\ call'[c].got = g
    BY <2>1 DEF NoOp
  <2> QED BY <2>1, <2>2, <2>3, IdleOK DEF LockStep
<1>15. CASE Settled(c)
  <2>1. ~Sending(c) /\ UNCHANGED <<lock, step, born, ended>>
    BY <1>15 DEF Settled, row_vars, child_vars
  <2>2. CASE call'[c] = NoOp
    BY <1>1, <2>1, <2>2 DEF LockStep
  <2> DEFINE S == {s \in call[c].want : step[s].pol /\ call[c].got[s] \notin results}
             T == {s \in S : step[s].n < MaxRetry}
             pl == [s \in Steps |-> IF s \in S
                      THEN [Absent EXCEPT !.key = call[c].got[s], !.n = step[s].n] ELSE Absent]
  <2>3. CASE call'[c] = [NoOp EXCEPT !.pc = "respawn", !.want = T, !.sid = S \ T, !.plan = pl]
    <3>1. S \subseteq Steps /\ \A s \in S : call[c].got[s] \in 1..born
      BY <1>15, <1>0 DEF Settled, Call, RowTyped
    <3>2. \A s \in S : pl[s].n = step[s].n /\ pl[s].key = call[c].got[s]
      BY <3>1 DEF Absent
    <3>3. /\ \A s \in T : pl[s].n < MaxRetry
          /\ \A s \in S \ T : pl[s].key \in 1..born'
      BY <1>0, <3>1, <3>2
    <3> HIDE DEF S, T, pl
    <3>4. /\ call'[c].pc = "respawn" /\ call'[c].child = NoChild /\ call'[c].want = T
          /\ call'[c].sid = S \ T /\ call'[c].plan = pl /\ call'[c].got = NoOp.got
          /\ \A s \in Steps : NoOp.got[s] = NoChild
      BY <2>3 DEF NoOp
    <3>5. CallOK(c)' /\ ~Sending(c)'
      BY <1>0, <3>3, <3>4, NoneGot
    <3> QED BY <2>1, <3>5 DEF LockStep
  <2> QED BY <1>15, <1>0, <2>2, <2>3 DEF Settled, Quit
<1>16. CASE Respawn(c)
  <2>1. /\ ~Sending(c) /\ call[c].child = NoChild /\ call[c].pc = "respawn" /\ lock' = lock
        /\ call[c].want \in SUBSET Steps
    BY <1>16, <1>0 DEF Respawn, Call
  <2>2. CASE call'[c] = NoOp
    BY <1>1, <2>1, <2>2 DEF LockStep
  <2>3. ASSUME NEW f \in Spawned(call[c].want), born' = born + Cardinality(Support(f)),
               call'[c] = [call[c] EXCEPT !.pc = "write", !.verdict = "wait",
                                          !.want = {}, !.got = f]
        PROVE  CallOK(c)' /\ LockStep(c)
    <3>1. \A s \in Steps : f[s] \in 0..born' /\ (f[s] # NoChild => s \in call[c].want)
      BY <1>2, <2>1, <2>3
    <3>2. /\ call'[c].pc = "write" /\ call'[c].verdict = "wait" /\ call'[c].want = {}
          /\ call'[c].got = f /\ call'[c].child = NoChild /\ call'[c].sid = call[c].sid
          /\ call'[c].plan = call[c].plan
      BY <1>0, <2>1, <2>3 DEF Call
    <3>3. CallOK(c)' /\ ~Sending(c)'
      BY <1>0, <2>1, <3>1, <3>2
    <3> QED BY <2>1, <3>3 DEF LockStep
  <2> QED BY <1>16, <1>0, <2>2, <2>3 DEF Respawn, Quit
<1>17. CASE RecordRetries(c)
  <2>1. call'[c] = NoOp /\ ~Sending(c) /\ lock' = lock
    BY <1>17, <1>0, EndCall DEF RecordRetries, MayWrite
  <2> QED BY <1>1, <2>1 DEF LockStep
<1> QED
  BY <1>3, <1>4, <1>5, <1>6, <1>7, <1>8, <1>9, <1>10, <1>11, <1>12, <1>13, <1>14, <1>15, <1>16,
     <1>17 DEF ByCall, Dispatching, Resuming, Waiting

\* Every step keeps what holds of the calls, and the lock with its holder.
LEMMA CallsStep ==
  ASSUME FlowInv, [FlowNext]_vars
  PROVE  CallsOK' /\ LockHeld'
<1>0. /\ Typed /\ NoCall \notin Callers /\ 1..born \subseteq 1..born' /\ 0..born \subseteq 0..born'
      /\ \A d \in Callers : CallOK(d) /\ (lock = d <=> Sending(d))
  BY BornGrows, FlowAssumption DEF FlowInv, CallsOK, LockHeld
<1>1. ASSUME NEW c \in Callers, ByCall(c) PROVE CallsOK' /\ LockHeld'
  <2>1. CallOK(c)' /\ LockStep(c)
    BY <1>1, OwnStep
  <2>2. \A d \in Callers \ {c} : CallOK(d)' /\ (Sending(d)' <=> Sending(d))
    BY <1>0, <1>1, OthersMove, MovedKeeps
  <2>3. CallsOK'
    BY <2>1, <2>2 DEF CallsOK
  <2>4. LockHeld'
    BY <1>0, <2>1, <2>2 DEF LockHeld, LockStep
  <2> QED BY <2>3, <2>4
<1>2. CASE ByNone \/ UNCHANGED vars
  <2>1. \A d \in Callers : CallOK(d)' /\ (Sending(d)' <=> Sending(d))
    BY <1>0, <1>2, NoneMoves, MovedKeeps
  <2>2. lock' = lock
    BY <1>2 DEF ByNone, ChildEnds, Cancel, Fail, AutoFail, Collect, Settle, Finish, FinishRejected,
                Supersede, SetWaiting, Edit, vars
  <2> QED BY <1>0, <2>1, <2>2 DEF CallsOK, LockHeld
<1> QED BY <1>1, <1>2 DEF FlowNext, ByCall, ByNone

---------------------------------------------------------------------------
(* The theorems *)

\* The invariant holds of a flow that was just created.
LEMMA InvInit == FlowInit => FlowInv
<1> SUFFICES ASSUME FlowInit PROVE FlowInv
  OBVIOUS
<1>1. Typed
  <2>1. \A s \in Steps : step[s] \in Step /\ step[s].st # "dispatched"
    <3>1. \A s \in Steps : /\ Deps[s] \in SUBSET Steps /\ (s \in Policy) \in BOOLEAN
                           /\ step[s] = Planned(Deps[s], s \in Policy)
      BY FlowAssumption DEF FlowInit
    <3>2. \A deps, pol : Planned(deps, pol).st # "dispatched"
      BY DEF Planned, Absent
    <3> QED BY <3>1, <3>2, StepFields
  <2>2. step \in [Steps -> Step]
    BY <2>1 DEF FlowInit
  <2> QED BY <2>1, <2>2, NoOpIsCall, FlowAssumption DEF FlowInit, Typed, RowTyped, Manned, Flows
<1>2. \A c \in Callers : /\ call[c] = NoOp /\ call[c].pc = "off" /\ call[c].child = NoChild
                         /\ \A s \in Steps : call[c].got[s] = 0
  BY DEF FlowInit, NoOp, NoChild
<1>3. LockHeld
  BY <1>2, FlowAssumption DEF FlowInit, LockHeld, Sending, At
<1>4. CallsOK
  BY <1>2, FlowAssumption
  DEF FlowInit, CallsOK, CallOK, SendOK, BringOK, PlanOK, RetryOK, OpenOK, GotOK, At, Sending,
      Bringing, Planning, Retrying
<1> QED BY <1>1, <1>3, <1>4 DEF FlowInv

\* The invariant holds of every reachable state.
LEMMA FlowInvariant == FlowSpec => []FlowInv
<1>1. FlowInv /\ [FlowNext]_vars => FlowInv'
  BY TypedStep, CallsStep DEF FlowInv
<1> QED BY InvInit, <1>1, PTL DEF FlowSpec

\* However the calls interleave and whatever keys, counts and steps their callers
\* pass: a step in flight carries a child of this flow, and flow_dispatch_lock
\* is held by just the call that spawns a wave or records one, so that a
\* dispatch that failed or lost the row never leaves it taken.
THEOREM FlowTypeCorrect == FlowSpec => []FlowTypeOK
<1>1. ASSUME FlowInv PROVE FlowTypeOK
  <2>1. Typed /\ RowTyped
    BY <1>1 DEF FlowInv, Typed
  <2>2. ASSUME NEW c \in Callers
        PROVE  /\ call[c].pc \in Pcs /\ call[c].verdict \in Verdicts
               /\ call[c].tries \in 1..MaxTries
               /\ lock = c <=> Sending(c)
    BY <1>1, <2>1 DEF FlowInv, LockHeld, Typed, Call
  <2> QED BY <2>1, <2>2 DEF FlowTypeOK, RowTyped, Manned, Pcs, Verdicts, Flows, Sending
<1> QED BY FlowInvariant, <1>1, PTL

\* "Terminal, no further mutations are accepted" (taskflow_finish): but for the
\* steps a dispatch or wait_all records, a flow that is over stays as it ended,
\* whatever calls were under way and however often they lost the race.
THEOREM TerminalIsFinal == FlowSpec => TerminalStands
<1>1. ASSUME FlowInv, Terminal, FlowNext
      PROVE  /\ status' = status /\ replans' = replans
             /\ step' = step \/ \E c \in Callers : RecordDispatch(c) \/ RecordRetries(c)
  <2>1. ASSUME NEW c \in Callers, RecordResult(c) \/ RecordPlan(c) PROVE FALSE
    <3>1. CallOK(c) /\ UpToDate(c) /\ At(c, "write")
      BY <1>1, <2>1 DEF FlowInv, CallsOK, RecordResult, RecordPlan, MayWrite, UpToDate
    <3>2. call[c].verdict \notin {"dispatch", "wait"}
      BY <2>1, <3>1 DEF CallOK, BringOK, Bringing, RecordResult, RecordPlan, At
    <3> QED BY <1>1, <3>1, <3>2 DEF CallOK, OpenOK
  <2>2. ASSUME NEW c \in Callers, ByCall(c), ~RecordDispatch(c), ~RecordRetries(c)
        PROVE  UNCHANGED row_vars
    BY <2>1, <2>2 DEF ByCall, Dispatching, Resuming, Waiting, ReRead, GiveUp, Dispatch, TakeWave,
                      Spawn, Resume, Judge, Replan, PlanFor, WaitAll, Settled, Respawn
  <2>3. ASSUME NEW c \in Callers, RecordDispatch(c) \/ RecordRetries(c)
        PROVE  status' = status /\ replans' = replans
    BY <2>3 DEF RecordDispatch, RecordRetries
  <2>4. CASE ByNone
    BY <1>1, <2>4 DEF ByNone, ChildEnds, Cancel, Fail, AutoFail, Collect, Settle, Finish,
                      FinishRejected, Supersede, SetWaiting, Edit, row_vars
  <2> QED BY <1>1, <2>2, <2>3, <2>4 DEF FlowNext, ByCall, ByNone, row_vars
<1>2. FlowInv /\ [FlowNext]_vars =>
        [Terminal => /\ status' = status /\ replans' = replans
                     /\ \/ step' = step
                        \/ \E c \in Callers : RecordDispatch(c) \/ RecordRetries(c)]_vars
  BY <1>1
<1> QED BY FlowInvariant, <1>2, PTL DEF FlowSpec, TerminalStands

\* "A child session that has ALREADY spawned must never be silently dropped"
\* (update_flow_with_conflict_retry): a dispatch, a result or a plan written on
\* the row it was made from leaves the steps in flight alone, but for the one
\* whose child its caller brought a result of, be that child over or not.
THEOREM RunningKept == FlowSpec => NoChildDropped
<1>1. ASSUME FlowInv, FlowNext, NEW c \in Callers, MayWrite(c), call[c].tries = 1,
             call[c].verdict # "wait", ~At(c, "write")', NEW s \in Steps, Running(s),
             step[s].key # call[c].child
      PROVE  step'[s] = step[s]
  <2>1. /\ Typed /\ CallOK(c) /\ First(c) /\ At(c, "write") /\ call[c] \in Call
        /\ step[s].st = "dispatched" /\ step \in [Steps -> Step]
    BY <1>1 DEF FlowInv, CallsOK, MayWrite, First, UpToDate, Running, Typed, RowTyped
  <2>2. ~Moved(c)
    BY <1>1, <2>1 DEF Moved, At, Call
  <2>3. ByCall(c)
    BY <1>1, <2>1, <2>2, OthersMove, NoneMoves DEF FlowNext, ByCall, ByNone
  <2>4. RecordDispatch(c) \/ RecordResult(c) \/ RecordPlan(c)
    BY <1>1, <2>1, <2>3 DEF ByCall, Dispatching, Resuming, Waiting, ReRead, GiveUp, Dispatch,
         TakeWave, Spawn, Resume, Judge, Replan, PlanFor, WaitAll, Settled, Respawn, RecordRetries,
         MayWrite, At
  <2>5. CASE RecordDispatch(c)
    <3>1. Sending(c)
      BY <2>1, <2>5 DEF RecordDispatch, Sending
    <3>2. call[c].got[s] = NoChild
      BY <2>1, <3>1 DEF CallOK, SendOK, Serves
    <3> QED BY <2>5, <3>2 DEF RecordDispatch
  <2>6. CASE RecordResult(c)
    <3> DEFINE hit == call[c].sid \cap Present(step)
               Made(v) == [t \in Steps |-> IF t \in hit THEN [step[t] EXCEPT !.st = v] ELSE step[t]]
    <3>1. s \notin hit
      BY <1>1, <2>1, <2>6 DEF RecordResult, CallOK, BringOK, Bringing
    <3>2. CASE call[c].verdict = "retry"
      BY <2>6, <3>1, <3>2 DEF RecordResult
    <3>3. ASSUME NEW v, step' = Unlock(Made(v)) PROVE step'[s] = step[s]
      <4>1. Made(v)[s] = step[s]
        BY <3>1
      <4> HIDE DEF Made
      <4> QED BY <2>1, <3>3, <4>1 DEF Unlock
    <3>4. CASE call[c].verdict # "retry"
      BY <2>6, <3>3, <3>4 DEF RecordResult
    <3> QED BY <3>2, <3>4
  <2>7. CASE RecordPlan(c)
    <3>1. Planning(c)
      BY <2>1, <2>7 DEF RecordPlan, Planning
    <3> QED BY <2>1, <2>7, <3>1 DEF RecordPlan, CallOK, PlanOK
  <2> QED BY <2>4, <2>5, <2>6, <2>7
<1>2. FlowInv /\ [FlowNext]_vars =>
        [\A c \in Callers :
           MayWrite(c) /\ call[c].tries = 1 /\ call[c].verdict # "wait" /\ ~At(c, "write")'
             => \A s \in Steps : Running(s) /\ step[s].key # call[c].child => step'[s] = step[s]]_vars
  BY <1>1
<1> QED BY FlowInvariant, <1>2, PTL DEF FlowSpec, NoChildDropped
=============================================================================
