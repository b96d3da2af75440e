------------------------- MODULE SubagentRun_proofs -------------------------
(***************************************************************************)
(* Proofs about the record of a subagent run, for any number of            *)
(* generations, tasks, retries and disturbances: the terminal lock and the *)
(* announce flow go together, a result is published once per process, and  *)
(* an ended run keeps its outcome as long as nobody holds a stale copy.    *)
(***************************************************************************)
EXTENDS SubagentRun, TLAPS

TaskRow == [pc : {"off", "lane", "run", "release", "settle", "flow", "tail"},
            cb : Gens \cup {0}, out : Outcomes, hit : BOOLEAN]
FlowRow == [pc : {"off", "capture", "publish", "third", "after"}, snap : Record, n : Nat]
SteerRow == [pc : {"off", "settle", "build"}, snap : Record]
LockRow == [by : Tasks \cup {Killer, Nobody}, base : Record]
RecRow  == [pc : {"off", "wait", "read", "steer", "flow"}, saw : SUBSET Tasks]
SweepRow == [scan : Scans \cup {"off"}, snap : Record]
Keys    == Gens \X BOOLEAN

Typed ==
  /\ mem \in Record /\ disk \in Record
  /\ work \in [Tasks -> TaskRow]
  /\ task \in Tasks \cup {0} /\ expect \in Gens \cup {0}
  /\ lock \in LockRow /\ flow \in [Flows -> FlowRow] /\ steer \in [Steerers -> SteerRow]
  /\ rec \in RecRow /\ sweep \in SweepRow
  /\ keys \subseteq Gens /\ told \subseteq Keys /\ mirror \subseteq Keys
  /\ sent \in [Keys -> Nat] /\ left \in 0..MaxDisturb

\* The lock is held while the flow it covers runs, by the task that waits for
\* that flow or by a kill.
LockCovers ==
  /\ flow["lock"].pc # "off" <=> lock.by # Nobody
  /\ \A g \in Tasks : work[g].pc = "flow" <=> lock.by = g

\* A record that says delivered is of a generation that was published, in
\* whatever copy it sits.
Heard(g)    == \E k \in told : k[1] = g
Truthful(r) == r.dlv = "delivered" => Heard(r.gen)
TrueIn(T, r) == r.dlv = "delivered" => \E k \in T : k[1] = r.gen
CopiesTrue ==
  /\ Truthful(mem) /\ Truthful(disk) /\ Truthful(lock.base) /\ Truthful(sweep.snap)
  /\ \A a \in Steerers : Truthful(steer[a].snap)
  /\ \A x \in Flows : /\ Truthful(flow[x].snap)
                      /\ flow[x].pc = "third" => Heard(flow[x].snap.gen)

\* A flow that is about to publish has entered the mirror, alone, and nothing
\* has been published for its key.
Publishing(x, k) == flow[x].pc = "publish" /\ Key(flow[x].snap) = k
Attempts ==
  /\ \A k \in Keys : sent[k] <= 1 /\ (sent[k] # 0 => k \in mirror)
  /\ \A k \in Keys, x \in Flows : Publishing(x, k) =>
       /\ k \in mirror /\ sent[k] = 0
       /\ \A y \in Flows : Publishing(y, k) => x = y

\* A steer holds the record it interrupted; the reconciliation lists live runs.
CopiesLive ==
  /\ \A a \in Steerers : steer[a].pc = "build" => steer[a].snap.st = "interrupted"
  /\ sweep.scan = "reconcile" => Live(sweep.snap)

RunInv == Typed /\ LockCovers /\ CopiesTrue /\ Attempts /\ CopiesLive

---------------------------------------------------------------------------
(* Records *)

States     == {"pending", "running", "interrupted", "terminal"}
Deliveries == {"pending", "progress", "delivered", "failed", "suspended", "discarded"}

LEMMA RecordFields ==
  ASSUME NEW r \in Record
  PROVE  /\ r.st \in States /\ r.gen \in Gens /\ r.out \in Outcomes \cup {"none"}
         /\ r.dlv \in Deliveries
BY DEF Record, States, Deliveries

\* Two records of the same run of the same generation.
Same(q, r) == q.gen = r.gen /\ q.st = r.st /\ q.out = r.out

LEMMA SameKey ==
  ASSUME NEW q, NEW r, Same(q, r) PROVE Key(q) = Key(r)
BY DEF Same, Key

LEMMA KeyOfRecord ==
  ASSUME NEW r \in Record PROVE Key(r) \in Keys /\ Key(r)[1] = r.gen
<1>1. r.gen \in Gens
  BY RecordFields
<1>2. (r.out = "ok") \in BOOLEAN
  OBVIOUS
<1> QED BY <1>1, <1>2 DEF Key, Keys

LEMMA SetDelivery ==
  ASSUME NEW r \in Record, NEW d \in Deliveries
  PROVE  /\ [r EXCEPT !.dlv = d] \in Record /\ Same([r EXCEPT !.dlv = d], r)
         /\ [r EXCEPT !.dlv = d].dlv = d
BY DEF Record, Same, Deliveries

LEMMA Closed ==
  ASSUME NEW r \in Record, NEW o \in Outcomes
  PROVE  /\ Close(r, o) \in Record /\ ~Live(Close(r, o))
         /\ Close(r, o).gen = r.gen /\ Close(r, o).dlv = r.dlv
BY DEF Record, Close, Live

LEMMA Silenced ==
  ASSUME NEW r \in Record
  PROVE  /\ [r EXCEPT !.supp = TRUE] \in Record /\ Same([r EXCEPT !.supp = TRUE], r)
         /\ [r EXCEPT !.supp = TRUE].dlv = r.dlv
BY DEF Record, Same

LEMMA Renewed ==
  ASSUME NEW r \in Record, r.gen < MaxGen
  PROVE  /\ Renew(r) \in Record /\ Renew(r).gen = r.gen + 1
         /\ Renew(r).st = "interrupted" /\ Renew(r).dlv = "pending"
<1>1. r.gen + 1 \in Gens
  BY RunAssumption, RecordFields DEF Gens
<1> QED BY <1>1 DEF Record, Renew

LEMMA Restarted ==
  ASSUME NEW r \in Record
  PROVE  LET q == [r EXCEPT !.st = "pending", !.old = FALSE, !.supp = FALSE]
         IN  q \in Record /\ q.gen = r.gen /\ q.dlv = r.dlv
BY DEF Record

LEMMA Started ==
  ASSUME NEW r \in Record
  PROVE  LET q == [r EXCEPT !.st = "running", !.old = FALSE]
         IN  q \in Record /\ q.gen = r.gen /\ q.dlv = r.dlv
BY DEF Record

LEMMA Aged ==
  ASSUME NEW r \in Record
  PROVE  LET q == [r EXCEPT !.old = TRUE]
         IN  q \in Record /\ Same(q, r) /\ q.dlv = r.dlv
BY DEF Record, Same

LEMMA WasRestored ==
  ASSUME NEW r \in Record
  PROVE  /\ Restored(r) \in Record /\ Restored(r).gen = r.gen /\ Restored(r).dlv = r.dlv
<1> DEFINE Anew(q) == [q EXCEPT !.old = FALSE]
<1>1. \A q \in Record : Anew(q) \in Record /\ Anew(q).gen = q.gen /\ Anew(q).dlv = q.dlv
  BY DEF Record
<1>2. "unstarted" \in Outcomes /\ "timeout" \in Outcomes
  BY DEF Outcomes
<1>3. CASE r.st = "pending"
  <2>1. Restored(r) = Anew(Close(r, "unstarted"))
    BY <1>3 DEF Restored
  <2> QED BY <1>1, <1>2, <2>1, Closed
<1>4. CASE r.st = "running"
  <2>1. Restored(r) = Anew(Close(r, "timeout"))
    BY <1>4 DEF Restored
  <2> QED BY <1>1, <1>2, <2>1, Closed
<1>5. CASE r.st # "pending" /\ r.st # "running"
  <2>1. Restored(r) = Anew(r)
    BY <1>5 DEF Restored
  <2> QED BY <1>1, <2>1
<1> QED BY <1>3, <1>4, <1>5

LEMMA FirstRecord ==
  ASSUME NEW k \in BOOLEAN
  PROVE  First(k) \in Record /\ First(k).dlv = "pending"
BY RunAssumption DEF First, Record, Gens

LEMMA Blank ==
  /\ NoFlow \in FlowRow /\ NoFlow.pc = "off" /\ Truthful(NoFlow.snap)
  /\ NoSteer \in SteerRow /\ NoSteer.pc = "off" /\ Truthful(NoSteer.snap)
  /\ NoRec \in RecRow
  /\ NoSweep \in SweepRow /\ NoSweep.scan = "off" /\ Truthful(NoSweep.snap)
  /\ Free \in LockRow /\ Free.by = Nobody /\ Truthful(Free.base)
  /\ NoTask \in TaskRow /\ NoTask.pc = "off"
<1>1. First(FALSE) \in Record /\ First(FALSE).dlv = "pending"
  BY FirstRecord
<1>2. Truthful(First(FALSE))
  BY <1>1 DEF Truthful
<1>3. /\ NoFlow \in FlowRow /\ NoFlow.pc = "off" /\ NoFlow.snap = First(FALSE)
      /\ NoSteer \in SteerRow /\ NoSteer.pc = "off" /\ NoSteer.snap = First(FALSE)
      /\ NoSweep \in SweepRow /\ NoSweep.scan = "off" /\ NoSweep.snap = First(FALSE)
      /\ Free \in LockRow /\ Free.by = Nobody /\ Free.base = First(FALSE)
  BY <1>1 DEF NoFlow, FlowRow, NoSteer, SteerRow, NoSweep, SweepRow, Free, LockRow
<1>4. NoRec \in RecRow /\ NoTask.pc = "off"
  BY DEF NoRec, RecRow, NoTask
<1>5. NoTask \in TaskRow
  BY DEF NoTask, TaskRow, Outcomes
<1> QED BY <1>2, <1>3, <1>4, <1>5

LEMMA Names ==
  /\ Nobody \notin Tasks /\ Killer \notin Tasks /\ Nobody # Killer /\ 0 \notin Tasks
  /\ 1 \in Tasks /\ {"lock", "recovery", "sweep"} = Flows /\ {"user", "recovery"} = Steerers
BY RunAssumption DEF Nobody, Killer, Tasks, Flows, Steerers

---------------------------------------------------------------------------
(* What steps have in common *)

LEMMA Opened ==
  ASSUME Typed, NEW x \in Flows, NEW r \in Record, Open(x, r)
  PROVE  /\ flow' \in [Flows -> FlowRow]
         /\ flow'[x].pc \in {"capture", "after"} /\ flow'[x].snap = r
         /\ \A y \in Flows : y # x => flow'[y] = flow[y]
<1> DEFINE f == [pc |-> IF ~Live(r) /\ r.dlv # "delivered" /\ ~r.supp THEN "capture" ELSE "after",
                 snap |-> r, n |-> 0]
<1>1. f \in FlowRow /\ f.pc \in {"capture", "after"} /\ f.snap = r
  BY DEF FlowRow
<1>2. flow' = [flow EXCEPT ![x] = f]
  BY DEF Open
<1> HIDE DEF f
<1> QED BY <1>1, <1>2 DEF Typed

\* Attempts at a delivery are left alone.
LEMMA CalmKeeps ==
  ASSUME Attempts, UNCHANGED <<sent, mirror>>,
         \A x \in Flows : flow'[x] = flow[x] \/ flow'[x].pc # "publish"
  PROVE  Attempts'
<1>1. \A k \in Keys, x \in Flows : Publishing(x, k)' => Publishing(x, k)
  BY DEF Publishing, Key
<1> QED BY <1>1 DEF Attempts

LEMMA TaskFields ==
  ASSUME NEW w \in TaskRow
  PROVE  w.cb \in Gens \cup {0} /\ w.out \in Outcomes /\ w.hit \in BOOLEAN
BY DEF TaskRow

\* A completion, whoever asks for it.
LEMMA CompleteDoes ==
  ASSUME RunInv, NEW by \in Tasks \cup {Killer}, NEW g, NEW o \in Outcomes,
         Complete(by, g, o), told' = told
  PROVE  /\ mem' \in Record /\ disk' \in Record /\ expect' \in Gens \cup {0}
         /\ lock' \in LockRow /\ flow' \in [Flows -> FlowRow]
         /\ \/ lock' = lock /\ flow' = flow
            \/ /\ lock.by = Nobody /\ lock'.by = by
               /\ flow'["lock"].pc \in {"capture", "after"}
               /\ \A x \in Flows : x # "lock" => flow'[x] = flow[x]
         /\ Truthful(mem)' /\ Truthful(disk)' /\ Truthful(lock.base)'
         /\ \A x \in Flows : /\ Truthful(flow[x].snap)'
                             /\ flow'[x].pc = "third" => Heard(flow[x].snap.gen)'
         /\ ~Live(mem) => Same(mem', mem)
<1> USE DEF RunInv
<1>0. /\ mem \in Record /\ disk \in Record /\ lock \in LockRow /\ flow \in [Flows -> FlowRow]
      /\ expect \in Gens \cup {0} /\ "lock" \in Flows
  BY Names DEF Typed
<1>1. CASE UNCHANGED <<run_vars, expect, lock, flow>>
  BY <1>0, <1>1 DEF run_vars, CopiesTrue, Truthful, Heard, Same
<1>2. CASE ~Refused(g)
  <2> DEFINE r == IF Live(mem) THEN Close(mem, o) ELSE mem
             holds == r.keep /\ r.out = "ok" /\ r.dlv = "pending" /\ ~r.supp
  <2>1. r \in Record /\ r.gen = mem.gen /\ r.dlv = mem.dlv /\ (~Live(mem) => r = mem)
    BY <1>0, Closed
  <2>2. /\ expect' = 0 /\ disk' = IF Live(mem) THEN r ELSE disk
        /\ IF holds THEN /\ mem' = [r EXCEPT !.dlv = "suspended"]
                         /\ UNCHANGED <<lock, flow>>
                    ELSE /\ mem' = r /\ lock' = [by |-> by, base |-> r] /\ Open("lock", r)
    BY <1>2 DEF Complete
  <2>3. lock.by = Nobody
    BY <1>2, Blank DEF Refused
  <2> HIDE DEF r, holds
  <2>4. disk' \in Record /\ Truthful(disk)' /\ expect' \in Gens \cup {0}
    BY <1>0, <2>1, <2>2 DEF CopiesTrue, Truthful, Heard
  <2>5. CASE holds
    <3>1. mem' \in Record /\ Same(mem', r) /\ mem'.dlv = "suspended"
      BY <2>1, <2>2, <2>5, SetDelivery DEF Deliveries
    <3>2. ~Live(mem) => Same(mem', mem)
      BY <2>1, <3>1
    <3>3. lock' = lock /\ flow' = flow
      BY <2>2, <2>5
    <3> QED BY <1>0, <2>4, <3>1, <3>2, <3>3 DEF CopiesTrue, Truthful, Heard
  <2>6. CASE ~holds
    <3>1. mem' = r /\ lock' = [by |-> by, base |-> r] /\ Open("lock", r)
      BY <2>2, <2>6
    <3>2. lock' \in LockRow /\ lock'.by = by /\ lock'.base = r
      BY <2>1, <3>1 DEF LockRow
    <3>3. /\ flow' \in [Flows -> FlowRow]
          /\ flow'["lock"].pc \in {"capture", "after"} /\ flow'["lock"].snap = r
          /\ \A x \in Flows : x # "lock" => flow'[x] = flow[x]
      BY <1>0, <2>1, <3>1, Opened
    <3>4. Truthful(r) /\ Truthful(mem)' /\ Truthful(lock.base)'
      BY <2>1, <3>1, <3>2 DEF CopiesTrue, Truthful, Heard
    <3>5. ASSUME NEW x \in Flows
          PROVE  /\ Truthful(flow[x].snap)'
                 /\ flow'[x].pc = "third" => Heard(flow[x].snap.gen)'
      BY <3>3, <3>4 DEF CopiesTrue, Truthful, Heard
    <3>6. ~Live(mem) => Same(mem', mem)
      BY <2>1, <3>1 DEF Same
    <3> QED BY <2>1, <2>3, <2>4, <3>1, <3>2, <3>3, <3>4, <3>5, <3>6
  <2> QED BY <2>5, <2>6
<1> QED BY <1>1, <1>2 DEF Complete

\* The task calls back, which takes it out of the run and into the flow or on.
LEMMA CallbackKeeps ==
  ASSUME RunInv, NEW g \in Tasks, NEW o \in Outcomes, Callback(g, o), work[g].pc # "flow",
         task' \in Tasks \cup {0}, UNCHANGED <<steer, rec, sweep, told_vars, left>>
  PROVE  RunInv'
<1> USE DEF RunInv
<1>0. UNCHANGED <<mirror, keys, sent, told>>
  BY DEF told_vars
<1>1. Complete(g, work[g].cb, o)
  BY DEF Callback
<1>2. /\ mem' \in Record /\ disk' \in Record /\ expect' \in Gens \cup {0}
      /\ lock' \in LockRow /\ flow' \in [Flows -> FlowRow]
      /\ \/ lock' = lock /\ flow' = flow
         \/ /\ lock.by = Nobody /\ lock'.by = g
            /\ flow'["lock"].pc \in {"capture", "after"}
            /\ \A x \in Flows : x # "lock" => flow'[x] = flow[x]
      /\ Truthful(mem)' /\ Truthful(disk)' /\ Truthful(lock.base)'
      /\ \A x \in Flows : /\ Truthful(flow[x].snap)'
                          /\ flow'[x].pc = "third" => Heard(flow[x].snap.gen)'
  BY <1>0, <1>1, CompleteDoes
<1>3. /\ work' \in [Tasks -> TaskRow]
      /\ work'[g].pc = IF lock'.by = g THEN "flow" ELSE "tail"
      /\ \A h \in Tasks : h # g => work'[h] = work[h]
  <2> DEFINE w == [work[g] EXCEPT !.pc = IF lock'.by = g THEN "flow" ELSE "tail",
                                  !.out = o, !.hit = FALSE]
  <2>1. work[g] \in TaskRow /\ work \in [Tasks -> TaskRow]
    BY DEF Typed
  <2>2. w \in TaskRow /\ w.pc = IF lock'.by = g THEN "flow" ELSE "tail"
    BY <2>1 DEF TaskRow
  <2>3. work' = [work EXCEPT ![g] = w]
    BY <2>1 DEF Callback
  <2> HIDE DEF w
  <2> QED BY <2>1, <2>2, <2>3
<1>4. Typed'
  BY <1>0, <1>2, <1>3 DEF Typed
<1>5. LockCovers'
  BY <1>2, <1>3, Names DEF LockCovers
<1>6. Attempts'
  BY <1>0, <1>2, CalmKeeps, Names
<1>7. CopiesTrue'
  BY <1>0, <1>2 DEF CopiesTrue, Truthful, Heard
<1>8. CopiesLive'
  BY DEF CopiesLive
<1> QED BY <1>4, <1>5, <1>6, <1>7, <1>8

\* A step that moves a task, or writes a record that is as true as before.
LEMMA OwnStepKeeps ==
  ASSUME RunInv, work' \in [Tasks -> TaskRow],
         \A h \in Tasks : work'[h].pc = "flow" <=> work[h].pc = "flow",
         task' \in Tasks \cup {0}, expect' \in Gens \cup {0}, rec' \in RecRow,
         mem' \in Record, disk' \in Record, left' \in 0..MaxDisturb,
         Truthful(mem'), Truthful(disk'),
         steer' \in [Steerers -> SteerRow],
         \A a \in Steerers : \/ steer'[a] = steer[a]
                             \/ /\ Truthful(steer'[a].snap)
                                /\ steer'[a].pc = "build" => steer'[a].snap.st = "interrupted",
         UNCHANGED <<lock, flow, sweep, told_vars>>
  PROVE  RunInv'
<1> USE DEF RunInv
<1>0. UNCHANGED <<mirror, keys, sent, told>>
  BY DEF told_vars
<1>1. Typed'
  BY <1>0 DEF Typed
<1>2. LockCovers' /\ Attempts'
  BY <1>0, CalmKeeps DEF LockCovers
<1>3. CopiesTrue' /\ CopiesLive'
  BY <1>0 DEF CopiesTrue, CopiesLive, Truthful, Heard, Live
<1> QED BY <1>1, <1>2, <1>3

\* A flow opens on a record, which may have been written before.
LEMMA OpenKeeps ==
  ASSUME RunInv, NEW x \in Flows \ {"lock"}, NEW r \in Record, Truthful(r), Open(x, r),
         mem' \in Record, Truthful(mem'), rec' \in RecRow, sweep' \in {sweep, NoSweep},
         UNCHANGED <<disk, task_vars, steer, told_vars, left>>
  PROVE  RunInv'
<1> USE DEF RunInv
<1>0. UNCHANGED <<mirror, keys, sent, told, work, task, expect, lock>>
  BY DEF told_vars, task_vars
<1>1. /\ flow' \in [Flows -> FlowRow]
      /\ flow'[x].pc \in {"capture", "after"} /\ flow'[x].snap = r
      /\ \A y \in Flows : y # x => flow'[y] = flow[y]
  BY Opened
<1>2. Typed'
  BY <1>0, <1>1, Blank DEF Typed
<1>3. LockCovers'
  BY <1>0, <1>1, Names DEF LockCovers
<1>4. Attempts'
  BY <1>0, <1>1, CalmKeeps
<1>5. CopiesTrue'
  BY <1>0, <1>1, Blank DEF CopiesTrue, Truthful, Heard
<1>6. CopiesLive'
  BY Blank DEF CopiesLive, Live
<1> QED BY <1>2, <1>3, <1>4, <1>5, <1>6

LEMMA Moved ==
  ASSUME NEW w \in TaskRow, NEW pc \in {"off", "lane", "run", "release", "settle", "flow", "tail"}
  PROVE  [w EXCEPT !.pc = pc] \in TaskRow /\ [w EXCEPT !.pc = pc].pc = pc
BY DEF TaskRow

---------------------------------------------------------------------------
(* The background tasks *)

LEMMA TakeSlotKeeps ==
  ASSUME RunInv, NEW g \in Tasks, TakeSlot(g)
  PROVE  RunInv'
<1> USE DEF RunInv
<1>0. /\ mem \in Record /\ disk \in Record /\ work \in [Tasks -> TaskRow] /\ work[g] \in TaskRow
      /\ work[g].pc = "lane" /\ left \in 0..MaxDisturb
      /\ task \in Tasks \cup {0} /\ expect \in Gens \cup {0} /\ rec \in RecRow
      /\ steer \in [Steerers -> SteerRow]
      /\ Truthful(mem) /\ Truthful(disk)
      /\ UNCHANGED <<disk, expect, lock, flow, steer, rec, sweep, told_vars, left>>
  BY DEF TakeSlot, At, Typed, CopiesTrue
<1>1. CASE Live(mem)
  <2> DEFINE w == [work[g] EXCEPT !.pc = "run", !.cb = mem.gen]
  <2>1. w \in TaskRow /\ w.pc = "run"
    BY <1>0, RecordFields DEF TaskRow
  <2>2. work' = [work EXCEPT ![g] = w] /\ task' = task
    BY <1>0, <1>1 DEF TakeSlot
  <2> HIDE DEF w
  <2>3. /\ work' \in [Tasks -> TaskRow]
        /\ \A h \in Tasks : work'[h].pc = "flow" <=> work[h].pc = "flow"
    BY <1>0, <2>1, <2>2
  <2>4. mem' \in Record /\ Truthful(mem')
    BY <1>0, <1>1, Started DEF TakeSlot, Truthful
  <2> QED BY <1>0, <2>2, <2>3, <2>4, OwnStepKeeps
<1>2. CASE ~Live(mem)
  <2>1. work' = [work EXCEPT ![g] = NoTask] /\ task' = 0 /\ mem' = mem
    BY <1>2 DEF TakeSlot
  <2>2. /\ work' \in [Tasks -> TaskRow]
        /\ \A h \in Tasks : work'[h].pc = "flow" <=> work[h].pc = "flow"
    BY <1>0, <2>1, Blank
  <2> QED BY <1>0, <2>1, <2>2, OwnStepKeeps
<1> QED BY <1>1, <1>2

\* A step that only moves task g.
LEMMA MoveKeeps ==
  ASSUME RunInv, NEW g \in Tasks, work[g].pc # "flow",
         NEW w \in TaskRow, w.pc # "flow", work' = [work EXCEPT ![g] = w],
         task' \in Tasks \cup {0},
         UNCHANGED <<run_vars, expect, lock, flow, steer, rec, sweep, told_vars, left>>
  PROVE  RunInv'
<1> USE DEF RunInv
<1>0. /\ mem \in Record /\ disk \in Record /\ work \in [Tasks -> TaskRow]
      /\ left \in 0..MaxDisturb /\ expect \in Gens \cup {0} /\ rec \in RecRow
      /\ steer \in [Steerers -> SteerRow]
      /\ Truthful(mem) /\ Truthful(disk) /\ UNCHANGED <<mem, disk>>
  BY DEF Typed, CopiesTrue, run_vars
<1>1. /\ work' \in [Tasks -> TaskRow]
      /\ \A h \in Tasks : work'[h].pc = "flow" <=> work[h].pc = "flow"
  BY <1>0
<1> QED BY <1>0, <1>1, OwnStepKeeps

LEMMA EndRunKeeps ==
  ASSUME RunInv, NEW g \in Tasks, work[g].pc = "run", NEW o \in Outcomes, EndRun(g, o),
         UNCHANGED <<steer, rec, sweep, told_vars, left>>
  PROVE  RunInv'
<1>0. work[g] \in TaskRow /\ work \in [Tasks -> TaskRow] /\ task \in Tasks \cup {0}
  BY DEF RunInv, Typed
<1>1. CASE g = 1
  <2> DEFINE w == [work[g] EXCEPT !.pc = "release", !.out = o, !.hit = FALSE]
  <2>1. w \in TaskRow /\ w.pc = "release"
    BY <1>0 DEF TaskRow
  <2>2. /\ work' = [work EXCEPT ![g] = w]
        /\ UNCHANGED <<run_vars, task, expect, lock, flow>>
    BY <1>0, <1>1 DEF EndRun
  <2> HIDE DEF w
  <2> QED BY <1>0, <2>1, <2>2, MoveKeeps
<1>2. CASE g # 1
  BY <1>2, CallbackKeeps DEF EndRun
<1> QED BY <1>1, <1>2

LEMMA TaskKeeps ==
  ASSUME RunInv, NEW g \in Tasks, Task(g)
  PROVE  RunInv'
<1>0. /\ work[g] \in TaskRow /\ work \in [Tasks -> TaskRow] /\ task \in Tasks \cup {0}
      /\ work[g].out \in Outcomes
  BY TaskFields DEF RunInv, Typed
<1>1. CASE TakeSlot(g)
  BY <1>1, TakeSlotKeeps
<1>2. CASE Finish(g)
  <2>1. PICK o \in {"ok", "failed"} : EndRun(g, o)
    BY <1>2 DEF Finish
  <2> QED BY <1>2, <2>1, EndRunKeeps DEF Finish, At, Outcomes
<1>3. CASE Release(g)
  <2> DEFINE w == [work[g] EXCEPT !.pc = "settle"]
  <2>1. w \in TaskRow /\ w.pc = "settle" /\ work' = [work EXCEPT ![g] = w]
    BY <1>0, <1>3, Moved DEF Release
  <2> HIDE DEF w
  <2> QED BY <1>3, <2>1, MoveKeeps DEF Release, At
<1>4. CASE Settle(g)
  <2>1. CASE work[g].out = "failed" /\ ~Live(mem)
    <3> DEFINE w == [work[g] EXCEPT !.pc = "tail"]
    <3>1. w \in TaskRow /\ w.pc = "tail" /\ work' = [work EXCEPT ![g] = w]
      BY <1>0, <1>4, <2>1, Moved DEF Settle
    <3> HIDE DEF w
    <3> QED BY <1>0, <1>4, <2>1, <3>1, MoveKeeps DEF Settle, At
  <2>2. CASE ~(work[g].out = "failed" /\ ~Live(mem))
    BY <1>0, <1>4, <2>2, CallbackKeeps DEF Settle, At
  <2> QED BY <2>1, <2>2
<1>5. CASE EndTask(g)
  BY <1>0, <1>5, Blank, MoveKeeps DEF EndTask, At
<1>6. CASE Cancelled(g)
  <2>1. CASE work[g].pc \in {"lane", "release"}
    <3>1. work' = [work EXCEPT ![g] = NoTask] /\ task' = 0
          /\ UNCHANGED <<run_vars, expect, lock, flow, steer, rec, sweep, told_vars, left>>
      BY <1>6, <2>1 DEF Cancelled
    <3> QED BY <2>1, <3>1, Blank, MoveKeeps
  <2>2. CASE work[g].pc = "run"
    BY <1>6, <2>2, EndRunKeeps DEF Cancelled, Outcomes
  <2> QED BY <1>6, <2>1, <2>2 DEF Cancelled
<1> QED BY <1>1, <1>2, <1>3, <1>4, <1>5, <1>6 DEF Task

---------------------------------------------------------------------------
(* The announce flows *)

LEMMA FlowFields ==
  ASSUME NEW f \in FlowRow
  PROVE  /\ f.snap \in Record /\ f.n \in Nat
         /\ \A pc \in {"off", "capture", "publish", "third", "after"} :
              /\ [f EXCEPT !.pc = pc] \in FlowRow
              /\ [f EXCEPT !.pc = pc].pc = pc /\ [f EXCEPT !.pc = pc].snap = f.snap
BY DEF FlowRow

\* A step of a flow that goes on, but for the attempts.
LEMMA FlowMoves ==
  ASSUME RunInv, NEW x \in Flows, flow[x].pc # "off",
         NEW f \in FlowRow, f.pc # "off", flow' = [flow EXCEPT ![x] = f],
         mem' \in Record, disk' \in Record, told' \subseteq Keys, told \subseteq told',
         mirror' \subseteq Keys, keys' \subseteq Gens, sent' \in [Keys -> Nat],
         left' \in 0..MaxDisturb,
         Truthful(mem)', Truthful(disk)', TrueIn(told', f.snap),
         f.pc = "third" => \E k \in told' : k[1] = f.snap.gen,
         UNCHANGED <<task_vars, steer, rec, sweep>>, Attempts'
  PROVE  RunInv'
<1> USE DEF RunInv
<1>0. UNCHANGED <<work, task, expect, lock>> /\ flow \in [Flows -> FlowRow]
  BY DEF task_vars, Typed
<1>1. flow' \in [Flows -> FlowRow] /\ flow'[x] = f /\ \A y \in Flows : y # x => flow'[y] = flow[y]
  BY <1>0
<1>2. Typed'
  BY <1>0, <1>1 DEF Typed
<1>3. LockCovers'
  BY <1>0, <1>1 DEF LockCovers
<1>6. CopiesTrue'
  <2>1. Truthful(lock.base)' /\ Truthful(sweep.snap)' /\ \A a \in Steerers : Truthful(steer[a].snap)'
    BY <1>0 DEF CopiesTrue, Truthful, Heard
  <2>2. ASSUME NEW y \in Flows
        PROVE  /\ Truthful(flow[y].snap)'
               /\ flow'[y].pc = "third" => Heard(flow[y].snap.gen)'
    <3>1. CASE y = x
      BY <1>1, <3>1 DEF Truthful, Heard, TrueIn
    <3>2. CASE y # x
      BY <1>1, <3>2 DEF CopiesTrue, Truthful, Heard
    <3> QED BY <3>1, <3>2
  <2> QED BY <2>1, <2>2 DEF CopiesTrue
<1>7. CopiesLive'
  BY DEF CopiesLive, Live
<1> QED BY <1>2, <1>3, <1>6, <1>7

LEMMA DeliverKeeps ==
  ASSUME RunInv, NEW x \in Flows, Deliver(x)
  PROVE  RunInv'
<1> USE DEF RunInv
<1>0. /\ flow \in [Flows -> FlowRow] /\ flow[x] \in FlowRow /\ flow[x].snap \in Record
      /\ mem \in Record /\ disk \in Record /\ told \subseteq Keys /\ mirror \subseteq Keys
      /\ keys \subseteq Gens /\ sent \in [Keys -> Nat] /\ left \in 0..MaxDisturb
      /\ Truthful(mem) /\ Truthful(disk) /\ Truthful(flow[x].snap)
  BY FlowFields DEF Typed, CopiesTrue
<1>1. /\ flow[x].pc = "capture"
      /\ UNCHANGED <<task_vars, steer, rec, sweep, keys, sent, told, left>>
  BY DEF Deliver
<1>2. PICK r \in {flow[x].snap} \cup Captured(flow[x].snap) :
        IF r.gen \in keys \/ Key(r) \in mirror
          THEN flow' = [flow EXCEPT ![x].pc = "after"] /\ UNCHANGED <<run_vars, mirror>>
          ELSE LET p == [r EXCEPT !.dlv = "progress"]
               IN /\ mirror' = mirror \cup {Key(r)} /\ mem' = p /\ disk' = p
                  /\ flow' = [flow EXCEPT ![x] = [pc |-> "publish", snap |-> p, n |-> 0]]
  BY DEF Deliver
<1>3. CASE r.gen \in keys \/ Key(r) \in mirror
  <2> DEFINE f == [flow[x] EXCEPT !.pc = "after"]
  <2>1. f \in FlowRow /\ f.pc = "after" /\ f.snap = flow[x].snap
    BY <1>0, FlowFields
  <2>2. flow' = [flow EXCEPT ![x] = f] /\ UNCHANGED <<mem, disk, mirror>>
    BY <1>0, <1>2, <1>3 DEF run_vars
  <2> HIDE DEF f
  <2>3. Attempts'
    BY <1>0, <1>1, <2>1, <2>2, CalmKeeps
  <2>4. Truthful(mem)' /\ Truthful(disk)' /\ TrueIn(told', f.snap)
    BY <1>0, <1>1, <2>1, <2>2 DEF Truthful, Heard, TrueIn
  <2> QED BY <1>0, <1>1, <2>1, <2>2, <2>3, <2>4, FlowMoves
<1>4. CASE ~(r.gen \in keys \/ Key(r) \in mirror)
  <2> DEFINE p == [r EXCEPT !.dlv = "progress"]
             f == [pc |-> "publish", snap |-> p, n |-> 0]
  <2>1. r \in Record
    BY <1>0 DEF Captured
  <2>2. p \in Record /\ p.dlv = "progress" /\ Key(p) = Key(r) /\ Key(r) \in Keys
    <3>1. "progress" \in Deliveries
      BY DEF Deliveries
    <3>2. p \in Record /\ p.dlv = "progress" /\ Same(p, r)
      BY <2>1, <3>1, SetDelivery
    <3> QED BY <2>1, <3>2, SameKey, KeyOfRecord
  <2>3. /\ mirror' = mirror \cup {Key(r)} /\ mem' = p /\ disk' = p
        /\ flow' = [flow EXCEPT ![x] = f]
    BY <1>2, <1>4
  <2>4. f \in FlowRow /\ f.pc = "publish" /\ f.snap = p
    BY <2>2 DEF FlowRow
  <2> HIDE DEF f, p
  <2>5. Attempts'
    <3>1. \A y \in Flows : flow'[y] = IF y = x THEN f ELSE flow[y]
      BY <1>0, <2>3
    <3>2. \A k \in Keys : Publishing(x, k)' <=> k = Key(r)
      BY <2>2, <2>4, <3>1 DEF Publishing
    <3>3. \A k \in Keys, y \in Flows : y # x => (Publishing(y, k)' <=> Publishing(y, k))
      BY <3>1 DEF Publishing
    <3>4. sent[Key(r)] = 0 /\ \A y \in Flows : ~Publishing(y, Key(r))
      BY <1>4, <2>2 DEF Attempts
    <3> QED BY <1>1, <2>3, <3>2, <3>3, <3>4 DEF Attempts
  <2>6. Truthful(mem)' /\ Truthful(disk)' /\ TrueIn(told', f.snap)
    BY <2>2, <2>3, <2>4 DEF Truthful, TrueIn
  <2>7. mirror' \subseteq Keys
    BY <1>0, <2>2, <2>3
  <2> QED BY <1>0, <1>1, <2>2, <2>3, <2>4, <2>5, <2>6, <2>7, FlowMoves
<1> QED BY <1>3, <1>4

LEMMA PublishKeeps ==
  ASSUME RunInv, NEW x \in Flows, Publish(x)
  PROVE  RunInv'
<1> USE DEF RunInv
<1> DEFINE k0 == Key(flow[x].snap)
           f  == [flow[x] EXCEPT !.pc = "third"]
<1>0. /\ flow \in [Flows -> FlowRow] /\ flow[x] \in FlowRow /\ flow[x].snap \in Record
      /\ mem \in Record /\ disk \in Record /\ told \subseteq Keys /\ mirror \subseteq Keys
      /\ keys \subseteq Gens /\ sent \in [Keys -> Nat] /\ left \in 0..MaxDisturb
      /\ Truthful(mem) /\ Truthful(disk) /\ Truthful(flow[x].snap)
  BY FlowFields DEF Typed, CopiesTrue
<1>1. /\ flow[x].pc = "publish"
      /\ sent' = [sent EXCEPT ![k0] = @ + 1] /\ told' = told \cup {k0}
      /\ UNCHANGED <<run_vars, task_vars, steer, rec, sweep, mirror, keys, left>>
  BY DEF Publish
<1>2. flow' = [flow EXCEPT ![x] = f]
  BY <1>0 DEF Publish
<1>3. f \in FlowRow /\ f.pc = "third" /\ f.snap = flow[x].snap
  BY <1>0, FlowFields
<1>4. k0 \in Keys /\ k0[1] = flow[x].snap.gen
  BY <1>0, KeyOfRecord
<1>5. Publishing(x, k0)
  BY <1>1 DEF Publishing
<1> HIDE DEF k0, f
<1>6. Attempts'
  <2>1. \A y \in Flows : flow'[y] = IF y = x THEN f ELSE flow[y]
    BY <1>0, <1>2
  <2>2. \A k \in Keys, y \in Flows : Publishing(y, k)' => y # x /\ Publishing(y, k)
    BY <1>3, <2>1 DEF Publishing
  <2>3. k0 \in mirror /\ sent[k0] = 0 /\ \A y \in Flows : Publishing(y, k0) => y = x
    BY <1>4, <1>5 DEF Attempts
  <2>4. \A k \in Keys : sent'[k] = IF k = k0 THEN 1 ELSE sent[k]
    BY <1>0, <1>1, <1>4, <2>3
  <2> QED BY <1>1, <2>2, <2>3, <2>4 DEF Attempts
<1>7. \E k \in told' : k[1] = f.snap.gen
  BY <1>1, <1>3, <1>4
<1>8. Truthful(mem)' /\ Truthful(disk)' /\ TrueIn(told', f.snap)
  BY <1>0, <1>1, <1>3 DEF Truthful, Heard, TrueIn, run_vars
<1>9. sent' \in [Keys -> Nat] /\ told' \subseteq Keys
  BY <1>0, <1>1, <1>4
<1> QED BY <1>0, <1>1, <1>2, <1>3, <1>6, <1>7, <1>8, <1>9, FlowMoves DEF run_vars

LEMMA PublishFailsKeeps ==
  ASSUME RunInv, NEW x \in Flows, PublishFails(x)
  PROVE  RunInv'
<1> USE DEF RunInv
<1>0. /\ flow \in [Flows -> FlowRow] /\ flow[x] \in FlowRow /\ flow[x].snap \in Record
      /\ flow[x].n \in Nat
      /\ mem \in Record /\ disk \in Record /\ told \subseteq Keys /\ mirror \subseteq Keys
      /\ keys \subseteq Gens /\ sent \in [Keys -> Nat]
      /\ Truthful(mem) /\ Truthful(disk) /\ Truthful(flow[x].snap)
  BY FlowFields DEF Typed, CopiesTrue
<1>1. /\ flow[x].pc = "publish" /\ left' \in 0..MaxDisturb
      /\ UNCHANGED <<task_vars, steer, rec, sweep, mirror, keys, sent, told>>
  BY RunAssumption DEF PublishFails, Disturb, Typed, told_vars
<1>2. CASE flow' = [flow EXCEPT ![x].pc = "after"] /\ UNCHANGED run_vars
  <2> DEFINE f == [flow[x] EXCEPT !.pc = "after"]
  <2>1. f \in FlowRow /\ f.pc = "after" /\ f.snap = flow[x].snap
    BY <1>0, FlowFields
  <2>2. flow' = [flow EXCEPT ![x] = f] /\ UNCHANGED <<mem, disk>>
    BY <1>0, <1>2 DEF run_vars
  <2> HIDE DEF f
  <2>3. Attempts'
    BY <1>0, <1>1, <2>1, <2>2, CalmKeeps
  <2>4. Truthful(mem)' /\ Truthful(disk)' /\ TrueIn(told', f.snap)
    BY <1>0, <1>1, <2>1, <2>2 DEF Truthful, Heard, TrueIn
  <2> QED BY <1>0, <1>1, <2>1, <2>2, <2>3, <2>4, FlowMoves
<1>3. CASE ~(flow' = [flow EXCEPT ![x].pc = "after"] /\ UNCHANGED run_vars)
  <2> DEFINE p == [flow[x].snap EXCEPT !.dlv = "failed"]
             f == [pc |-> IF flow[x].n + 1 < AnnounceRetryMax THEN "publish" ELSE "after",
                   snap |-> p, n |-> flow[x].n + 1]
  <2>1. p \in Record /\ p.dlv = "failed" /\ Key(p) = Key(flow[x].snap)
    <3>1. "failed" \in Deliveries
      BY DEF Deliveries
    <3>2. p \in Record /\ p.dlv = "failed" /\ Same(p, flow[x].snap)
      BY <1>0, <3>1, SetDelivery
    <3> QED BY <3>2, SameKey
  <2>2. mem' = p /\ disk' = p /\ flow' = [flow EXCEPT ![x] = f]
    BY <1>3 DEF PublishFails
  <2>3. f \in FlowRow /\ f.pc \in {"publish", "after"} /\ f.snap = p
    BY <1>0, <2>1 DEF FlowRow
  <2> HIDE DEF f, p
  <2>4. Attempts'
    <3>1. \A y \in Flows : flow'[y] = IF y = x THEN f ELSE flow[y]
      BY <1>0, <2>2
    <3>2. \A k \in Keys, y \in Flows : Publishing(y, k)' => Publishing(y, k)
      BY <1>1, <2>1, <2>3, <3>1 DEF Publishing
    <3> QED BY <1>1, <3>2 DEF Attempts
  <2>5. Truthful(mem)' /\ Truthful(disk)' /\ TrueIn(told', f.snap)
    BY <2>1, <2>2, <2>3 DEF Truthful, TrueIn
  <2> QED BY <1>0, <1>1, <2>1, <2>2, <2>3, <2>4, <2>5, FlowMoves
<1> QED BY <1>2, <1>3

LEMMA MarkDeliveredKeeps ==
  ASSUME RunInv, NEW x \in Flows, MarkDelivered(x)
  PROVE  RunInv'
<1> USE DEF RunInv
<1> DEFINE p == [flow[x].snap EXCEPT !.dlv = "delivered"]
           f == [flow[x] EXCEPT !.pc = "after"]
<1>0. /\ flow \in [Flows -> FlowRow] /\ flow[x] \in FlowRow /\ flow[x].snap \in Record
      /\ told \subseteq Keys /\ mirror \subseteq Keys
      /\ keys \subseteq Gens /\ sent \in [Keys -> Nat] /\ left \in 0..MaxDisturb
      /\ Truthful(flow[x].snap)
  BY FlowFields DEF Typed, CopiesTrue
<1>1. /\ flow[x].pc = "third" /\ mem' = p /\ disk' = p
      /\ keys' = keys \cup {flow[x].snap.gen}
      /\ UNCHANGED <<task_vars, steer, rec, sweep, mirror, sent, told, left>>
  BY DEF MarkDelivered
<1>2. flow' = [flow EXCEPT ![x] = f]
  BY <1>0 DEF MarkDelivered
<1>3. f \in FlowRow /\ f.pc = "after" /\ f.snap = flow[x].snap
  BY <1>0, FlowFields
<1>4. p \in Record /\ p.gen = flow[x].snap.gen
  <2>1. "delivered" \in Deliveries
    BY DEF Deliveries
  <2> QED BY <1>0, <2>1, SetDelivery DEF Same
<1> HIDE DEF p, f
<1>5. Heard(p.gen)
  BY <1>1, <1>4 DEF CopiesTrue
<1>6. Truthful(mem)' /\ Truthful(disk)' /\ TrueIn(told', f.snap)
  BY <1>0, <1>1, <1>3, <1>5 DEF Truthful, Heard, TrueIn
<1>7. Attempts'
  BY <1>0, <1>1, <1>2, <1>3, CalmKeeps
<1>8. keys' \subseteq Gens
  BY <1>0, <1>1, RecordFields
<1> QED BY <1>0, <1>1, <1>2, <1>3, <1>4, <1>6, <1>7, <1>8, FlowMoves

\* A flow that is over, and the lock with it if it covered that flow.
LEMMA FlowEnds ==
  ASSUME RunInv, NEW x \in Flows, flow' = [flow EXCEPT ![x] = NoFlow],
         work' \in [Tasks -> TaskRow], lock' \in LockRow, LockCovers',
         mem' \in Record, Truthful(mem'), Truthful(lock'.base), rec' \in RecRow,
         UNCHANGED <<disk, task, expect, steer, sweep, told_vars, left>>
  PROVE  RunInv'
<1> USE DEF RunInv
<1>0. UNCHANGED <<mirror, keys, sent, told>> /\ flow \in [Flows -> FlowRow]
  BY DEF told_vars, Typed
<1>1. /\ flow' \in [Flows -> FlowRow] /\ flow'[x] = NoFlow
      /\ \A y \in Flows : y # x => flow'[y] = flow[y]
  BY <1>0, Blank
<1>2. Typed'
  BY <1>0, <1>1 DEF Typed
<1>3. Attempts'
  BY <1>0, <1>1, Blank, CalmKeeps
<1>4. CopiesTrue'
  BY <1>0, <1>1, Blank DEF CopiesTrue, Truthful, Heard
<1>5. CopiesLive'
  BY DEF CopiesLive, Live
<1> QED BY <1>2, <1>3, <1>4, <1>5

LEMMA EndFlowKeeps ==
  ASSUME RunInv, NEW x \in Flows, EndFlow(x)
  PROVE  RunInv'
<1> USE DEF RunInv
<1>0. /\ x # "lock" /\ flow' = [flow EXCEPT ![x] = NoFlow] /\ rec' \in RecRow
      /\ UNCHANGED <<mem, disk, work, task, expect, lock, steer, sweep, told_vars, left>>
  BY Blank DEF EndFlow, Typed, run_vars, task_vars
<1>1. LockCovers'
  <2>1. flow'["lock"] = flow["lock"]
    BY <1>0, Names DEF Typed
  <2> QED BY <1>0, <2>1 DEF LockCovers
<1> QED BY <1>0, <1>1, FlowEnds DEF Typed, CopiesTrue, Truthful, Heard

LEMMA UnlockKeeps ==
  ASSUME RunInv, Unlock
  PROVE  RunInv'
<1> USE DEF RunInv
<1>0. /\ flow["lock"].pc = "after" /\ lock' = Free
      /\ flow' = [flow EXCEPT !["lock"] = NoFlow]
      /\ UNCHANGED <<disk, task, expect, steer, rec, sweep, told_vars, left>>
      /\ lock \in LockRow /\ flow \in [Flows -> FlowRow] /\ work \in [Tasks -> TaskRow]
      /\ mem \in Record /\ rec \in RecRow /\ Truthful(mem) /\ Truthful(lock.base)
  BY DEF Unlock, Typed, CopiesTrue
<1>1. flow'["lock"].pc = "off" /\ lock'.by = Nobody /\ "lock" \in Flows
  BY <1>0, Blank, Names
<1>2. lock.by \in Tasks \cup {Killer} /\ lock.base \in Record
  BY <1>0 DEF LockCovers, LockRow
<1>3. CASE lock.by = Killer
  <2>1. mem' = lock.base /\ work' = work
    BY <1>3 DEF Unlock
  <2>2. LockCovers'
    BY <1>1, <1>3, <2>1, Names DEF LockCovers
  <2> QED BY <1>0, <1>1, <1>2, <2>1, <2>2, Blank, FlowEnds
<1>4. CASE lock.by # Killer
  <2>1. mem' = mem /\ work' = [work EXCEPT ![lock.by].pc = "tail"] /\ lock.by \in Tasks
    BY <1>2, <1>4 DEF Unlock
  <2> DEFINE w == [work[lock.by] EXCEPT !.pc = "tail"]
  <2>2. w \in TaskRow /\ w.pc = "tail" /\ work' = [work EXCEPT ![lock.by] = w]
    BY <1>0, <2>1, Moved
  <2> HIDE DEF w
  <2>3. work' \in [Tasks -> TaskRow] /\ \A g \in Tasks : work'[g].pc = "flow" => work[g].pc = "flow" /\ g # lock.by
    BY <1>0, <2>1, <2>2
  <2>4. LockCovers'
    BY <1>1, <2>3, Names DEF LockCovers
  <2> QED BY <1>0, <1>1, <2>1, <2>3, <2>4, Blank, FlowEnds
<1> QED BY <1>3, <1>4

LEMMA FlowKeeps ==
  ASSUME RunInv, NEW x \in Flows, Flow(x) \/ PublishFails(x)
  PROVE  RunInv'
BY DeliverKeeps, PublishKeeps, MarkDeliveredKeeps, EndFlowKeeps, PublishFailsKeeps DEF Flow

---------------------------------------------------------------------------
(* A kill and a steer *)

LEMMA CancelKeeps ==
  ASSUME work \in [Tasks -> TaskRow], task \in Tasks \cup {0}, work' = CancelTask(work)
  PROVE  /\ work' \in [Tasks -> TaskRow]
         /\ \A h \in Tasks : work'[h].pc = "flow" <=> work[h].pc = "flow"
<1>1. CASE task = 0
  BY <1>1 DEF CancelTask
<1>2. CASE task # 0
  <2> DEFINE w == [work[task] EXCEPT !.hit = TRUE]
  <2>1. task \in Tasks /\ work[task] \in TaskRow
    BY <1>2
  <2>2. w \in TaskRow /\ w.pc = work[task].pc
    BY <2>1 DEF TaskRow
  <2>3. work' = [work EXCEPT ![task] = w]
    BY <1>2, <2>1 DEF CancelTask
  <2> HIDE DEF w
  <2> QED BY <2>1, <2>2, <2>3
<1> QED BY <1>1, <1>2

LEMMA KillKeeps ==
  ASSUME RunInv, Kill
  PROVE  RunInv'
<1> USE DEF RunInv
<1>0. /\ Live(mem) /\ left' \in 0..MaxDisturb /\ rec' = NoRec
      /\ steer' = [steer EXCEPT !["recovery"] = NoSteer] /\ work' = CancelTask(work)
      /\ Complete(Killer, mem.gen, "killed")
      /\ UNCHANGED <<task, sweep, mirror, keys, sent, told>>
      /\ work \in [Tasks -> TaskRow] /\ task \in Tasks \cup {0} /\ steer \in [Steerers -> SteerRow]
      /\ "killed" \in Outcomes
  BY RunAssumption DEF Kill, Disturb, told_vars, Typed, Outcomes
<1>1. /\ mem' \in Record /\ disk' \in Record /\ expect' \in Gens \cup {0}
      /\ lock' \in LockRow /\ flow' \in [Flows -> FlowRow]
      /\ \/ lock' = lock /\ flow' = flow
         \/ /\ lock.by = Nobody /\ lock'.by = Killer
            /\ flow'["lock"].pc \in {"capture", "after"}
            /\ \A x \in Flows : x # "lock" => flow'[x] = flow[x]
      /\ Truthful(mem)' /\ Truthful(disk)' /\ Truthful(lock.base)'
      /\ \A x \in Flows : /\ Truthful(flow[x].snap)'
                          /\ flow'[x].pc = "third" => Heard(flow[x].snap.gen)'
  BY <1>0, CompleteDoes
<1>2. /\ work' \in [Tasks -> TaskRow]
      /\ \A h \in Tasks : work'[h].pc = "flow" <=> work[h].pc = "flow"
  BY <1>0, CancelKeeps
<1>3. steer' \in [Steerers -> SteerRow]
      /\ \A a \in Steerers : steer'[a] = steer[a] \/ steer'[a] = NoSteer
  BY <1>0, Blank
<1>4. Typed'
  BY <1>0, <1>1, <1>2, <1>3, Blank DEF Typed
<1>5. LockCovers'
  BY <1>1, <1>2, Names DEF LockCovers
<1>6. Attempts'
  BY <1>0, <1>1, CalmKeeps, Names
<1>7. CopiesTrue'
  BY <1>0, <1>1, <1>3, Blank DEF CopiesTrue, Truthful, Heard
<1>8. CopiesLive'
  BY <1>0, <1>3, Blank DEF CopiesLive, Live
<1> QED BY <1>4, <1>5, <1>6, <1>7, <1>8

\* The old generation is silenced and its task cancelled.
LEMMA RedirectKeeps ==
  ASSUME RunInv, NEW a \in Steerers, NEW r \in Record, Truthful(r), Redirect(a, r),
         rec' \in RecRow, left' \in 0..MaxDisturb,
         UNCHANGED <<disk, task, expect, lock, flow, sweep, told_vars>>
  PROVE  RunInv'
<1> USE DEF RunInv
<1>0. /\ work \in [Tasks -> TaskRow] /\ task \in Tasks \cup {0} /\ steer \in [Steerers -> SteerRow]
      /\ steer[a] \in SteerRow /\ work' = CancelTask(work) /\ disk \in Record /\ Truthful(disk)
      /\ expect \in Gens \cup {0}
  BY DEF Redirect, Typed, CopiesTrue
<1>1. mem' \in Record /\ Truthful(mem')
  BY Silenced DEF Redirect, Truthful, Same
<1>2. /\ work' \in [Tasks -> TaskRow]
      /\ \A h \in Tasks : work'[h].pc = "flow" <=> work[h].pc = "flow"
  BY <1>0, CancelKeeps
<1>3. /\ steer' \in [Steerers -> SteerRow]
      /\ \A b \in Steerers : \/ steer'[b] = steer[b]
                             \/ /\ Truthful(steer'[b].snap)
                                /\ steer'[b].pc = "build" => steer'[b].snap.st = "interrupted"
  <2> DEFINE s == [steer[a] EXCEPT !.pc = "settle"]
  <2>1. s \in SteerRow /\ s.pc = "settle" /\ s.snap = steer[a].snap
    BY <1>0 DEF SteerRow
  <2>2. steer' = [steer EXCEPT ![a] = s]
    BY <1>0 DEF Redirect
  <2>3. Truthful(s.snap)
    BY <2>1 DEF CopiesTrue
  <2> HIDE DEF s
  <2> QED BY <1>0, <2>1, <2>2, <2>3
<1> QED BY <1>0, <1>1, <1>2, <1>3, OwnStepKeeps

LEMMA SteerKeeps ==
  ASSUME RunInv, Steer
  PROVE  RunInv'
<1>1. /\ Redirect("user", mem) /\ left' \in 0..MaxDisturb /\ "user" \in Steerers
      /\ rec' \in RecRow /\ mem \in Record /\ Truthful(mem)
      /\ UNCHANGED <<disk, task, expect, lock, flow, sweep, told_vars>>
  BY RunAssumption, Names DEF Steer, Disturb, RunInv, Typed, CopiesTrue
<1> QED BY <1>1, RedirectKeeps

LEMMA ReplaceKeeps ==
  ASSUME RunInv, NEW a \in Steerers, Replace(a)
  PROVE  RunInv'
<1> USE DEF RunInv
<1> DEFINE r == [Renew(mem) EXCEPT !.supp = TRUE]
           s == [pc |-> "build", snap |-> r]
<1>0. /\ mem \in Record /\ mem.gen < MaxGen /\ mem' = r /\ expect' = r.gen
      /\ steer' = [steer EXCEPT ![a] = s] /\ steer \in [Steerers -> SteerRow]
      /\ UNCHANGED <<disk, work, task, lock, flow, rec, sweep, told_vars, left>>
      /\ work \in [Tasks -> TaskRow] /\ task \in Tasks \cup {0} /\ disk \in Record
      /\ Truthful(disk) /\ rec \in RecRow /\ left \in 0..MaxDisturb
  BY DEF Replace, Typed, CopiesTrue
<1>1. /\ Renew(mem) \in Record /\ Renew(mem).st = "interrupted" /\ Renew(mem).dlv = "pending"
  BY <1>0, Renewed
<1>2. r \in Record /\ r.st = "interrupted" /\ r.dlv = "pending"
  BY <1>1, Silenced DEF Same
<1>3. r.gen \in Gens
  BY <1>2, RecordFields
<1>4. s \in SteerRow /\ s.snap = r
  BY <1>2 DEF SteerRow
<1> HIDE DEF r, s
<1>5. Truthful(r)
  BY <1>2 DEF Truthful
<1>6. /\ steer' \in [Steerers -> SteerRow]
      /\ \A b \in Steerers : \/ steer'[b] = steer[b]
                             \/ /\ Truthful(steer'[b].snap)
                                /\ steer'[b].pc = "build" => steer'[b].snap.st = "interrupted"
  BY <1>0, <1>2, <1>4, <1>5
<1> QED BY <1>0, <1>2, <1>3, <1>5, <1>6, OwnStepKeeps

LEMMA EndSteerKeeps ==
  ASSUME RunInv, NEW a \in Steerers, EndSteer(a)
  PROVE  /\ steer' \in [Steerers -> SteerRow] /\ rec' \in RecRow
         /\ \A b \in Steerers : \/ steer'[b] = steer[b]
                                \/ /\ Truthful(steer'[b].snap)
                                   /\ steer'[b].pc = "build" => steer'[b].snap.st = "interrupted"
<1>1. /\ steer \in [Steerers -> SteerRow] /\ steer' = [steer EXCEPT ![a] = NoSteer]
      /\ rec \in RecRow /\ rec' \in {rec, NoRec}
  BY DEF EndSteer, RunInv, Typed
<1> QED BY <1>1, Blank

\* The task that Restart creates is one that is idle.
LEMMA RestartKeeps ==
  ASSUME RunInv, NEW a \in Steerers, Restart(a)
  PROVE  RunInv'
<1> USE DEF RunInv
<1> DEFINE q == [steer[a].snap EXCEPT !.st = "pending", !.old = FALSE, !.supp = FALSE]
           w == [NoTask EXCEPT !.pc = "lane"]
<1>0. /\ Idle # {} /\ EndSteer(a) /\ mem' = q /\ task' = (CHOOSE g \in Idle : TRUE)
      /\ work' = [work EXCEPT ![task'] = w]
      /\ UNCHANGED <<disk, expect, lock, flow, sweep, told_vars, left>>
      /\ work \in [Tasks -> TaskRow] /\ disk \in Record /\ expect \in Gens \cup {0}
      /\ Truthful(disk) /\ left \in 0..MaxDisturb /\ Truthful(steer[a].snap)
      /\ steer[a] \in SteerRow
  BY DEF Restart, Typed, CopiesTrue
<1>1. steer[a].snap \in Record
  BY <1>0 DEF SteerRow
<1>2. q \in Record /\ q.gen = steer[a].snap.gen /\ q.dlv = steer[a].snap.dlv
  BY <1>1, Restarted
<1>3. w \in TaskRow /\ w.pc = "lane"
  BY Blank, Moved
<1>4. task' \in Idle
  BY <1>0
<1> HIDE DEF q, w
<1>5. task' \in Tasks /\ work[task'].pc = "off"
  BY <1>4 DEF Idle
<1>6. Truthful(mem')
  BY <1>0, <1>2 DEF Truthful
<1>7. /\ work' \in [Tasks -> TaskRow]
      /\ \A h \in Tasks : work'[h].pc = "flow" <=> work[h].pc = "flow"
  BY <1>0, <1>3, <1>5
<1> QED BY <1>0, <1>2, <1>5, <1>6, <1>7, EndSteerKeeps, OwnStepKeeps

LEMMA BuildFailsKeeps ==
  ASSUME RunInv, NEW a \in Steerers, BuildFails(a)
  PROVE  RunInv'
<1> USE DEF RunInv
<1>1. /\ EndSteer(a) /\ left' \in 0..MaxDisturb
      /\ UNCHANGED <<mem, disk, work, task, expect, lock, flow, sweep, told_vars>>
  BY RunAssumption DEF BuildFails, Disturb, Typed, run_vars, task_vars
<1> QED BY <1>1, EndSteerKeeps, OwnStepKeeps DEF Typed, CopiesTrue, Truthful, Heard

---------------------------------------------------------------------------
(* The recovery, the sweeper, time and a restart *)

\* A step that writes the record or the recovery's state only.
LEMMA RecordKeeps ==
  ASSUME RunInv, mem' \in Record, Truthful(mem'), rec' \in RecRow, left' \in 0..MaxDisturb,
         UNCHANGED <<disk, task_vars, flow, steer, sweep, told_vars>>
  PROVE  RunInv'
<1>1. /\ work \in [Tasks -> TaskRow] /\ task \in Tasks \cup {0} /\ expect \in Gens \cup {0}
      /\ disk \in Record /\ Truthful(disk) /\ steer \in [Steerers -> SteerRow]
      /\ UNCHANGED <<work, task, expect, lock>>
  BY DEF RunInv, Typed, CopiesTrue, task_vars
<1> QED BY <1>1, OwnStepKeeps

LEMMA ScheduleKeeps ==
  ASSUME RunInv, ScheduleRecovery
  PROVE  RunInv'
<1>1. /\ mem \in Record /\ Truthful(mem) /\ mem' = mem /\ left' \in 0..MaxDisturb
      /\ UNCHANGED <<disk, task_vars, flow, steer, sweep, told_vars>>
  BY RunAssumption DEF ScheduleRecovery, Disturb, RunInv, Typed, CopiesTrue, run_vars
<1>2. rec' \in RecRow
  BY DEF ScheduleRecovery, RecRow
<1> QED BY <1>1, <1>2, RecordKeeps

LEMMA RecoveryKeeps ==
  ASSUME RunInv, Recovery
  PROVE  RunInv'
<1> USE DEF RunInv
<1>0. /\ mem \in Record /\ Truthful(mem) /\ rec \in RecRow /\ left \in 0..MaxDisturb
      /\ "recovery" \in Flows \ {"lock"} /\ "recovery" \in Steerers
      /\ {"timeout", "unstarted"} \subseteq Outcomes
  BY Names DEF Typed, CopiesTrue, Outcomes
<1>1. \A pc \in {"read", "steer", "flow"} :
        [NoRec EXCEPT !.pc = pc] \in RecRow /\ [rec EXCEPT !.pc = pc] \in RecRow
  BY <1>0, Blank DEF RecRow
<1>2. CASE WakeRecovery
  <2>0. UNCHANGED <<disk, task_vars, steer, sweep, told_vars, left>>
    BY <1>2 DEF WakeRecovery
  <2>1. CASE ~Live(mem)
    <3>1. rec' = NoRec /\ mem' = mem /\ flow' = flow
      BY <1>2, <2>1 DEF WakeRecovery, Live
    <3> QED BY <1>0, <2>0, <3>1, Blank, RecordKeeps
  <2>2. CASE Live(mem) /\ mem.st = "pending"
    <3>1. /\ mem' = Close(mem, "unstarted") /\ Open("recovery", mem')
          /\ rec' = [NoRec EXCEPT !.pc = "flow"]
      BY <1>2, <2>2 DEF WakeRecovery
    <3>2. mem' \in Record /\ Truthful(mem')
      BY <1>0, <3>1, Closed DEF Truthful
    <3>3. rec' \in RecRow
      BY <1>1, <3>1
    <3> QED BY <1>0, <2>0, <3>1, <3>2, <3>3, OpenKeeps
  <2>3. CASE Live(mem) /\ mem.st # "pending"
    <3>1. rec' = [NoRec EXCEPT !.pc = "read"] /\ mem' = mem /\ flow' = flow
      BY <1>2, <2>3 DEF WakeRecovery
    <3> QED BY <1>0, <1>1, <2>0, <3>1, RecordKeeps
  <2> QED BY <2>1, <2>2, <2>3
<1>3. CASE Resume
  <2>1. Renew(mem) \in Record /\ Renew(mem).dlv = "pending"
    BY <1>0, <1>3, Renewed DEF Resume
  <2>2. Truthful(Renew(mem))
    BY <2>1 DEF Truthful
  <2>3. /\ Redirect("recovery", Renew(mem)) /\ rec' \in RecRow /\ left' \in 0..MaxDisturb
        /\ UNCHANGED <<disk, task, expect, lock, flow, sweep, told_vars>>
    BY <1>0, <1>1, <1>3 DEF Resume
  <2> QED BY <1>0, <2>1, <2>2, <2>3, RedirectKeeps
<1>4. CASE ResumeRefused
  <2>1. Renew(mem) \in Record /\ Renew(mem).dlv = "pending"
    BY <1>0, <1>4, Renewed DEF ResumeRefused
  <2>2. /\ mem' = Close(Renew(mem), "timeout") /\ Open("recovery", mem') /\ rec' \in RecRow
        /\ UNCHANGED <<disk, task_vars, steer, sweep, told_vars, left>>
    BY <1>1, <1>4 DEF ResumeRefused
  <2>3. mem' \in Record /\ Truthful(mem')
    BY <1>0, <2>1, <2>2, Closed DEF Truthful
  <2> QED BY <1>0, <2>2, <2>3, OpenKeeps
<1> QED BY <1>2, <1>3, <1>4 DEF Recovery

\* A step that writes the record or the sweeper's list only.
LEMMA SweepKeeps ==
  ASSUME RunInv, mem' \in Record, Truthful(mem'), sweep' \in SweepRow, Truthful(sweep'.snap),
         sweep'.scan = "reconcile" => Live(sweep'.snap),
         UNCHANGED <<disk, task_vars, flow, steer, rec, told_vars, left>>
  PROVE  RunInv'
<1> USE DEF RunInv
<1>0. UNCHANGED <<work, task, expect, lock, mirror, keys, sent, told>>
  BY DEF task_vars, told_vars
<1>1. Typed'
  BY <1>0 DEF Typed
<1>2. LockCovers' /\ Attempts'
  BY <1>0, CalmKeeps DEF LockCovers
<1>3. CopiesTrue'
  BY <1>0 DEF CopiesTrue, Truthful, Heard
<1>4. CopiesLive'
  BY DEF CopiesLive, Live
<1> QED BY <1>1, <1>2, <1>3, <1>4

LEMMA ListKeeps ==
  ASSUME RunInv, NEW s \in Scans, List(s)
  PROVE  RunInv'
<1>0. mem \in Record /\ Truthful(mem)
  BY DEF RunInv, Typed, CopiesTrue
<1>1. /\ mem' = mem /\ sweep' = [scan |-> s, snap |-> mem] /\ Wanted(s, mem)
      /\ UNCHANGED <<disk, task_vars, flow, steer, rec, told_vars, left>>
  BY DEF List, run_vars
<1>2. sweep' \in SweepRow /\ sweep'.scan = s /\ sweep'.snap = mem
  BY <1>0, <1>1 DEF SweepRow
<1>3. s = "reconcile" => Live(mem)
  BY <1>1 DEF Wanted, Steerable, Live
<1> QED BY <1>0, <1>1, <1>2, <1>3, SweepKeeps

LEMMA SweepingKeeps ==
  ASSUME RunInv, Sweeping
  PROVE  RunInv'
<1> USE DEF RunInv
<1>0. /\ mem \in Record /\ Truthful(mem) /\ sweep.snap \in Record /\ Truthful(sweep.snap)
      /\ rec \in RecRow /\ "sweep" \in Flows \ {"lock"} /\ "timeout" \in Outcomes
      /\ {"pending", "discarded"} \subseteq Deliveries
  BY Names DEF Typed, CopiesTrue, SweepRow, Outcomes, Deliveries
<1>1. CASE Reconcile
  <2>1. /\ mem' = Close(sweep.snap, "timeout") /\ Open("sweep", mem') /\ sweep' = NoSweep
        /\ UNCHANGED <<disk, task_vars, steer, rec, told_vars, left>>
    BY <1>1 DEF Reconcile
  <2>2. mem' \in Record /\ Truthful(mem')
    BY <1>0, <2>1, Closed DEF Truthful
  <2> QED BY <1>0, <2>1, <2>2, OpenKeeps
<1>2. CASE Announce
  <2>1. /\ mem' = mem /\ Open("sweep", sweep.snap) /\ sweep' = NoSweep
        /\ UNCHANGED <<disk, task_vars, steer, rec, told_vars, left>>
    BY <1>2 DEF Announce, run_vars
  <2> QED BY <1>0, <2>1, OpenKeeps
<1>3. CASE Retry
  <2>1. /\ mem' = [sweep.snap EXCEPT !.dlv = "pending"] /\ Open("sweep", mem') /\ sweep' = NoSweep
        /\ UNCHANGED <<disk, task_vars, steer, rec, told_vars, left>>
    BY <1>3 DEF Retry
  <2>2. mem' \in Record /\ mem'.dlv = "pending"
    BY <1>0, <2>1, SetDelivery
  <2>3. Truthful(mem')
    BY <2>2 DEF Truthful
  <2> QED BY <1>0, <2>1, <2>2, <2>3, OpenKeeps
<1>4. CASE Discard
  <2>1. /\ mem' = [sweep.snap EXCEPT !.dlv = "discarded"] /\ sweep' = NoSweep
        /\ UNCHANGED <<disk, task_vars, flow, steer, rec, told_vars, left>>
    BY <1>4 DEF Discard
  <2>2. mem' \in Record /\ mem'.dlv = "discarded"
    BY <1>0, <2>1, SetDelivery
  <2>3. Truthful(mem')
    BY <2>2 DEF Truthful
  <2> QED BY <2>1, <2>2, <2>3, Blank, SweepKeeps
<1> QED BY <1>1, <1>2, <1>3, <1>4 DEF Sweeping

LEMMA AgeKeeps ==
  ASSUME RunInv, Age
  PROVE  RunInv'
<1>0. mem \in Record /\ Truthful(mem) /\ rec \in RecRow
  BY DEF RunInv, Typed, CopiesTrue
<1>1. /\ mem' = [mem EXCEPT !.old = TRUE] /\ left' \in 0..MaxDisturb
      /\ UNCHANGED <<disk, task_vars, flow, steer, rec, sweep, told_vars>>
  BY RunAssumption DEF Age, Disturb, RunInv, Typed
<1>2. mem' \in Record /\ Truthful(mem')
  BY <1>0, <1>1, Aged DEF Truthful, Same
<1> QED BY <1>0, <1>1, <1>2, RecordKeeps

LEMMA PersistKeeps ==
  ASSUME RunInv, Persist
  PROVE  RunInv'
<1>1. /\ work \in [Tasks -> TaskRow] /\ task \in Tasks \cup {0} /\ expect \in Gens \cup {0}
      /\ mem \in Record /\ Truthful(mem) /\ disk' = mem /\ mem' = mem
      /\ steer \in [Steerers -> SteerRow] /\ rec \in RecRow /\ left \in 0..MaxDisturb
      /\ UNCHANGED <<work, task, expect, lock, flow, steer, rec, sweep, told_vars, left>>
  BY DEF RunInv, Typed, CopiesTrue, Persist, task_vars
<1> QED BY <1>1, OwnStepKeeps

\* No task, flow or copy survives, and nothing has been published since.
LEMMA CrashKeeps ==
  ASSUME RunInv, Crash
  PROVE  RunInv'
<1> USE DEF RunInv
<1>0. /\ disk \in Record /\ Truthful(disk) /\ sent \in [Keys -> Nat] /\ told \subseteq Keys
      /\ mem' = Restored(disk) /\ left' \in 0..MaxDisturb
      /\ work' = [g \in Tasks |-> NoTask] /\ task' = 0 /\ expect' = 0 /\ lock' = Free
      /\ flow' = [x \in Flows |-> NoFlow] /\ steer' = [a \in Steerers |-> NoSteer]
      /\ rec' = NoRec /\ sweep' = NoSweep /\ mirror' = {} /\ keys' = {}
      /\ sent' = [k \in Keys |-> 0] /\ UNCHANGED <<disk, told>>
  BY RunAssumption DEF Crash, Disturb, Typed, CopiesTrue
<1>1. mem' \in Record /\ Truthful(mem')
  BY <1>0, WasRestored DEF Truthful
<1>2. Typed'
  BY <1>0, <1>1, Blank DEF Typed
<1>3. LockCovers'
  BY <1>0, Blank, Names DEF LockCovers
<1>4. CopiesTrue'
  BY <1>0, <1>1, Blank DEF CopiesTrue, Truthful, Heard
<1>5. Attempts'
  BY <1>0, Blank DEF Attempts, Publishing
<1>6. CopiesLive'
  BY <1>0, Blank DEF CopiesLive
<1> QED BY <1>2, <1>3, <1>4, <1>5, <1>6

---------------------------------------------------------------------------
(* The specification *)

LEMMA RunStarts == RunInit => RunInv
<1> SUFFICES ASSUME RunInit PROVE RunInv
  OBVIOUS
<1>0. /\ disk = mem /\ task = 1 /\ expect = 1 /\ lock = Free
      /\ work = [g \in Tasks |-> IF g = 1 THEN [NoTask EXCEPT !.pc = "lane"] ELSE NoTask]
      /\ flow = [x \in Flows |-> NoFlow] /\ steer = [a \in Steerers |-> NoSteer]
      /\ rec = NoRec /\ sweep = NoSweep
      /\ mirror = {} /\ keys = {} /\ told = {}
      /\ sent = [k \in Keys |-> 0] /\ left = MaxDisturb
  BY DEF RunInit, Keys
<1>1. mem \in Record /\ mem.dlv = "pending"
  BY FirstRecord DEF RunInit
<1>2. /\ work \in [Tasks -> TaskRow] /\ \A g \in Tasks : work[g].pc # "flow"
  <2>1. [NoTask EXCEPT !.pc = "lane"] \in TaskRow /\ [NoTask EXCEPT !.pc = "lane"].pc = "lane"
    BY Blank, Moved
  <2> QED BY <1>0, <2>1, Blank
<1>3. left \in 0..MaxDisturb /\ 1 \in Gens
  BY <1>0, RunAssumption DEF Gens
<1>4. Typed
  BY <1>0, <1>1, <1>2, <1>3, Blank, Names DEF Typed
<1>5. LockCovers
  BY <1>0, <1>2, Blank, Names DEF LockCovers
<1>6. CopiesTrue
  BY <1>0, <1>1, Blank DEF CopiesTrue, Truthful
<1>7. Attempts
  BY <1>0, Blank DEF Attempts, Publishing
<1>8. CopiesLive
  BY <1>0, Blank DEF CopiesLive
<1> QED BY <1>4, <1>5, <1>6, <1>7, <1>8 DEF RunInv

LEMMA StutterKeeps ==
  ASSUME RunInv, UNCHANGED vars
  PROVE  RunInv'
BY DEF vars, run_vars, task_vars, told_vars, RunInv, Typed, LockCovers, CopiesTrue, Truthful,
       Heard, Attempts, Publishing, CopiesLive, Live, Key

LEMMA NextKeeps ==
  ASSUME RunInv, [RunNext]_vars
  PROVE  RunInv'
<1>1. ASSUME NEW g \in Tasks, Task(g) PROVE RunInv'
  BY <1>1, TaskKeeps
<1>2. ASSUME NEW x \in Flows, Flow(x) \/ PublishFails(x) PROVE RunInv'
  BY <1>2, FlowKeeps
<1>3. ASSUME NEW a \in Steerers, Steering(a) \/ BuildFails(a) PROVE RunInv'
  BY <1>3, ReplaceKeeps, RestartKeeps, BuildFailsKeeps DEF Steering
<1>4. ASSUME NEW s \in Scans, List(s) PROVE RunInv'
  BY <1>4, ListKeeps
<1> QED BY <1>1, <1>2, <1>3, <1>4, UnlockKeeps, KillKeeps, SteerKeeps, ScheduleKeeps,
           RecoveryKeeps, SweepingKeeps, AgeKeeps, PersistKeeps, CrashKeeps, StutterKeeps
        DEF RunNext

\* The lock covers its flow, an attempt is in the mirror before it publishes,
\* and every copy of the record says "delivered" only of what was published.
THEOREM RunInvariant == RunSpec => []RunInv
BY RunStarts, NextKeeps, PTL DEF RunSpec

\* The terminal lock of complete_subagent_run is held exactly while the
\* announce flow it covers runs, by the task or the kill that waits for it.
THEOREM RunTypeCorrect == RunSpec => []RunTypeOK
<1>1. RunInv => RunTypeOK
  <2> SUFFICES ASSUME RunInv PROVE RunTypeOK
    OBVIOUS
  <2>1. DOMAIN sent = Keys
    BY DEF RunInv, Typed
  <2> QED BY <2>1 DEF RunInv, Typed, LockCovers, RunTypeOK, TaskRow, FlowRow, SteerRow, LockRow,
                      RecRow, SweepRow
<1> QED BY <1>1, RunInvariant, PTL

\* However many completions, kills, steers, recoveries and scans announce a
\* generation, from whatever copy, its result is published once in a process.
THEOREM PublishedOnce == RunSpec => []AnnouncedOnce
<1>1. RunInv => AnnouncedOnce
  <2> SUFFICES ASSUME RunInv PROVE AnnouncedOnce
    OBVIOUS
  <2>1. DOMAIN sent = Keys
    BY DEF RunInv, Typed
  <2> QED BY <2>1 DEF RunInv, Attempts, CopiesTrue, Truthful, Heard, AnnouncedOnce
<1> QED BY <1>1, RunInvariant, PTL

---------------------------------------------------------------------------
(* The outcome of an ended run *)

LEMMA SameResult ==
  ASSUME NEW q, NEW r, Same(q, r)
  PROVE  Result(q) = Result(r)
BY DEF Same, Result

LEMMA TaskStands ==
  ASSUME RunInv, ~Live(mem), NEW g \in Tasks, Task(g)
  PROVE  Same(mem', mem)
<1> USE DEF RunInv
<1>0. work[g].out \in Outcomes /\ {"ok", "failed", "killed"} \subseteq Outcomes
  BY TaskFields DEF Typed, Outcomes
<1>1. CASE mem' = mem
  BY <1>1 DEF Same
<1>2. ASSUME NEW o \in Outcomes, Callback(g, o), UNCHANGED told_vars PROVE Same(mem', mem)
  BY <1>2, CompleteDoes DEF Callback, told_vars
<1>3. ASSUME NEW o \in Outcomes, EndRun(g, o), UNCHANGED told_vars PROVE Same(mem', mem)
  BY <1>1, <1>2, <1>3 DEF EndRun, run_vars
<1>4. CASE TakeSlot(g)
  BY <1>1, <1>4 DEF TakeSlot
<1>5. CASE Finish(g)
  <2>1. PICK o \in {"ok", "failed"} : EndRun(g, o)
    BY <1>5 DEF Finish
  <2> QED BY <1>0, <1>3, <1>5, <2>1 DEF Finish
<1>6. CASE Release(g) \/ EndTask(g)
  BY <1>1, <1>6 DEF Release, EndTask, run_vars
<1>7. CASE Settle(g)
  BY <1>0, <1>1, <1>2, <1>7 DEF Settle, run_vars
<1>8. CASE Cancelled(g)
  BY <1>0, <1>1, <1>3, <1>8 DEF Cancelled, run_vars
<1> QED BY <1>4, <1>5, <1>6, <1>7, <1>8 DEF Task

LEMMA FlowStands ==
  ASSUME RunInv, NoStaleCopy, NEW x \in Flows, Flow(x) \/ PublishFails(x)
  PROVE  Result(mem') = Result(mem)
<1> USE DEF RunInv
<1>0. flow[x].snap \in Record /\ mem \in Record /\ {"progress", "failed", "delivered"} \subseteq Deliveries
  BY FlowFields DEF Typed, Deliveries
<1>1. flow[x].pc # "off" => Result(flow[x].snap) = Result(mem)
  BY DEF NoStaleCopy
<1>2. \A r \in Record, d \in Deliveries : Result([r EXCEPT !.dlv = d]) = Result(r)
  BY SetDelivery, SameResult
<1>3. CASE mem' = mem
  BY <1>3
<1>4. CASE Deliver(x)
  <2>1. PICK r \in {flow[x].snap} \cup Captured(flow[x].snap) :
          UNCHANGED mem \/ mem' = [r EXCEPT !.dlv = "progress"]
    BY <1>4 DEF Deliver, run_vars
  <2>2. r \in Record /\ Result(r) = Result(mem)
    BY <1>0, <1>1, <1>4 DEF Captured, Deliver
  <2> QED BY <1>0, <1>2, <1>3, <2>1, <2>2
<1>5. CASE PublishFails(x)
  <2>1. flow[x].pc # "off" /\ (mem' = mem \/ mem' = [flow[x].snap EXCEPT !.dlv = "failed"])
    BY <1>5 DEF PublishFails, run_vars
  <2> QED BY <1>0, <1>1, <1>2, <2>1
<1>6. CASE MarkDelivered(x)
  <2>1. flow[x].pc # "off" /\ mem' = [flow[x].snap EXCEPT !.dlv = "delivered"]
    BY <1>6 DEF MarkDelivered
  <2> QED BY <1>0, <1>1, <1>2, <2>1
<1>7. CASE Publish(x) \/ EndFlow(x)
  BY <1>3, <1>7 DEF Publish, EndFlow, run_vars
<1> QED BY <1>4, <1>5, <1>6, <1>7 DEF Flow

\* An ended run keeps its generation and outcome until a new generation
\* begins, unless a copy that set_run writes back is older than the record.
THEOREM OutcomeKept == RunSpec => OutcomeStands
<1> DEFINE Stands == \/ Result(mem') = Result(mem) \/ mem'.gen > mem.gen \/ Crash
<1>1. ASSUME RunInv, [RunNext]_vars, ~Live(mem), NoStaleCopy
      PROVE  Stands \/ UNCHANGED vars
  <2> USE <1>1 DEF RunInv
  <2>0. /\ mem \in Record /\ sweep.snap \in Record /\ ~Steerable(mem) /\ mem.gen \in Nat
        /\ {"pending", "discarded"} \subseteq Deliveries /\ "timeout" \in Outcomes
    BY RecordFields DEF Typed, SweepRow, Live, Steerable, Gens, Deliveries, Outcomes
  <2>1. CASE mem' = mem
    BY <2>1
  <2>2. ASSUME NEW g \in Tasks, Task(g) PROVE Stands
    BY <2>2, TaskStands, SameResult
  <2>3. ASSUME NEW x \in Flows, Flow(x) \/ PublishFails(x) PROVE Stands
    BY <2>3, FlowStands
  <2>4. CASE Unlock
    <3>1. lock.by = Killer => Result(lock.base) = Result(mem)
      BY Blank, Names DEF NoStaleCopy
    <3> QED BY <2>4, <3>1 DEF Unlock
  <2>5. ASSUME NEW a \in Steerers, Steering(a) PROVE Stands
    <3>1. CASE Replace(a)
      <4> DEFINE r == [Renew(mem) EXCEPT !.supp = TRUE]
      <4>1. mem' = r /\ mem.gen < MaxGen
        BY <3>1 DEF Replace
      <4>2. Renew(mem) \in Record /\ Renew(mem).gen = mem.gen + 1
        BY <2>0, <4>1, Renewed
      <4>3. r.gen = mem.gen + 1
        BY <4>2, Silenced DEF Same
      <4> HIDE DEF r
      <4> QED BY <2>0, <4>1, <4>3
    <3>2. CASE Restart(a)
      <4>1. steer[a].pc = "build" /\ steer[a].snap.st = "interrupted"
        BY <3>2 DEF Restart, CopiesLive
      <4>2. Result(steer[a].snap) = Result(mem)
        BY <4>1 DEF NoStaleCopy
      <4> QED BY <4>1, <4>2 DEF Result, Live
    <3> QED BY <2>5, <3>1, <3>2 DEF Steering
  <2>6. ASSUME NEW a \in Steerers, BuildFails(a) PROVE Stands
    BY <2>1, <2>6 DEF BuildFails, run_vars
  <2>7. CASE Kill \/ Steer \/ ScheduleRecovery \/ Age
    BY <2>0, <2>7 DEF Kill, Steer, ScheduleRecovery, Age
  <2>8. CASE Recovery
    <3>1. CASE WakeRecovery
      BY <2>1, <3>1 DEF WakeRecovery, Live
    <3>2. CASE Resume \/ ResumeRefused
      <4>1. mem.gen < MaxGen
        BY <3>2 DEF Resume, ResumeRefused
      <4>2. Renew(mem) \in Record /\ Renew(mem).gen = mem.gen + 1
        BY <2>0, <4>1, Renewed
      <4>3. mem'.gen = mem.gen + 1
        <5>1. \/ mem' = [Renew(mem) EXCEPT !.supp = TRUE]
              \/ mem' = Close(Renew(mem), "timeout")
          BY <3>2 DEF Resume, ResumeRefused, Redirect
        <5>2. /\ [Renew(mem) EXCEPT !.supp = TRUE].gen = Renew(mem).gen
              /\ Close(Renew(mem), "timeout").gen = Renew(mem).gen
          BY <2>0, <4>2, Silenced, Closed DEF Same
        <5> QED BY <4>2, <5>1, <5>2
      <4> QED BY <2>0, <4>3
    <3> QED BY <2>8, <3>1, <3>2 DEF Recovery
  <2>9. ASSUME NEW s \in Scans, List(s) PROVE Stands
    BY <2>1, <2>9 DEF List, run_vars
  <2>10. CASE Sweeping
    <3>1. sweep.scan # "off" => Result(sweep.snap) = Result(mem)
      BY DEF NoStaleCopy
    <3>2. CASE Reconcile
      BY <3>1, <3>2 DEF Reconcile, CopiesLive, Live, Result
    <3>3. CASE Announce
      BY <2>1, <3>3 DEF Announce, run_vars
    <3>4. \A d \in Deliveries : Result([sweep.snap EXCEPT !.dlv = d]) = Result(sweep.snap)
      BY <2>0, SetDelivery, SameResult
    <3>5. CASE Retry \/ Discard
      BY <2>0, <3>1, <3>4, <3>5 DEF Retry, Discard
    <3> QED BY <2>10, <3>2, <3>3, <3>5 DEF Sweeping
  <2>11. CASE Persist
    BY <2>1, <2>11 DEF Persist
  <2>12. CASE Crash
    BY <2>12
  <2> HIDE DEF Stands
  <2> QED BY <2>2, <2>3, <2>4, <2>5, <2>6, <2>7, <2>8, <2>9, <2>10, <2>11, <2>12 DEF RunNext
<1>2. RunInv /\ [RunNext]_vars => [~Live(mem) /\ NoStaleCopy => Stands]_vars
  BY <1>1
<1> QED BY <1>2, RunInvariant, PTL DEF RunSpec, OutcomeStands
=============================================================================
