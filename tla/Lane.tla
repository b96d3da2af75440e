-------------------------------- MODULE Lane --------------------------------
(***************************************************************************)
(* One concurrency lane of runtime/lane/core.py: an asyncio.Semaphore      *)
(* (Python 3.13) behind active/queued counters, whose limit can be changed *)
(* while slots are held.  Everything between two awaits is one step; a     *)
(* task parked on the semaphore goes through two: its future is resolved   *)
(* or cancelled, and later the task itself runs on.                        *)
(***************************************************************************)
EXTENDS Integers, Sequences, FiniteSets

CONSTANTS
  Task,        \* tasks that use lane_slot
  Max0,        \* the limit the lane is created with
  Limits,      \* limits set_max is called with
  MaxResize    \* bound: calls of set_max

ASSUME LaneAssumption == /\ Max0 \in Nat \ {0}
                         /\ Limits \subseteq Nat \ {0}
                         /\ MaxResize \in Nat

VARIABLES
  max,         \* _max
  active,      \* _active
  queued,      \* _queued
  pending,     \* _rebind_pending
  sem,         \* which semaphore _sem is, counting the rebinds
  value,       \* its _value
  parked,      \* the futures tasks wait on, oldest first
  holding,     \* tasks inside their lane_slot
  draining,    \* what the registered drain check reports
  resizes
sem_vars == <<sem, value>>
vars == <<max, active, queued, pending, sem, value, parked, holding, draining, resizes>>

\* A future waits, is woken with a permit, is cancelled before that, or was
\* woken and then had its task cancelled.
Future == [task : Task, sem : Nat, st : {"waits", "woken", "cancelled", "revoked"}]
Parked == {parked[i].task : i \in DOMAIN parked}

---------------------------------------------------------------------------
(* asyncio.Semaphore *)

Locked(s, v, q) == v = 0 \/ \E i \in DOMAIN q : q[i].sem = s /\ q[i].st # "cancelled"

Unresolved(s, q) == {i \in DOMAIN q : q[i].sem = s /\ q[i].st = "waits"}
Least(n, m)      == IF n < m THEN n ELSE m
Woken(s, q, n)   == {i \in Unresolved(s, q) : Cardinality({j \in Unresolved(s, q) : j <= i}) <= n}
\* Give up to n permits of semaphore s to the oldest futures that wait.
Wake(s, q, n)    == [i \in DOMAIN q |-> IF i \in Woken(s, q, n) THEN [q[i] EXCEPT !.st = "woken"]
                                                               ELSE q[i]]
Woke(s, q, n)    == Least(n, Cardinality(Unresolved(s, q)))
Without(q, i)    == SubSeq(q, 1, i - 1) \o SubSeq(q, i + 1, Len(q))

---------------------------------------------------------------------------
(* Lane *)

\* Mutants: the slots still held are not deducted; the floor of one is missing.
Permits_Full(m, a)    == m
Permits_NoFloor(m, a) == m - a
\* max(1, max - active)
Permits(m, a) == IF m - a > 1 THEN m - a ELSE 1

\* _apply_pending_rebind, with the counters of the moment: the semaphore, its
\* value and the flag that result from <<s, v>>.
Rebound(q, a, s, v) == IF pending /\ q = 0 THEN <<sem + 1, Permits(max, a), FALSE>>
                                           ELSE <<s, v, pending>>

Acquire(t) ==
  /\ t \notin holding /\ t \notin Parked
  /\ ~draining                      \* else: refused, nothing changes
  /\ LET r == Rebound(queued, active, sem, value)
     IN  /\ sem' = r[1] /\ pending' = r[3]
         /\ IF Locked(r[1], r[2], parked)
              THEN /\ parked' = Append(parked, [task |-> t, sem |-> r[1], st |-> "waits"])
                   /\ queued' = queued + 1
                   /\ value' = r[2]
                   /\ UNCHANGED <<active, holding>>
              ELSE /\ value' = r[2] - 1
                   /\ active' = active + 1
                   /\ holding' = holding \cup {t}
                   /\ UNCHANGED <<parked, queued>>
  /\ UNCHANGED <<max, draining, resizes>>

\* Semaphore.acquire hands back the permit of a future that was resolved
\* before its task was cancelled.
HandBack(st) == IF st = "revoked" THEN 1 ELSE 0

\* Mutant: a leaving task does not pass free permits on.
Resume_Silent(i) ==
  /\ parked[i].st # "waits"
  /\ LET f == parked[i]
     IN  /\ parked' = Without(parked, i)
         /\ value' = IF f.sem = sem THEN value + HandBack(f.st) ELSE value
         /\ IF f.st = "woken"
              THEN active' = active + 1 /\ holding' = holding \cup {f.task}
              ELSE UNCHANGED <<active, holding>>
  /\ queued' = queued - 1
  /\ UNCHANGED <<max, pending, sem, draining, resizes>>

\* Mutant: a cancelled acquire releases a permit whether it had one or not.
Resume_ReleasesAll(i) ==
  /\ parked[i].st # "waits"
  /\ LET f    == parked[i]
         rest == Without(parked, i)
         free == (IF f.sem = sem THEN value ELSE 0) + (IF f.st = "woken" THEN 0 ELSE 1)
     IN  /\ parked' = Wake(f.sem, rest, free)
         /\ value' = IF f.sem = sem THEN free - Woke(f.sem, rest, free) ELSE value
         /\ IF f.st = "woken"
              THEN active' = active + 1 /\ holding' = holding \cup {f.task}
              ELSE UNCHANGED <<active, holding>>
  /\ queued' = queued - 1
  /\ UNCHANGED <<max, pending, sem, draining, resizes>>

\* The parked task runs on: with a slot if it was woken, else it propagates
\* the cancellation.  Leaving, it passes free permits on.
Resume(i) ==
  /\ parked[i].st # "waits"
  /\ LET f    == parked[i]
         rest == Without(parked, i)
         free == (IF f.sem = sem THEN value ELSE 0) + HandBack(f.st)
     IN  /\ parked' = Wake(f.sem, rest, free)
         /\ value' = IF f.sem = sem THEN free - Woke(f.sem, rest, free) ELSE value
         /\ IF f.st = "woken"
              THEN active' = active + 1 /\ holding' = holding \cup {f.task}
              ELSE UNCHANGED <<active, holding>>
  /\ queued' = queued - 1
  /\ UNCHANGED <<max, pending, sem, draining, resizes>>

\* task.cancel() on a parked task.
Cancel(i) ==
  /\ parked[i].st \in {"waits", "woken"}
  /\ parked' = [parked EXCEPT ![i].st = IF @ = "waits" THEN "cancelled" ELSE "revoked"]
  /\ UNCHANGED <<max, active, queued, pending, sem, value, holding, draining, resizes>>

\* The slot is left, normally or by an exception.
Release(t) ==
  /\ t \in holding
  /\ holding' = holding \ {t}
  /\ active' = active - 1
  /\ parked' = Wake(sem, parked, 1)
  /\ LET v == value + 1 - Woke(sem, parked, 1)
         r == Rebound(queued, active', sem, v)
     IN  sem' = r[1] /\ value' = r[2] /\ pending' = r[3]
  /\ UNCHANGED <<max, queued, draining, resizes>>

\* Mutant: the semaphore is swapped under the tasks parked on it.
SetMax_AtOnce(m) ==
  /\ resizes < MaxResize /\ resizes' = resizes + 1
  /\ max' = m
  /\ sem' = sem + 1 /\ value' = Permits(m, active)
  /\ UNCHANGED <<active, queued, pending, parked, holding, draining>>

SetMax(m) ==
  /\ resizes < MaxResize /\ resizes' = resizes + 1
  /\ max' = m
  /\ IF queued > 0
       THEN pending' = TRUE /\ UNCHANGED sem_vars
       ELSE sem' = sem + 1 /\ value' = Permits(m, active) /\ UNCHANGED pending
  /\ UNCHANGED <<active, queued, parked, holding, draining>>

\* The gateway starts to drain.
Drain == /\ ~draining /\ draining' = TRUE
         /\ UNCHANGED <<max, active, queued, pending, sem_vars, parked, holding, resizes>>

---------------------------------------------------------------------------
Init == /\ max = Max0 /\ active = 0 /\ queued = 0 /\ pending = FALSE
        /\ sem = 0 /\ value = Max0
        /\ parked = <<>> /\ holding = {} /\ draining = FALSE /\ resizes = 0

Next == \/ \E t \in Task : Acquire(t) \/ Release(t)
        \/ \E i \in DOMAIN parked : Resume(i) \/ Cancel(i)
        \/ \E m \in Limits : SetMax(m)
        \/ Drain

Spec == Init /\ [][Next]_vars

\* Tasks leave their slots, and the loop runs every task that is ready.
ResumeTask(t) == \E i \in DOMAIN parked : parked[i].task = t /\ Resume(i)
FairSpec == Spec /\ \A t \in Task : WF_vars(Release(t)) /\ WF_vars(ResumeTask(t))

---------------------------------------------------------------------------
(* Properties *)

\* Type invariant; the counters count what they are named for.
LaneTypeOK ==
  /\ max \in Nat \ {0} /\ pending \in BOOLEAN /\ draining \in BOOLEAN
  /\ sem \in Nat /\ value \in Nat /\ resizes \in 0 .. MaxResize
  /\ parked \in Seq(Future)
  /\ holding \subseteq Task /\ holding \cap Parked = {}
  /\ active = Cardinality(holding)
  /\ queued = Len(parked)

\* No waiter is left on a semaphore that nobody releases: set_max never swaps
\* it under a parked task (the reason the swap is deferred).
NoOrphan == \A i \in DOMAIN parked : parked[i].sem = sem

\* No permit lies idle while a task waits for one, unless a task that is about
\* to run on will pass it on: cancellation never loses a wake-up.
NoIdlePermit ==
  (value > 0 /\ \E i \in DOMAIN parked : parked[i].st = "waits")
    => \E i \in DOMAIN parked : parked[i].st # "waits"

\* Slots are handed out in the order of arrival: nobody takes one while a task
\* that came earlier still waits for a permit.
Fifo ==
  [][\A t \in holding' \ holding : \A i \in DOMAIN parked :
       parked[i].st = "waits" =>
         \E j \in DOMAIN parked : j < i /\ parked[j].task = t]_vars

\* Whoever waits gets a slot or is cancelled, whatever resizes and
\* cancellations of others intervene.
NoStarvation == \A t \in Task : t \in Parked ~> t \notin Parked

\* With no change of the limit, the slots held and the permits given out but
\* not yet taken up never exceed it, however waiters are cancelled; a permit
\* is neither lost nor issued twice.
GivenOut == Cardinality({i \in DOMAIN parked : parked[i].st \in {"woken", "revoked"}})
PermitsConserved == resizes = 0 => active + GivenOut + value = max

\* A limit that was raised is never exceeded (set_max: "existing slots keep
\* their permit and the fresh semaphore is seeded with the remaining
\* capacity").  A second change, or one that does not raise it, may mint one
\* permit too many on a full lane, by the floor of one.
LimitOnlyRaised == resizes = 0 \/ (resizes = 1 /\ max > Max0)
AdmitsWithinLimit == [][active' > active /\ LimitOnlyRaised => active' <= max]_vars
=============================================================================
