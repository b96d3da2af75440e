----------------------------- MODULE Lane_proofs -----------------------------
(***************************************************************************)
(* Proofs about a lane, for any tasks, any limits and any number of        *)
(* changes of the limit: its counters are right, nobody waits on a         *)
(* semaphore that was replaced or beside a free permit, slots are handed   *)
(* out in the order of arrival, and permits are neither lost nor minted    *)
(* while the limit has at most been raised once.                           *)
(***************************************************************************)
EXTENDS Lane, FiniteSetTheorems, SequenceTheorems, TLAPS

\* A task waits at one place.
Distinct == \A i, j \in DOMAIN parked : parked[i].task = parked[j].task => i = j

\* Permits go to the oldest waiters: whoever was woken has nobody waiting
\* before it.
InOrder ==
  \A i, j \in DOMAIN parked : i < j /\ parked[i].st = "waits" => parked[j].st # "woken"

LaneInv == /\ LaneTypeOK /\ IsFiniteSet(holding)
           /\ Distinct /\ NoOrphan /\ InOrder /\ NoIdlePermit

States == {"waits", "woken", "cancelled", "revoked"}

---------------------------------------------------------------------------
(* Queues of futures *)

LEMMA FutureFields ==
  ASSUME NEW f \in Future
  PROVE  f.task \in Task /\ f.sem \in Nat /\ f.st \in States
BY DEF Future, States

\* What waking up to n futures of a semaphore does to its queue.
LEMMA WakeShape ==
  ASSUME NEW q \in Seq(Future), NEW s \in Nat, NEW n \in Nat
  PROVE  /\ Wake(s, q, n) \in Seq(Future)
         /\ Len(Wake(s, q, n)) = Len(q) /\ DOMAIN Wake(s, q, n) = 1 .. Len(q)
         /\ \A i \in 1 .. Len(q) :
              /\ Wake(s, q, n)[i].task = q[i].task /\ Wake(s, q, n)[i].sem = q[i].sem
              /\ Wake(s, q, n)[i].st = IF i \in Woken(s, q, n) THEN "woken" ELSE q[i].st
<1> DEFINE w == Wake(s, q, n)
<1>1. ASSUME NEW i \in 1 .. Len(q)
      PROVE  /\ w[i] \in Future
             /\ w[i].task = q[i].task /\ w[i].sem = q[i].sem
             /\ w[i].st = IF i \in Woken(s, q, n) THEN "woken" ELSE q[i].st
  <2>1. q[i] \in Future /\ i \in DOMAIN q
    OBVIOUS
  <2>2. w[i] = IF i \in Woken(s, q, n) THEN [q[i] EXCEPT !.st = "woken"] ELSE q[i]
    BY <2>1 DEF Wake
  <2> HIDE DEF w
  <2>3. CASE i \in Woken(s, q, n)
    <3>1. w[i] = [q[i] EXCEPT !.st = "woken"]
      BY <2>2, <2>3
    <3> QED BY <2>1, <2>3, <3>1 DEF Future
  <2> QED BY <2>1, <2>2, <2>3
<1>2. w = [i \in 1 .. Len(q) |-> w[i]]
  BY DEF Wake
<1> HIDE DEF w
<1>3. w \in [1 .. Len(q) -> Future] /\ DOMAIN w = 1 .. Len(q)
  BY <1>1, <1>2
<1>4. w \in Seq(Future) /\ Len(w) = Len(q)
  BY <1>3
<1> QED BY <1>1, <1>3, <1>4 DEF w

LEMMA WokenWait ==
  ASSUME NEW q \in Seq(Future), NEW s, NEW n \in Nat
  PROVE  /\ \A i \in Woken(s, q, n) : i \in 1 .. Len(q) /\ q[i].sem = s /\ q[i].st = "waits"
         /\ IsFiniteSet(Unresolved(s, q)) /\ Unresolved(s, q) \subseteq 1 .. Len(q)
<1>1. IsFiniteSet(1 .. Len(q))
  BY FS_Interval
<1>2. Unresolved(s, q) \subseteq 1 .. Len(q)
  BY DEF Unresolved
<1> QED BY <1>1, <1>2, FS_Subset DEF Woken, Unresolved

\* They are the oldest ones.
LEMMA OldestFirst ==
  ASSUME NEW q \in Seq(Future), NEW s, NEW n \in Nat,
         NEW i \in Unresolved(s, q), NEW j \in Woken(s, q, n), i < j
  PROVE  i \in Woken(s, q, n)
<1> DEFINE UpTo(k) == {m \in Unresolved(s, q) : m <= k}
<1>0. i \in Nat /\ j \in Nat /\ \A m \in Unresolved(s, q) : m \in Nat
  BY WokenWait DEF Woken
<1>1. UpTo(i) \subseteq UpTo(j) /\ UpTo(j) \subseteq Unresolved(s, q)
  <2>1. ASSUME NEW m \in Unresolved(s, q), m <= i PROVE m <= j
    BY <1>0, <2>1
  <2> QED BY <2>1
<1>2. IsFiniteSet(UpTo(j))
  BY <1>1, WokenWait, FS_Subset
<1>3. /\ Cardinality(UpTo(i)) \in Nat /\ Cardinality(UpTo(j)) \in Nat
      /\ Cardinality(UpTo(i)) <= Cardinality(UpTo(j))
  BY <1>1, <1>2, FS_Subset, FS_CardinalityType
<1>4. Cardinality(UpTo(j)) <= n
  BY DEF Woken
<1>5. Cardinality(UpTo(i)) <= n
  BY <1>3, <1>4
<1> QED BY <1>5 DEF Woken

\* A permit is left only if nobody waits any more.
LEMMA WokeAll ==
  ASSUME NEW q \in Seq(Future), NEW s, NEW n \in Nat
  PROVE  /\ Woke(s, q, n) \in 0 .. n
         /\ n # Woke(s, q, n) => \A i \in Unresolved(s, q) : i \in Woken(s, q, n)
<1>1. /\ IsFiniteSet(Unresolved(s, q)) /\ Cardinality(Unresolved(s, q)) \in Nat
  BY WokenWait, FS_CardinalityType
<1>2. Woke(s, q, n) \in 0 .. n
  BY <1>1 DEF Woke, Least
<1>3. ASSUME n # Woke(s, q, n), NEW i \in Unresolved(s, q)
      PROVE  i \in Woken(s, q, n)
  <2> DEFINE T == {m \in Unresolved(s, q) : m <= i}
  <2>1. T \subseteq Unresolved(s, q)
    OBVIOUS
  <2>2. Cardinality(T) <= Cardinality(Unresolved(s, q)) /\ IsFiniteSet(T)
    BY <1>1, <2>1, FS_Subset
  <2>3. Cardinality(T) \in Nat
    BY <2>2, FS_CardinalityType
  <2>4. Cardinality(Unresolved(s, q)) <= n
    BY <1>1, <1>3 DEF Woke, Least
  <2>5. Cardinality(T) <= n
    BY <1>1, <2>2, <2>3, <2>4
  <2> QED BY <2>5 DEF Woken
<1> QED BY <1>2, <1>3

LEMMA WithoutShape ==
  ASSUME NEW q \in Seq(Future), NEW i \in DOMAIN q
  PROVE  /\ Without(q, i) \in Seq(Future)
         /\ Len(Without(q, i)) = Len(q) - 1 /\ DOMAIN Without(q, i) = 1 .. Len(q) - 1
         /\ \A j \in 1 .. Len(q) - 1 :
              Without(q, i)[j] = IF j < i THEN q[j] ELSE q[j + 1]
<1> DEFINE a == SubSeq(q, 1, i - 1)
           b == SubSeq(q, i + 1, Len(q))
<1>0. Len(q) \in Nat /\ i \in 1 .. Len(q) /\ \A j \in 1 .. Len(q) : q[j] \in Future
  OBVIOUS
<1>1. /\ a \in Seq(Future) /\ Len(a) = i - 1 /\ \A j \in 1 .. i - 1 : a[j] = q[j]
  <2>1. \A j \in 1 .. i - 1 : q[j] \in Future
    BY <1>0
  <2> QED BY <1>0, <2>1, SubSeqProperties
<1>2. /\ b \in Seq(Future) /\ Len(b) = Len(q) - i
      /\ \A j \in 1 .. Len(q) - i : b[j] = q[j + i]
  <2>1. \A j \in i + 1 .. Len(q) : q[j] \in Future
    BY <1>0
  <2>2. /\ b \in Seq(Future) /\ Len(b) = IF i + 1 <= Len(q) THEN Len(q) - (i + 1) + 1 ELSE 0
        /\ \A j \in 1 .. Len(q) - (i + 1) + 1 : b[j] = q[i + 1 + j - 1]
    BY <1>0, <2>1, SubSeqProperties
  <2> HIDE DEF b
  <2>3. \A j \in 1 .. Len(q) - i : b[j] = q[i + 1 + j - 1] /\ i + 1 + j - 1 = j + i
    BY <1>0, <2>2
  <2> QED BY <1>0, <2>2, <2>3
<1> HIDE DEF a, b
<1>3. /\ a \o b \in Seq(Future) /\ Len(a \o b) = Len(q) - 1
      /\ \A j \in 1 .. Len(q) - 1 : (a \o b)[j] = IF j <= i - 1 THEN a[j] ELSE b[j - (i - 1)]
  <2>1. /\ a \o b \in Seq(Future) /\ Len(a \o b) = Len(a) + Len(b)
        /\ \A j \in 1 .. Len(a) + Len(b) :
             (a \o b)[j] = IF j <= Len(a) THEN a[j] ELSE b[j - Len(a)]
    BY <1>1, <1>2, ConcatProperties
  <2>2. Len(a) = i - 1 /\ Len(a) + Len(b) = Len(q) - 1
    BY <1>0, <1>1, <1>2
  <2> QED BY <2>1, <2>2
<1>4. Without(q, i) = a \o b
  BY DEF Without, a, b
<1>5. ASSUME NEW j \in 1 .. Len(q) - 1
      PROVE  (a \o b)[j] = IF j < i THEN q[j] ELSE q[j + 1]
  <2>1. CASE j < i
    BY <1>0, <1>1, <1>3, <2>1
  <2>2. CASE ~(j < i)
    <3>1. (a \o b)[j] = b[j - (i - 1)] /\ j - (i - 1) \in 1 .. Len(q) - i
      BY <1>0, <1>3, <2>2
    <3>2. b[j - (i - 1)] = q[j - (i - 1) + i] /\ j - (i - 1) + i = j + 1
      BY <1>0, <1>2, <3>1
    <3> QED BY <2>2, <3>1, <3>2
  <2> QED BY <2>1, <2>2
<1>6. DOMAIN (a \o b) = 1 .. Len(q) - 1
  BY <1>0, <1>3
<1> QED BY <1>3, <1>4, <1>5, <1>6

---------------------------------------------------------------------------
(* Steps *)

LEMMA Basics ==
  ASSUME LaneInv
  PROVE  /\ parked \in Seq(Future) /\ DOMAIN parked = 1 .. Len(parked) /\ Len(parked) \in Nat
         /\ \A i \in DOMAIN parked : /\ parked[i] \in Future
                                     /\ parked[i].task \in Task /\ parked[i].sem = sem
                                     /\ parked[i].st \in States
         /\ \A i \in DOMAIN parked : parked[i].task \notin holding
         /\ max \in Nat \ {0} /\ active \in Nat /\ value \in Nat /\ sem \in Nat
         /\ MaxResize \in Nat /\ resizes \in Nat
         /\ active = Cardinality(holding) /\ queued = Len(parked)
         /\ \A m \in Nat \ {0} : Permits(m, active) \in Nat \ {0}
<1> USE DEF LaneInv, LaneTypeOK
<1>1. active \in Nat
  BY FS_CardinalityType
<1>2. \A m \in Nat \ {0} : Permits(m, active) \in Nat \ {0}
  BY <1>1 DEF Permits
<1>3. \A i \in DOMAIN parked : parked[i] \in Future
  OBVIOUS
<1>4. \A i \in DOMAIN parked : parked[i].task \in Task /\ parked[i].st \in States
  BY <1>3, FutureFields
<1> QED BY <1>1, <1>2, <1>3, <1>4, LaneAssumption DEF NoOrphan, Parked

\* The counters after a task entered or left a slot.
LEMMA HoldingChanges ==
  ASSUME IsFiniteSet(holding), active = Cardinality(holding), NEW t
  PROVE  /\ IsFiniteSet(holding \cup {t}) /\ IsFiniteSet(holding \ {t})
         /\ t \notin holding => Cardinality(holding \cup {t}) = active + 1
         /\ t \in holding => Cardinality(holding \ {t}) = active - 1
BY FS_AddElement, FS_RemoveElement

\* The queue after tasks left it or were woken: it suffices to know where each
\* future stood before.
LEMMA QueueKept ==
  ASSUME LaneInv, NEW q \in Seq(Future), NEW n \in Nat,
         \A i \in DOMAIN q : q[i].sem = sem,
         \A i, j \in DOMAIN q : i < j /\ q[i].st = "waits" => q[j].st # "woken",
         \A i, j \in DOMAIN q : q[i].task = q[j].task => i = j,
         parked' = Wake(sem, q, n)
  PROVE  /\ parked' \in Seq(Future) /\ Len(parked') = Len(q) /\ DOMAIN parked' = DOMAIN q
         /\ \A i \in DOMAIN q : parked'[i].sem = sem /\ parked'[i].task = q[i].task
         /\ Distinct' /\ InOrder'
         /\ \A i \in DOMAIN q : parked'[i].st = "waits" => q[i].st = "waits"
         /\ Woke(sem, q, n) \in 0 .. n
         /\ n # Woke(sem, q, n) => \A i \in DOMAIN q : parked'[i].st # "waits"
<1>0. sem \in Nat /\ DOMAIN q = 1 .. Len(q) /\ Len(q) \in Nat
  BY Basics
<1>1. /\ parked' \in Seq(Future)
      /\ Len(parked') = Len(q) /\ DOMAIN parked' = DOMAIN q
      /\ \A i \in DOMAIN q :
           /\ parked'[i].task = q[i].task /\ parked'[i].sem = q[i].sem
           /\ parked'[i].st = IF i \in Woken(sem, q, n) THEN "woken" ELSE q[i].st
  BY <1>0, WakeShape
<1>2. Distinct'
  BY <1>1 DEF Distinct
<1>3. \A i \in DOMAIN q : i \in Unresolved(sem, q) <=> q[i].st = "waits"
  BY DEF Unresolved
<1>4. ASSUME NEW i \in DOMAIN q, NEW j \in DOMAIN q, i < j, parked'[i].st = "waits"
      PROVE  parked'[j].st # "woken"
  <2>1. q[i].st = "waits" /\ i \in Unresolved(sem, q) /\ i \notin Woken(sem, q, n)
    BY <1>1, <1>3, <1>4
  <2>2. j \notin Woken(sem, q, n)
    BY <1>4, <2>1, OldestFirst
  <2> QED BY <1>1, <1>4, <2>1, <2>2
<1>5. InOrder'
  BY <1>1, <1>4 DEF InOrder
<1>6. Woke(sem, q, n) \in 0 .. n
  BY WokeAll
<1>7. ASSUME n # Woke(sem, q, n), NEW i \in DOMAIN q
      PROVE  parked'[i].st # "waits"
  <2>1. i \in Unresolved(sem, q) => i \in Woken(sem, q, n)
    BY <1>7, WokeAll
  <2> QED BY <1>1, <1>3, <2>1
<1> QED BY <1>1, <1>2, <1>5, <1>6, <1>7

LEMMA AcquireKeeps ==
  ASSUME LaneInv, NEW t \in Task, Acquire(t)
  PROVE  LaneInv' /\ (holding' # holding => /\ holding' = holding \cup {t}
                                            /\ \A i \in DOMAIN parked : parked[i].st # "waits")
<1> DEFINE r == Rebound(queued, active, sem, value)
<1>0. /\ t \notin holding /\ \A i \in DOMAIN parked : parked[i].task # t
      /\ UNCHANGED <<max, draining, resizes>>
      /\ sem' = r[1] /\ pending' = r[3]
  BY DEF Acquire, Parked
<1>1. /\ r[1] \in Nat /\ r[2] \in Nat /\ r[3] \in BOOLEAN
      /\ \/ r[1] = sem /\ r[2] = value
         \/ parked = <<>> /\ r[2] # 0
  <2>1. CASE pending /\ queued = 0
    <3>1. r = <<sem + 1, Permits(max, active), FALSE>>
      BY <2>1 DEF Rebound
    <3>2. parked = <<>>
      BY <2>1, Basics
    <3>3. r[1] = sem + 1 /\ r[2] = Permits(max, active) /\ r[3] = FALSE
      BY <3>1
    <3>4. sem + 1 \in Nat /\ Permits(max, active) \in Nat \ {0}
      BY Basics
    <3> HIDE DEF r
    <3> QED BY <3>2, <3>3, <3>4
  <2>2. CASE ~(pending /\ queued = 0)
    <3>1. r = <<sem, value, pending>>
      BY <2>2 DEF Rebound
    <3>2. r[1] = sem /\ r[2] = value /\ r[3] = pending
      BY <3>1
    <3>3. pending \in BOOLEAN
      BY DEF LaneInv, LaneTypeOK
    <3> HIDE DEF r
    <3> QED BY <3>2, <3>3, Basics
  <2> QED BY <2>1, <2>2
<1>2. \A i \in DOMAIN parked : parked[i].sem = r[1]
  BY <1>1, Basics
<1>3. CASE Locked(r[1], r[2], parked)
  <2> DEFINE f == [task |-> t, sem |-> r[1], st |-> "waits"]
  <2>1. /\ parked' = Append(parked, f) /\ queued' = queued + 1 /\ value' = r[2]
        /\ UNCHANGED <<active, holding>>
    BY <1>3 DEF Acquire
  <2>2. f \in Future /\ f.task = t /\ f.sem = r[1] /\ f.st = "waits"
    BY <1>1 DEF Future
  <2> HIDE DEF f, r
  <2>3. /\ parked' \in Seq(Future) /\ Len(parked') = Len(parked) + 1
        /\ DOMAIN parked' = 1 .. Len(parked) + 1
        /\ \A i \in 1 .. Len(parked) : parked'[i] = parked[i]
        /\ parked'[Len(parked) + 1] = f
    BY <2>1, <2>2, Basics, AppendProperties
  <2>3a. \A i \in DOMAIN parked' :
           \/ i \in DOMAIN parked /\ parked'[i] = parked[i]
           \/ i = Len(parked) + 1 /\ parked'[i] = f
    <3>1. \A i \in DOMAIN parked' : i \in DOMAIN parked \/ i = Len(parked) + 1
      BY <2>3, Basics
    <3>2. \A i \in DOMAIN parked : parked'[i] = parked[i]
      BY <2>3, Basics
    <3> QED BY <2>3, <3>1, <3>2
  <2>3b. \A i \in DOMAIN parked : i \in Nat /\ i <= Len(parked) /\ Len(parked) \in Nat
    BY Basics
  <2>4. Parked' \cap holding' = {}
    BY <1>0, <2>1, <2>2, <2>3, Basics DEF Parked
  <2>5. LaneTypeOK'
    BY <1>0, <1>1, <2>1, <2>3, <2>4, Basics DEF LaneInv, LaneTypeOK
  <2>6. Distinct' /\ NoOrphan'
    BY <1>0, <1>2, <2>2, <2>3a DEF LaneInv, Distinct, NoOrphan
  <2>7. InOrder'
    BY <2>2, <2>3a, <2>3b DEF LaneInv, InOrder
  <2>8. NoIdlePermit'
    <3>1. ASSUME r[2] > 0 PROVE \E i \in DOMAIN parked : parked[i].st # "waits"
      <4>1. PICK i \in DOMAIN parked : parked[i].st # "cancelled"
        BY <1>3, <3>1 DEF Locked
      <4>2. value > 0
        BY <1>1, <3>1, <4>1
      <4> QED BY <4>1, <4>2 DEF LaneInv, NoIdlePermit
    <3>2. \A i \in DOMAIN parked : i \in DOMAIN parked' /\ parked'[i] = parked[i]
      BY <2>3, Basics
    <3> QED BY <2>1, <3>1, <3>2 DEF NoIdlePermit
  <2> QED BY <2>1, <2>5, <2>6, <2>7, <2>8 DEF LaneInv
<1>4. CASE ~Locked(r[1], r[2], parked)
  <2>1. /\ value' = r[2] - 1 /\ active' = active + 1 /\ holding' = holding \cup {t}
        /\ UNCHANGED <<parked, queued>>
    BY <1>4 DEF Acquire
  <2>2. r[2] # 0 /\ \A i \in DOMAIN parked : parked[i].st = "cancelled"
    BY <1>2, <1>4 DEF Locked
  <2> HIDE DEF r
  <2>3. value' \in Nat
    BY <1>1, <2>1, <2>2
  <2>4. IsFiniteSet(holding') /\ active' = Cardinality(holding')
    BY <1>0, <2>1, HoldingChanges DEF LaneInv, LaneTypeOK
  <2>5. Parked' \cap holding' = {}
    BY <1>0, <2>1, Basics DEF Parked
  <2>6. LaneTypeOK'
    BY <1>0, <1>1, <2>1, <2>3, <2>4, <2>5 DEF LaneInv, LaneTypeOK
  <2>7. Distinct' /\ NoOrphan' /\ InOrder' /\ NoIdlePermit'
    BY <1>0, <1>2, <2>1, <2>2 DEF LaneInv, Distinct, NoOrphan, InOrder, NoIdlePermit
  <2> QED BY <2>1, <2>2, <2>4, <2>6, <2>7 DEF LaneInv
<1> QED BY <1>3, <1>4

LEMMA ResumeKeeps ==
  ASSUME LaneInv, NEW i \in DOMAIN parked, Resume(i)
  PROVE  /\ LaneInv'
         /\ holding' # holding => /\ holding' = holding \cup {parked[i].task}
                                  /\ \A k \in DOMAIN parked : parked[k].st = "waits" => i < k
<1> DEFINE f    == parked[i]
           rest == Without(parked, i)
           free == value + HandBack(f.st)
           At(j) == IF j < i THEN j ELSE j + 1
<1>0. /\ i \in 1 .. Len(parked) /\ Len(parked) \in Nat /\ DOMAIN parked = 1 .. Len(parked)
      /\ value \in Nat /\ sem \in Nat /\ f.sem = sem /\ queued = Len(parked)
      /\ f.task \in Task /\ f.task \notin holding /\ parked \in Seq(Future)
  BY Basics
<1>1. free \in Nat
  BY <1>0 DEF HandBack
<1>2. /\ f.st # "waits" /\ queued' = queued - 1
      /\ parked' = Wake(sem, rest, free)
      /\ value' = free - Woke(sem, rest, free)
      /\ IF f.st = "woken" THEN active' = active + 1 /\ holding' = holding \cup {f.task}
                           ELSE UNCHANGED <<active, holding>>
      /\ UNCHANGED <<max, pending, sem, draining, resizes>>
  BY <1>0 DEF Resume
<1>3. /\ rest \in Seq(Future) /\ Len(rest) = Len(parked) - 1
      /\ DOMAIN rest = 1 .. Len(parked) - 1
      /\ \A j \in DOMAIN rest : rest[j] = IF j < i THEN parked[j] ELSE parked[j + 1]
  BY <1>0, WithoutShape
<1> HIDE DEF rest, free, f
<1>4. /\ \A j \in DOMAIN rest : At(j) \in DOMAIN parked /\ At(j) # i /\ rest[j] = parked[At(j)]
      /\ \A j, k \in DOMAIN rest : j < k => At(j) < At(k)
      /\ \A j, k \in DOMAIN rest : At(j) = At(k) => j = k
  BY <1>0, <1>3
<1> HIDE DEF At
<1>5. /\ \A j \in DOMAIN rest : rest[j].sem = sem /\ rest[j].task # f.task
                                /\ rest[j].task \notin holding
      /\ \A j, k \in DOMAIN rest : j < k /\ rest[j].st = "waits" => rest[k].st # "woken"
      /\ \A j, k \in DOMAIN rest : rest[j].task = rest[k].task => j = k
  <2>1. ASSUME NEW j \in DOMAIN rest
        PROVE  rest[j].sem = sem /\ rest[j].task # f.task /\ rest[j].task \notin holding
    BY <1>4, Basics DEF LaneInv, Distinct, f
  <2>2. ASSUME NEW j \in DOMAIN rest, NEW k \in DOMAIN rest, j < k, rest[j].st = "waits"
        PROVE  rest[k].st # "woken"
    <3>1. At(j) \in DOMAIN parked /\ At(k) \in DOMAIN parked /\ At(j) < At(k)
      BY <1>4, <2>2
    <3>2. rest[j] = parked[At(j)] /\ rest[k] = parked[At(k)]
      BY <1>4
    <3> QED BY <2>2, <3>1, <3>2 DEF LaneInv, InOrder
  <2>3. ASSUME NEW j \in DOMAIN rest, NEW k \in DOMAIN rest, rest[j].task = rest[k].task
        PROVE  j = k
    <3>1. At(j) \in DOMAIN parked /\ At(k) \in DOMAIN parked
      BY <1>4
    <3>2. rest[j] = parked[At(j)] /\ rest[k] = parked[At(k)]
      BY <1>4
    <3>3. At(j) = At(k)
      BY <2>3, <3>1, <3>2 DEF LaneInv, Distinct
    <3> QED BY <1>4, <3>3
  <2> QED BY <2>1, <2>2, <2>3
<1>6. /\ parked' \in Seq(Future) /\ Len(parked') = Len(rest) /\ DOMAIN parked' = DOMAIN rest
      /\ \A j \in DOMAIN rest : parked'[j].sem = sem /\ parked'[j].task = rest[j].task
      /\ Distinct' /\ InOrder'
      /\ Woke(sem, rest, free) \in 0 .. free
      /\ free # Woke(sem, rest, free) => \A j \in DOMAIN rest : parked'[j].st # "waits"
  BY <1>1, <1>2, <1>3, <1>5, QueueKept
<1>7. value' \in Nat /\ (value' > 0 => free # Woke(sem, rest, free))
  BY <1>1, <1>2, <1>6
<1>8. IsFiniteSet(holding') /\ active' = Cardinality(holding')
  BY <1>0, <1>2, HoldingChanges DEF LaneInv, LaneTypeOK
<1>9. holding' \cap Parked' = {} /\ holding' \subseteq Task
  <2>1. \A j \in DOMAIN parked' : parked'[j].task \notin holding /\ parked'[j].task # f.task
    BY <1>5, <1>6
  <2>2. holding' \subseteq holding \cup {f.task} /\ holding \subseteq Task
    BY <1>2 DEF LaneInv, LaneTypeOK
  <2> QED BY <1>0, <2>1, <2>2 DEF Parked
<1>10. LaneTypeOK'
  <2>1. queued' = Len(parked')
    BY <1>0, <1>2, <1>3, <1>6
  <2>2. LaneTypeOK
    BY DEF LaneInv
  <2> QED BY <1>2, <1>6, <1>7, <1>8, <1>9, <2>1, <2>2 DEF LaneTypeOK
<1>11. NoOrphan' /\ NoIdlePermit'
  BY <1>2, <1>6, <1>7 DEF NoOrphan, NoIdlePermit
<1>12. ASSUME holding' # holding, NEW k \in DOMAIN parked, parked[k].st = "waits"
       PROVE  i < k
  BY <1>0, <1>2, <1>12 DEF LaneInv, InOrder, f
<1> QED BY <1>2, <1>6, <1>8, <1>10, <1>11, <1>12 DEF LaneInv, f

LEMMA CancelKeeps ==
  ASSUME LaneInv, NEW i \in DOMAIN parked, Cancel(i)
  PROVE  LaneInv'
<1>1. UNCHANGED <<max, active, queued, pending, sem, value, holding, draining, resizes>>
  BY DEF Cancel
<1>2. /\ parked \in Seq(Future) /\ Len(parked) \in Nat /\ DOMAIN parked = 1 .. Len(parked)
      /\ \A j \in DOMAIN parked : parked[j] \in Future
  BY Basics
<1>3. parked' \in Seq(Future) /\ Len(parked') = Len(parked) /\ DOMAIN parked' = DOMAIN parked
  <2>1. [parked[i] EXCEPT !.st = "cancelled"] \in Future
        /\ [parked[i] EXCEPT !.st = "revoked"] \in Future
    BY <1>2 DEF Future
  <2>2. \/ parked' = [parked EXCEPT ![i] = [parked[i] EXCEPT !.st = "cancelled"]]
        \/ parked' = [parked EXCEPT ![i] = [parked[i] EXCEPT !.st = "revoked"]]
    BY <1>2 DEF Cancel
  <2> QED BY <1>2, <2>1, <2>2
<1>4. \A j \in DOMAIN parked :
        /\ parked'[j].task = parked[j].task /\ parked'[j].sem = parked[j].sem
        /\ j # i => parked'[j] = parked[j]
        /\ parked'[j].st \notin {"waits", "woken"} \/ parked'[j].st = parked[j].st
  BY <1>2 DEF Cancel, Future
<1>5. parked'[i].st # "waits"
  BY <1>2 DEF Cancel, Future
<1>6. Parked' = Parked
  BY <1>3, <1>4 DEF Parked
<1>7. LaneTypeOK'
  BY <1>1, <1>3, <1>6 DEF LaneInv, LaneTypeOK
<1>8. Distinct' /\ NoOrphan' /\ InOrder'
  BY <1>1, <1>3, <1>4 DEF LaneInv, Distinct, NoOrphan, InOrder
<1>9. NoIdlePermit'
  BY <1>3, <1>5 DEF NoIdlePermit
<1> QED BY <1>1, <1>7, <1>8, <1>9 DEF LaneInv

LEMMA ReleaseKeeps ==
  ASSUME LaneInv, NEW t \in Task, Release(t)
  PROVE  LaneInv' /\ holding' \subseteq holding
<1> DEFINE v == value + 1 - Woke(sem, parked, 1)
           r == Rebound(queued, active', sem, v)
<1>0. /\ parked \in Seq(Future) /\ sem \in Nat /\ value \in Nat /\ Len(parked) \in Nat
      /\ max \in Nat \ {0} /\ active \in Nat /\ queued = Len(parked) /\ 1 \in Nat
      /\ \A i \in DOMAIN parked : parked[i].sem = sem /\ parked[i].task \notin holding
  BY Basics
<1>1. /\ t \in holding /\ holding' = holding \ {t} /\ active' = active - 1
      /\ parked' = Wake(sem, parked, 1)
      /\ sem' = r[1] /\ value' = r[2] /\ pending' = r[3]
      /\ UNCHANGED <<max, queued, draining, resizes>>
  BY DEF Release
<1>2. /\ parked' \in Seq(Future) /\ Len(parked') = Len(parked)
      /\ DOMAIN parked' = DOMAIN parked
      /\ \A i \in DOMAIN parked : parked'[i].sem = sem /\ parked'[i].task = parked[i].task
      /\ Distinct' /\ InOrder'
      /\ \A i \in DOMAIN parked : parked'[i].st = "waits" => parked[i].st = "waits"
      /\ Woke(sem, parked, 1) \in 0 .. 1
      /\ 1 # Woke(sem, parked, 1) => \A i \in DOMAIN parked : parked'[i].st # "waits"
  BY <1>0, <1>1, QueueKept DEF LaneInv, Distinct, InOrder
<1>3. IsFiniteSet(holding') /\ active' = Cardinality(holding') /\ active' \in Nat
  BY <1>1, HoldingChanges, FS_CardinalityType DEF LaneInv, LaneTypeOK
<1>4. v \in Nat /\ (Woke(sem, parked, 1) = 1 => v = value)
  BY <1>0, <1>2
<1> HIDE DEF v
<1>5. /\ r[1] \in Nat /\ r[2] \in Nat /\ r[3] \in BOOLEAN
      /\ (r[1] = sem /\ r[2] = v) \/ parked' = <<>>
  <2>1. CASE pending /\ queued = 0
    <3>1. r = <<sem + 1, Permits(max, active'), FALSE>>
      BY <2>1 DEF Rebound
    <3>2. r[1] = sem + 1 /\ r[2] = Permits(max, active') /\ r[3] = FALSE
      BY <3>1
    <3>3. parked' = <<>>
      BY <1>0, <1>2, <2>1
    <3>4. Permits(max, active') \in Nat /\ sem + 1 \in Nat
      BY <1>0, <1>3 DEF Permits
    <3> HIDE DEF r
    <3> QED BY <3>2, <3>3, <3>4
  <2>2. CASE ~(pending /\ queued = 0)
    <3>1. r = <<sem, v, pending>>
      BY <2>2 DEF Rebound
    <3>2. r[1] = sem /\ r[2] = v /\ r[3] = pending
      BY <3>1
    <3>3. pending \in BOOLEAN
      BY DEF LaneInv, LaneTypeOK
    <3> HIDE DEF r
    <3> QED BY <1>0, <1>4, <3>2, <3>3
  <2> QED BY <2>1, <2>2
<1> HIDE DEF r
<1>6. holding' \cap Parked' = {}
  BY <1>0, <1>1, <1>2 DEF Parked
<1>7. LaneTypeOK'
  BY <1>0, <1>1, <1>2, <1>3, <1>5, <1>6 DEF LaneInv, LaneTypeOK
<1>8. NoOrphan'
  BY <1>1, <1>2, <1>5 DEF NoOrphan
<1>9. NoIdlePermit'
  <2>1. ASSUME value' > 0, NEW i \in DOMAIN parked', parked'[i].st = "waits"
        PROVE  \E j \in DOMAIN parked' : parked'[j].st # "waits"
    <3>1. Woke(sem, parked, 1) = 1 /\ parked[i].st = "waits" /\ i \in DOMAIN parked
      BY <1>2, <2>1
    <3>2. value > 0
      BY <1>1, <1>4, <1>5, <2>1, <3>1
    <3>3. PICK j \in DOMAIN parked : parked[j].st # "waits"
      BY <3>1, <3>2 DEF LaneInv, NoIdlePermit
    <3> QED BY <1>2, <3>3
  <2> QED BY <2>1 DEF NoIdlePermit
<1> QED BY <1>1, <1>2, <1>3, <1>7, <1>8, <1>9 DEF LaneInv

LEMMA SetMaxKeeps ==
  ASSUME LaneInv, NEW m \in Limits, SetMax(m)
  PROVE  LaneInv'
<1>0. m \in Nat \ {0}
  BY LaneAssumption
<1>1. UNCHANGED <<active, queued, parked, holding, draining>> /\ max' = m
      /\ resizes' \in 0 .. MaxResize
  BY LaneAssumption DEF SetMax, LaneInv, LaneTypeOK
<1>2. Parked' = Parked
  BY <1>1 DEF Parked
<1>3. CASE queued > 0
  <2>1. pending' = TRUE /\ UNCHANGED sem_vars
    BY <1>3 DEF SetMax
  <2> QED BY <1>0, <1>1, <1>2, <2>1
          DEF LaneInv, LaneTypeOK, Distinct, NoOrphan, InOrder, NoIdlePermit, sem_vars
<1>4. CASE ~(queued > 0)
  <2>1. sem' = sem + 1 /\ value' = Permits(m, active) /\ UNCHANGED pending
    BY <1>4 DEF SetMax
  <2>2. DOMAIN parked = {}
    BY <1>4, Basics
  <2>3. sem' \in Nat /\ value' \in Nat
    BY <1>0, <2>1, Basics
  <2>4. LaneTypeOK'
    BY <1>0, <1>1, <1>2, <2>1, <2>3 DEF LaneInv, LaneTypeOK
  <2> QED BY <1>1, <2>2, <2>4 DEF LaneInv, Distinct, NoOrphan, InOrder, NoIdlePermit
<1> QED BY <1>3, <1>4

LEMMA StandingKeeps ==
  ASSUME LaneInv, Drain \/ UNCHANGED vars
  PROVE  LaneInv' /\ holding' = holding
<1>1. /\ UNCHANGED <<max, active, queued, pending, sem, value, parked, holding, resizes>>
      /\ draining' \in BOOLEAN
  BY DEF Drain, vars, sem_vars, LaneInv, LaneTypeOK
<1> QED BY <1>1 DEF LaneInv, LaneTypeOK, Distinct, NoOrphan, InOrder, NoIdlePermit, Parked

LEMMA LaneInit == Init => LaneInv
<1> SUFFICES ASSUME Init PROVE LaneInv
  OBVIOUS
<1>1. /\ parked = <<>> /\ holding = {} /\ DOMAIN parked = {} /\ Len(parked) = 0
      /\ parked \in Seq(Future)
  BY DEF Init
<1>2. IsFiniteSet(holding) /\ active = Cardinality(holding)
  BY <1>1, FS_EmptySet DEF Init
<1>3. LaneTypeOK
  <2>1. /\ max \in Nat \ {0} /\ sem \in Nat /\ value \in Nat
        /\ resizes \in 0 .. MaxResize /\ queued = Len(parked)
    BY <1>1, LaneAssumption DEF Init
  <2>3. pending \in BOOLEAN /\ draining \in BOOLEAN
    BY DEF Init
  <2>2. holding \subseteq Task /\ holding \cap Parked = {}
    BY <1>1
  <2> QED BY <1>1, <1>2, <2>1, <2>2, <2>3 DEF LaneTypeOK
<1> QED BY <1>1, <1>2, <1>3 DEF LaneInv, Distinct, NoOrphan, InOrder, NoIdlePermit

LEMMA LaneStep == LaneInv /\ [Next]_vars => LaneInv'
<1> SUFFICES ASSUME LaneInv, [Next]_vars PROVE LaneInv'
  OBVIOUS
<1>1. ASSUME NEW t \in Task, Acquire(t) PROVE LaneInv'
  BY <1>1, AcquireKeeps
<1>2. ASSUME NEW t \in Task, Release(t) PROVE LaneInv'
  BY <1>2, ReleaseKeeps
<1>3. ASSUME NEW i \in DOMAIN parked, Resume(i) PROVE LaneInv'
  BY <1>3, ResumeKeeps
<1>4. ASSUME NEW i \in DOMAIN parked, Cancel(i) PROVE LaneInv'
  BY <1>4, CancelKeeps
<1>5. ASSUME NEW m \in Limits, SetMax(m) PROVE LaneInv'
  BY <1>5, SetMaxKeeps
<1>6. ASSUME Drain \/ UNCHANGED vars PROVE LaneInv'
  BY <1>6, StandingKeeps
<1> QED BY <1>1, <1>2, <1>3, <1>4, <1>5, <1>6 DEF Next

---------------------------------------------------------------------------
(* What holds of every lane *)

\* The inductive invariant of a lane.
THEOREM LaneInvariant == Spec => []LaneInv
BY LaneInit, LaneStep, PTL DEF Spec

\* The counters of lane_slot count the holders and the waiters, on whatever
\* path a slot is taken, left or given up.
THEOREM LaneTypeCorrect == Spec => []LaneTypeOK
<1>1. LaneInv => LaneTypeOK
  BY DEF LaneInv
<1> QED BY <1>1, LaneInvariant, PTL

\* set_max and _apply_pending_rebind never swap the semaphore under a task
\* that waits on it.
THEOREM NobodyOrphaned == Spec => []NoOrphan
<1>1. LaneInv => NoOrphan
  BY DEF LaneInv
<1> QED BY <1>1, LaneInvariant, PTL

\* No wake-up is lost: a free permit beside a waiting task means that some
\* task is about to run on and pass it on.
THEOREM WakeUpsKept == Spec => []NoIdlePermit
<1>1. LaneInv => NoIdlePermit
  BY DEF LaneInv
<1> QED BY <1>1, LaneInvariant, PTL

\* lane_slot hands out slots in the order of arrival, whatever is cancelled or
\* resized in between.
THEOREM SlotsInOrder == Spec => Fifo
<1> DEFINE Turn == \A t \in holding' \ holding : \A i \in DOMAIN parked :
                     parked[i].st = "waits" =>
                       \E j \in DOMAIN parked : j < i /\ parked[j].task = t
<1>1. ASSUME LaneInv, [Next]_vars PROVE Turn
  <2>1. ASSUME NEW t \in Task, Acquire(t) PROVE Turn
    BY <1>1, <2>1, AcquireKeeps
  <2>2. ASSUME NEW t \in Task, Release(t) PROVE Turn
    BY <1>1, <2>2, ReleaseKeeps
  <2>3. ASSUME NEW i \in DOMAIN parked, Resume(i) PROVE Turn
    BY <1>1, <2>3, ResumeKeeps
  <2>4. ASSUME NEW i \in DOMAIN parked, Cancel(i) PROVE Turn
    BY <2>4 DEF Cancel
  <2>5. ASSUME NEW m \in Limits, SetMax(m) PROVE Turn
    BY <2>5 DEF SetMax
  <2>6. ASSUME Drain \/ UNCHANGED vars PROVE Turn
    BY <1>1, <2>6, StandingKeeps
  <2> QED BY <1>1, <2>1, <2>2, <2>3, <2>4, <2>5, <2>6 DEF Next
<1>2. LaneInv /\ [Next]_vars => [Turn]_vars
  BY <1>1
<1> QED BY <1>2, LaneInvariant, PTL DEF Spec, Fifo

---------------------------------------------------------------------------
(* Counting permits *)

\* Of a finite set of numbers, as many are among the n first as there can be.
LEMMA FirstOnes ==
  ASSUME NEW U \in SUBSET Nat, IsFiniteSet(U), NEW n \in Nat
  PROVE  LET F == {i \in U : Cardinality({j \in U : j <= i}) <= n}
         IN  IsFiniteSet(F) /\ Cardinality(F) = Least(n, Cardinality(U))
<1> DEFINE UpTo(i) == {j \in U : j <= i}
           c    == Cardinality(U)
           m    == Least(n, c)
           rank == [i \in U |-> Cardinality(UpTo(i))]
           F    == {i \in U : rank[i] <= n}
           g    == [i \in F |-> rank[i]]
<1>0. c \in Nat /\ m \in Nat /\ m <= c /\ m <= n /\ (m = n \/ m = c)
  BY FS_CardinalityType DEF Least
<1>1. \A i \in U : /\ UpTo(i) \subseteq U /\ IsFiniteSet(UpTo(i)) /\ i \in UpTo(i)
                   /\ Cardinality(UpTo(i)) \in Nat
  BY FS_Subset, FS_CardinalityType
<1>2. \A i \in U : rank[i] \in 1 .. c
  <2>1. ASSUME NEW i \in U PROVE Cardinality(UpTo(i)) <= c /\ Cardinality(UpTo(i)) # 0
    <3>1. Cardinality(UpTo(i)) <= c
      BY <1>1, FS_Subset
    <3>2. Cardinality(UpTo(i)) # 0
      BY <1>1, FS_EmptySet
    <3> QED BY <3>1, <3>2
  <2> QED BY <1>0, <1>1, <2>1
<1>3. \A i, k \in U : i < k => rank[i] # rank[k]
  <2> SUFFICES ASSUME NEW i \in U, NEW k \in U, i < k PROVE rank[i] # rank[k]
    OBVIOUS
  <2>1. UpTo(i) \subseteq UpTo(k) /\ k \notin UpTo(i) /\ k \in UpTo(k)
    <3>1. \A j \in U : j \in Nat
      OBVIOUS
    <3>2. \A j \in U : j <= i => j <= k
      BY <3>1
    <3>3. ~(k <= i)
      BY <3>1
    <3> QED BY <1>1, <3>2, <3>3
  <2>2. Cardinality(UpTo(k)) # Cardinality(UpTo(i))
    BY <1>1, <2>1, FS_Subset
  <2> QED BY <2>2
<1>4. rank \in [U -> 1 .. c]
  BY <1>2
<1> HIDE DEF rank
<1>5. \A i, k \in U : rank[i] = rank[k] => i = k
  BY <1>3
<1>6. rank \in Surjection(U, 1 .. c)
  <2>1. rank \in Injection(U, 1 .. c)
    BY <1>4, <1>5 DEF Injection, IsInjective
  <2>2. IsFiniteSet(1 .. c) /\ Cardinality(1 .. c) = c
    BY <1>0, FS_Interval
  <2> QED BY <2>1, <2>2, FS_Injection
<1>7. g \in Injection(F, 1 .. m)
  <2>1. \A i \in F : i \in U /\ rank[i] \in 1 .. m
    BY <1>0, <1>4
  <2> QED BY <1>5, <2>1 DEF Injection, IsInjective
<1>8. g \in Surjection(F, 1 .. m)
  <2>1. ASSUME NEW r \in 1 .. m PROVE \E i \in F : g[i] = r
    <3>1. PICK i \in U : rank[i] = r
      BY <1>0, <1>6 DEF Surjection
    <3> QED BY <1>0, <3>1
  <2> QED BY <1>7, <2>1 DEF Injection, Surjection
<1>9. IsFiniteSet(1 .. m) /\ Cardinality(1 .. m) = m
  BY <1>0, FS_Interval
<1>10. IsFiniteSet(F) /\ Cardinality(F) = m
  <2> HIDE DEF F, g, m
  <2> QED BY <1>7, <1>8, <1>9, FS_Injection
<1> QED BY <1>10 DEF rank

LEMMA WokenCount ==
  ASSUME NEW q \in Seq(Future), NEW s, NEW n \in Nat
  PROVE  IsFiniteSet(Woken(s, q, n)) /\ Cardinality(Woken(s, q, n)) = Woke(s, q, n)
<1>1. Unresolved(s, q) \in SUBSET Nat /\ IsFiniteSet(Unresolved(s, q))
  BY WokenWait
<1> QED BY <1>1, FirstOnes DEF Woken, Woke

\* The futures of a queue that hold a permit.
Given(q) == {i \in DOMAIN q : q[i].st \in {"woken", "revoked"}}

LEMMA GivenCount ==
  ASSUME NEW q \in Seq(Future)
  PROVE  IsFiniteSet(Given(q)) /\ Cardinality(Given(q)) \in Nat
<1>1. Given(q) \subseteq 1 .. Len(q) /\ IsFiniteSet(1 .. Len(q))
  BY FS_Interval DEF Given
<1> QED BY <1>1, FS_Subset, FS_CardinalityType

LEMMA WakeGives ==
  ASSUME NEW q \in Seq(Future), NEW s \in Nat, NEW n \in Nat
  PROVE  Cardinality(Given(Wake(s, q, n))) = Cardinality(Given(q)) + Woke(s, q, n)
<1>1. \A i \in Woken(s, q, n) : i \in 1 .. Len(q) /\ q[i].st = "waits"
  BY WokenWait
<1>2. /\ DOMAIN Wake(s, q, n) = 1 .. Len(q) /\ DOMAIN q = 1 .. Len(q)
      /\ \A i \in 1 .. Len(q) :
           Wake(s, q, n)[i].st = IF i \in Woken(s, q, n) THEN "woken" ELSE q[i].st
  <2>1. DOMAIN q = 1 .. Len(q)
    OBVIOUS
  <2>2. DOMAIN Wake(s, q, n) = 1 .. Len(q)
    BY WakeShape, Zenon
  <2>3. \A i \in 1 .. Len(q) :
          Wake(s, q, n)[i].st = IF i \in Woken(s, q, n) THEN "woken" ELSE q[i].st
    BY WakeShape, Zenon
  <2> QED BY <2>1, <2>2, <2>3, Zenon
<1>3. Given(Wake(s, q, n)) = Given(q) \cup Woken(s, q, n)
  BY <1>1, <1>2 DEF Given
<1>4. Given(q) \cap Woken(s, q, n) = {}
  BY <1>1 DEF Given
<1>5. /\ IsFiniteSet(Woken(s, q, n)) /\ Cardinality(Woken(s, q, n)) = Woke(s, q, n)
      /\ IsFiniteSet(Given(q)) /\ Cardinality(Given(q)) \in Nat
      /\ Woke(s, q, n) \in Nat /\ Cardinality({}) = 0
  BY WokenCount, GivenCount, FS_CardinalityType, FS_EmptySet
<1>6. Cardinality(Given(q) \cup Woken(s, q, n))
        = Cardinality(Given(q)) + Cardinality(Woken(s, q, n))
            - Cardinality(Given(q) \cap Woken(s, q, n))
  BY <1>5, FS_Union
<1>7. Woke(s, q, n) \in Nat
  BY <1>5
<1>8. Cardinality(Given(q) \cap Woken(s, q, n)) = 0
  BY <1>4, FS_EmptySet
<1> QED BY <1>3, <1>5, <1>6, <1>7, <1>8

LEMMA WithoutGives ==
  ASSUME NEW q \in Seq(Future), NEW i \in DOMAIN q
  PROVE  Cardinality(Given(Without(q, i)))
           = IF i \in Given(q) THEN Cardinality(Given(q)) - 1 ELSE Cardinality(Given(q))
<1> DEFINE rest == Without(q, i)
           At(j) == IF j < i THEN j ELSE j + 1
           f == [j \in Given(rest) |-> At(j)]
<1>0. i \in 1 .. Len(q) /\ Len(q) \in Nat /\ DOMAIN q = 1 .. Len(q)
  OBVIOUS
<1>1. /\ DOMAIN rest = 1 .. Len(q) - 1
      /\ \A j \in DOMAIN rest : rest[j] = IF j < i THEN q[j] ELSE q[j + 1]
  BY WithoutShape
<1> HIDE DEF rest
<1>2. \A j \in Given(rest) : At(j) \in Given(q) \ {i}
  BY <1>0, <1>1 DEF Given
<1>3. \A j, k \in Given(rest) : At(j) = At(k) => j = k
  BY <1>0, <1>1 DEF Given
<1>4. \A k \in Given(q) \ {i} : \E j \in Given(rest) : At(j) = k
  <2> SUFFICES ASSUME NEW k \in Given(q) \ {i} PROVE \E j \in Given(rest) : At(j) = k
    OBVIOUS
  <2>1. CASE k < i
    <3>1. k \in Given(rest) /\ At(k) = k
      BY <1>0, <1>1, <2>1 DEF Given
    <3> QED BY <3>1
  <2>2. CASE ~(k < i)
    <3>1. k - 1 \in Given(rest) /\ At(k - 1) = k
      BY <1>0, <1>1, <2>2 DEF Given
    <3> QED BY <3>1
  <2> QED BY <2>1, <2>2
<1> HIDE DEF At
<1>5. f \in Injection(Given(rest), Given(q) \ {i}) /\ f \in Surjection(Given(rest), Given(q) \ {i})
  BY <1>2, <1>3, <1>4 DEF Injection, IsInjective, Surjection
<1>6. /\ IsFiniteSet(Given(q) \ {i})
      /\ Cardinality(Given(q) \ {i})
           = IF i \in Given(q) THEN Cardinality(Given(q)) - 1 ELSE Cardinality(Given(q))
  BY GivenCount, FS_RemoveElement
<1> HIDE DEF f
<1> QED BY <1>5, <1>6, FS_Injection DEF rest

\* What the permits add up to while the limit has only been raised: the limit,
\* or the first one as long as the new semaphore is still to be made.
StartLimit == resizes = 0 => max = Max0 /\ ~pending
Supply     == LimitOnlyRaised => active + GivenOut + value = IF pending THEN Max0 ELSE max
SupplyInv  == LaneInv /\ StartLimit /\ Supply

LEMMA SupplyFacts ==
  ASSUME SupplyInv
  PROVE  /\ active \in Nat /\ GivenOut \in Nat /\ value \in Nat
         /\ max \in Nat /\ Max0 \in Nat /\ resizes \in Nat /\ pending \in BOOLEAN
         /\ GivenOut = Cardinality(Given(parked))
         /\ LimitOnlyRaised => /\ Max0 <= max /\ active <= max
                               /\ active + GivenOut + value = IF pending THEN Max0 ELSE max
         /\ LimitOnlyRaised /\ pending => Max0 < max /\ active <= Max0
         /\ queued = 0 => GivenOut = 0 /\ parked = <<>>
<1>1. LaneInv /\ StartLimit /\ Supply
  BY DEF SupplyInv
<1>2. /\ active \in Nat /\ value \in Nat /\ max \in Nat /\ resizes \in Nat
      /\ parked \in Seq(Future) /\ queued = Len(parked)
  BY <1>1, Basics
<1>3. Max0 \in Nat /\ pending \in BOOLEAN
  BY <1>1, LaneAssumption DEF LaneInv, LaneTypeOK
<1>4. GivenOut = Cardinality(Given(parked)) /\ GivenOut \in Nat
  BY <1>2, GivenCount DEF GivenOut, Given
<1>5. ASSUME queued = 0 PROVE GivenOut = 0 /\ parked = <<>>
  <2>1. parked = <<>>
    <3>1. parked \in Seq(Future) /\ Len(parked) = 0
      BY <1>2, <1>5
    <3> QED BY <3>1, EmptySeq
  <2>2. Given(parked) = {}
    BY <2>1 DEF Given
  <2> QED BY <1>4, <2>1, <2>2, FS_EmptySet
<1>6. LimitOnlyRaised => Max0 <= max
  BY <1>1, <1>2, <1>3 DEF LimitOnlyRaised, StartLimit
<1>7. LimitOnlyRaised /\ pending => Max0 < max
  BY <1>1, <1>2, <1>3 DEF LimitOnlyRaised, StartLimit
<1> QED BY <1>1, <1>2, <1>3, <1>4, <1>5, <1>6, <1>7 DEF Supply

LEMMA SupplyFrom ==
  ASSUME SupplyInv, LaneInv', UNCHANGED <<max, resizes>>, pending' => pending,
         LimitOnlyRaised => active' + GivenOut' + value' = IF pending' THEN Max0 ELSE max
  PROVE  SupplyInv'
BY DEF SupplyInv, StartLimit, Supply, LimitOnlyRaised

LEMMA AcquireSupplies ==
  ASSUME SupplyInv, NEW t \in Task, Acquire(t)
  PROVE  SupplyInv' /\ UNCHANGED <<max, resizes>>
<1> DEFINE r == Rebound(queued, active, sem, value)
<1>1. LaneInv' /\ LaneInv /\ UNCHANGED <<max, resizes>> /\ pending' = r[3]
  BY AcquireKeeps DEF SupplyInv, Acquire
<1>2. \/ r[2] = value /\ r[3] = pending
      \/ pending /\ queued = 0 /\ r[2] = Permits(max, active) /\ r[3] = FALSE
  BY DEF Rebound
<1> HIDE DEF r
<1>3. LimitOnlyRaised => active + GivenOut + r[2] = IF r[3] THEN Max0 ELSE max
  BY <1>2, SupplyFacts DEF Permits
<1>4. r[2] \in Nat
  BY <1>1, <1>2, SupplyFacts DEF Permits
<1>5. CASE Locked(r[1], r[2], parked)
  <2> DEFINE f == [task |-> t, sem |-> r[1], st |-> "waits"]
  <2>1. parked' = Append(parked, f) /\ value' = r[2] /\ active' = active
    BY <1>5 DEF Acquire, r
  <2>2. parked \in Seq(Future) /\ f.st = "waits"
    BY <1>1, Basics
  <2> HIDE DEF f
  <2>3. GivenOut' = GivenOut
    <3>1. /\ DOMAIN parked' = 1 .. Len(parked) + 1 /\ DOMAIN parked = 1 .. Len(parked)
          /\ \A i \in 1 .. Len(parked) : parked'[i] = parked[i]
          /\ parked'[Len(parked) + 1] = f /\ Len(parked) \in Nat
      BY <2>1, <2>2
    <3>2. {i \in DOMAIN parked' : parked'[i].st \in {"woken", "revoked"}}
            = {i \in DOMAIN parked : parked[i].st \in {"woken", "revoked"}}
      BY <2>2, <3>1
    <3> QED BY <3>2 DEF GivenOut
  <2>4. LimitOnlyRaised => active' + GivenOut' + value' = IF pending' THEN Max0 ELSE max
    BY <1>1, <1>3, <2>1, <2>3
  <2> QED BY <1>1, <1>2, <2>4, SupplyFrom
<1>6. CASE ~Locked(r[1], r[2], parked)
  <2>1. value' = r[2] - 1 /\ active' = active + 1 /\ parked' = parked
    BY <1>6 DEF Acquire, r
  <2>2. GivenOut' = GivenOut
    BY <2>1 DEF GivenOut
  <2>3. LimitOnlyRaised => active' + GivenOut' + value' = IF pending' THEN Max0 ELSE max
    BY <1>1, <1>3, <1>4, <2>1, <2>2, SupplyFacts
  <2> QED BY <1>1, <1>2, <2>3, SupplyFrom
<1> QED BY <1>1, <1>5, <1>6

LEMMA ResumeSupplies ==
  ASSUME SupplyInv, NEW i \in DOMAIN parked, Resume(i)
  PROVE  SupplyInv' /\ UNCHANGED <<max, resizes>>
<1> DEFINE rest == Without(parked, i)
           free == value + HandBack(parked[i].st)
<1>1. LaneInv /\ LaneInv' /\ UNCHANGED <<max, resizes, pending>>
  BY ResumeKeeps DEF SupplyInv, Resume
<1>2. /\ parked \in Seq(Future) /\ sem \in Nat /\ parked[i].sem = sem
      /\ parked[i].st \in States
  BY <1>1, Basics
<1>3. /\ parked[i].st # "waits"
      /\ parked' = Wake(sem, rest, free) /\ value' = free - Woke(sem, rest, free)
      /\ active' = IF parked[i].st = "woken" THEN active + 1 ELSE active
  BY <1>2 DEF Resume
<1>4. rest \in Seq(Future)
  BY <1>2, WithoutShape
<1>5. Cardinality(Given(rest))
        = IF parked[i].st \in {"woken", "revoked"} THEN GivenOut - 1 ELSE GivenOut
  BY <1>2, WithoutGives, SupplyFacts DEF Given
<1>6. free \in Nat /\ free = value + (IF parked[i].st = "revoked" THEN 1 ELSE 0)
  BY SupplyFacts DEF HandBack
<1> HIDE DEF rest, free
<1>7. Woke(sem, rest, free) \in Nat /\ Cardinality(Given(rest)) \in Nat
  BY <1>4, <1>6, WokeAll, GivenCount
<1>8. GivenOut' = Cardinality(Given(rest)) + Woke(sem, rest, free)
  <2>1. GivenOut' = Cardinality(Given(parked'))
    BY DEF GivenOut, Given
  <2> QED BY <1>2, <1>3, <1>4, <1>6, <2>1, WakeGives
<1>9. active' + GivenOut' + value' = active + GivenOut + value
  <2>0. /\ value' = free - Woke(sem, rest, free)
        /\ active \in Nat /\ value \in Nat /\ GivenOut \in Nat
    BY <1>3, SupplyFacts
  <2>1. CASE parked[i].st = "woken"
    <3>1. active' = active + 1 /\ free = value
      BY <1>3, <1>6, <2>0, <2>1
    <3>2. Cardinality(Given(rest)) = GivenOut - 1
      BY <1>5, <2>1
    <3> QED BY <1>7, <1>8, <2>0, <3>1, <3>2
  <2>2. CASE parked[i].st = "revoked"
    <3>1. active' = active /\ free = value + 1
      BY <1>3, <1>6, <2>2
    <3>2. Cardinality(Given(rest)) = GivenOut - 1
      BY <1>5, <2>2
    <3> QED BY <1>7, <1>8, <2>0, <3>1, <3>2
  <2>3. CASE parked[i].st = "cancelled"
    <3>1. active' = active /\ free = value
      BY <1>3, <1>6, <2>0, <2>3
    <3>2. Cardinality(Given(rest)) = GivenOut
      BY <1>5, <2>3
    <3> QED BY <1>7, <1>8, <2>0, <3>1, <3>2
  <2> QED BY <1>2, <1>3, <2>1, <2>2, <2>3 DEF States
<1> QED BY <1>1, <1>9, SupplyFacts, SupplyFrom

LEMMA CancelSupplies ==
  ASSUME SupplyInv, NEW i \in DOMAIN parked, Cancel(i)
  PROVE  SupplyInv' /\ active' = active
<1>1. LaneInv /\ LaneInv' /\ UNCHANGED <<max, active, pending, value, resizes>>
  BY CancelKeeps DEF SupplyInv, Cancel
<1>2. \A j \in DOMAIN parked : parked[j] \in Future
  BY <1>1, Basics
<1>3. /\ DOMAIN parked' = DOMAIN parked
      /\ \A j \in DOMAIN parked :
           parked'[j].st \in {"woken", "revoked"} <=> parked[j].st \in {"woken", "revoked"}
  BY <1>2 DEF Cancel, Future
<1>4. GivenOut' = GivenOut
  BY <1>3 DEF GivenOut
<1> QED BY <1>1, <1>4, SupplyFacts, SupplyFrom

LEMMA ReleaseSupplies ==
  ASSUME SupplyInv, NEW t \in Task, Release(t)
  PROVE  SupplyInv' /\ active' <= active
<1> DEFINE v == value + 1 - Woke(sem, parked, 1)
           r == Rebound(queued, active', sem, v)
<1>1. /\ LaneInv /\ LaneInv' /\ UNCHANGED <<max, resizes>>
      /\ active' = active - 1 /\ parked' = Wake(sem, parked, 1)
      /\ value' = r[2] /\ pending' = r[3]
  BY ReleaseKeeps DEF SupplyInv, Release
<1>2. parked \in Seq(Future) /\ sem \in Nat /\ active' \in Nat /\ 1 \in Nat
  BY <1>1, Basics, FS_CardinalityType DEF LaneInv, LaneTypeOK
<1>3. Woke(sem, parked, 1) \in 0 .. 1 /\ Len(parked') = Len(parked)
  BY <1>1, <1>2, WokeAll, WakeShape
<1>4. GivenOut' = GivenOut + Woke(sem, parked, 1)
  <2>1. GivenOut' = Cardinality(Given(parked'))
    BY DEF GivenOut, Given
  <2> QED BY <1>1, <1>2, <2>1, WakeGives, SupplyFacts
<1>5. \/ r[2] = v /\ r[3] = pending
      \/ pending /\ queued = 0 /\ r[2] = Permits(max, active') /\ r[3] = FALSE
  BY DEF Rebound
<1> HIDE DEF r
<1>6. CASE r[2] = v /\ r[3] = pending
  <2>1. active' + GivenOut' + value' = active + GivenOut + value
    BY <1>1, <1>2, <1>3, <1>4, <1>6, SupplyFacts
  <2> QED BY <1>1, <1>6, <2>1, SupplyFacts, SupplyFrom
<1>7. CASE pending /\ queued = 0 /\ r[2] = Permits(max, active') /\ r[3] = FALSE
  <2>1. GivenOut' = 0
    <3>1. Unresolved(sem, parked) = {}
      BY <1>7, SupplyFacts DEF Unresolved
    <3>2. Woke(sem, parked, 1) = 0
      BY <3>1, FS_EmptySet DEF Woke, Least
    <3> QED BY <1>4, <1>7, <3>2, SupplyFacts
  <2>2. LimitOnlyRaised => active' + GivenOut' + value' = max
    BY <1>1, <1>2, <1>7, <2>1, SupplyFacts DEF Permits
  <2> QED BY <1>1, <1>7, <2>2, SupplyFacts, SupplyFrom
<1> QED BY <1>1, <1>5, <1>6, <1>7, SupplyFacts

LEMMA SetMaxSupplies ==
  ASSUME SupplyInv, NEW m \in Limits, SetMax(m)
  PROVE  SupplyInv' /\ active' = active
<1>1. /\ LaneInv /\ LaneInv' /\ resizes' = resizes + 1 /\ max' = m
      /\ UNCHANGED <<active, parked, queued>>
  BY SetMaxKeeps DEF SupplyInv, SetMax
<1>2. m \in Nat \ {0} /\ GivenOut' = GivenOut
  BY <1>1, LaneAssumption DEF GivenOut
<1>3. StartLimit'
  BY <1>1, SupplyFacts DEF StartLimit
<1>4. ASSUME LimitOnlyRaised'
      PROVE  active' + GivenOut' + value' = IF pending' THEN Max0 ELSE max'
  <2>1. resizes = 0 /\ m > Max0 /\ LimitOnlyRaised
    BY <1>1, <1>2, <1>4, SupplyFacts DEF LimitOnlyRaised
  <2>2. ~pending /\ max = Max0
    BY <2>1 DEF SupplyInv, StartLimit
  <2>3. active + GivenOut + value = Max0
    BY <2>1, <2>2, SupplyFacts
  <2>4. CASE queued > 0
    <3>1. pending' = TRUE /\ value' = value
      BY <2>4 DEF SetMax, sem_vars
    <3> QED BY <1>1, <1>2, <2>3, <3>1
  <2>5. CASE ~(queued > 0)
    <3>1. pending' = pending /\ value' = Permits(m, active)
      BY <2>5 DEF SetMax
    <3>2. queued = 0
      BY <1>1, <2>5, Basics
    <3>3. GivenOut = 0
      BY <3>2, SupplyFacts
    <3>4. Permits(m, active) = m - active
      BY <1>2, <2>1, <2>3, SupplyFacts DEF Permits
    <3> QED BY <1>1, <1>2, <2>2, <3>1, <3>3, <3>4, SupplyFacts
  <2> QED BY <2>4, <2>5
<1> QED BY <1>1, <1>3, <1>4 DEF SupplyInv, Supply

LEMMA SupplyInit == Init => SupplyInv
<1> SUFFICES ASSUME Init PROVE SupplyInv
  OBVIOUS
<1>1. LaneInv
  BY LaneInit
<1>2. /\ resizes = 0 /\ max = Max0 /\ pending = FALSE /\ active = 0 /\ value = Max0
      /\ parked = <<>>
  BY DEF Init
<1>3. GivenOut = 0
  <2>1. {i \in DOMAIN parked : parked[i].st \in {"woken", "revoked"}} = {}
    BY <1>2
  <2> QED BY <2>1, FS_EmptySet DEF GivenOut
<1> QED BY <1>1, <1>2, <1>3, LaneAssumption DEF SupplyInv, StartLimit, Supply

\* A step that fills slots changes neither the limit nor the count of changes.
LEMMA SupplyStep ==
  ASSUME SupplyInv, [Next]_vars
  PROVE  SupplyInv' /\ (active' <= active \/ UNCHANGED <<max, resizes>>)
<1>1. ASSUME NEW t \in Task, Acquire(t) PROVE SupplyInv' /\ UNCHANGED <<max, resizes>>
  BY <1>1, AcquireSupplies
<1>2. ASSUME NEW t \in Task, Release(t) PROVE SupplyInv' /\ active' <= active
  BY <1>2, ReleaseSupplies
<1>3. ASSUME NEW i \in DOMAIN parked, Resume(i)
      PROVE  SupplyInv' /\ UNCHANGED <<max, resizes>>
  BY <1>3, ResumeSupplies
<1>4. ASSUME NEW i \in DOMAIN parked, Cancel(i) PROVE SupplyInv' /\ active' <= active
  BY <1>4, CancelSupplies, SupplyFacts
<1>5. ASSUME NEW m \in Limits, SetMax(m) PROVE SupplyInv' /\ active' <= active
  BY <1>5, SetMaxSupplies, SupplyFacts
<1>6. ASSUME Drain \/ UNCHANGED vars PROVE SupplyInv' /\ UNCHANGED <<max, resizes>>
  <2>1. /\ LaneInv' /\ UNCHANGED <<max, active, pending, value, parked, resizes>>
    BY <1>6, StandingKeeps DEF SupplyInv, Drain, vars, sem_vars
  <2>2. GivenOut' = GivenOut
    BY <2>1 DEF GivenOut
  <2> QED BY <2>1, <2>2, SupplyFacts, SupplyFrom
<1> QED BY <1>1, <1>2, <1>3, <1>4, <1>5, <1>6 DEF Next

\* The bookkeeping of permits is invariant over every run of a lane.
THEOREM SupplyInvariant == Spec => []SupplyInv
<1>1. SupplyInv /\ [Next]_vars => SupplyInv'
  BY SupplyStep
<1> QED BY <1>1, SupplyInit, PTL DEF Spec

\* However tasks acquire, are cancelled and leave (lane_slot over
\* asyncio.Semaphore), no permit is lost or issued twice.
THEOREM PermitsAreConserved == Spec => []PermitsConserved
<1>1. SupplyInv => PermitsConserved
  BY SupplyFacts DEF SupplyInv, StartLimit, PermitsConserved, LimitOnlyRaised
<1> QED BY <1>1, SupplyInvariant, PTL

LEMMA PartsBelow ==
  ASSUME NEW a \in Nat, NEW b \in Nat, NEW c \in Nat, NEW n \in Nat, a + b + c <= n
  PROVE  a <= n
OBVIOUS

\* While set_max has only raised the limit, no task enters a lane that is full,
\* whether the new semaphore is made at once or when the queue has emptied.
THEOREM RaisedLimitHolds == Spec => AdmitsWithinLimit
<1> DEFINE Admits == active' > active /\ LimitOnlyRaised => active' <= max
<1>1. ASSUME SupplyInv, [Next]_vars PROVE Admits
  <2> SUFFICES ASSUME active' > active, LimitOnlyRaised PROVE active' <= max
    OBVIOUS
  <2>1. SupplyInv' /\ (active' <= active \/ UNCHANGED <<max, resizes>>)
    BY <1>1, SupplyStep
  <2>2. active \in Nat /\ active' \in Nat
    BY <1>1, <2>1, Basics, FS_CardinalityType DEF SupplyInv, LaneInv, LaneTypeOK
  <2>3. UNCHANGED <<max, resizes>>
    BY <2>1, <2>2
  <2>4. active' + GivenOut' + value' = (IF pending' THEN Max0 ELSE max) /\ Max0 <= max
    BY <1>1, <2>1, <2>3, SupplyFacts DEF SupplyInv, Supply, LimitOnlyRaised
  <2>5. GivenOut' \in Nat /\ value' \in Nat
    <3>1. parked' \in Seq(Future) /\ value' \in Nat
      BY <2>1 DEF SupplyInv, LaneInv, LaneTypeOK
    <3>2. GivenOut' = Cardinality(Given(parked'))
      BY DEF GivenOut, Given
    <3> QED BY <3>1, <3>2, GivenCount
  <2>6. max \in Nat /\ Max0 \in Nat
    BY <1>1, SupplyFacts
  <2>7. active' + GivenOut' + value' <= max
    BY <2>4, <2>6
  <2> HIDE DEF Admits
  <2> QED BY <2>2, <2>5, <2>6, <2>7, PartsBelow
<1>2. SupplyInv /\ [Next]_vars => [Admits]_vars
  BY <1>1
<1> QED BY <1>2, SupplyInvariant, PTL DEF Spec, AdmitsWithinLimit
==============================================================================
