-------------------------- MODULE EffectLog_proofs --------------------------
(***************************************************************************)
(* Proofs about the effect intents, for any keys, any number of workers,   *)
(* enqueues and crashes, and any bound on the attempts.                    *)
(***************************************************************************)
EXTENDS EffectLog, FiniteSetTheorems, TLAPS

Holds(w, k)   == cur[w] # Nothing /\ cur[w].key = k /\ cur[w].generation = row[k].generation
InFlight(k)   == IF row[k].status = "in_flight" THEN 1 ELSE 0

\* Workers that may still claim the row though its attempts are used up by
\* now: their list is older than that.
Lists(w, k) == \E r \in todo[w] : /\ r.key = k /\ r.generation = row[k].generation
                                  /\ r.attempts < MaxAttempts
Late(k)     == {w \in Worker : Lists(w, k)}

\* Workers rest in shadow mode, and no caller shadows while they work; what a
\* caller shadows has been recorded.
Apart ==
  /\ mode = "shadow" => /\ \A w \in Worker : todo[w] = {} /\ cur[w] = Nothing
                        /\ \A k \in Key : shadow[k] # 0 => row[k].status # "in_flight"
  /\ mode = "exec"   => \A k \in Key : shadow[k] = 0
  /\ \A k \in Key : shadow[k] <= row[k].generation

\* Lists and claims are of generations that exist, one row of a key in a list,
\* and a claimed row is no longer in it.
Listed ==
  \A w \in Worker :
    /\ \A r \in todo[w] : /\ r.generation <= row[r.key].generation
                          /\ cur[w] # Nothing => r.key # cur[w].key
    /\ \A r, q \in todo[w] : r.key = q.key => r = q
    /\ cur[w] # Nothing => cur[w].generation <= row[cur[w].key].generation

\* While a worker holds the generation of a row it is in flight; and a row is in
\* flight only then, unless a crash without a replay left it so.
Claimed ==
  \A k \in Key :
    /\ row[k].status = "in_flight" => crashes > 0 \/ \E w \in Worker : Holds(w, k)
    /\ \A w \in Worker : Holds(w, k) => row[k].status = "in_flight"

\* What a handler answered is true.
Answered ==
  \A w \in Worker :
    /\ cur[w] = Nothing => result[w] = "none"
    /\ result[w] = "done" => cur[w].generation \in ok[cur[w].key]

OkExists == \A k \in Key : \A g \in ok[k] : g <= row[k].generation

\* Without a crash, a generation that took place is not for a worker to claim.
NotOpen ==
  crashes = 0 /\ mode = "exec" =>
    \A k \in Key : row[k].generation \in ok[k] =>
      /\ row[k].status # "pending"
      /\ \A w \in Worker : Holds(w, k) => result[w] = "done"

\* Every run of a generation that is not over is an attempt on record, the
\* one in flight, or one that a crash cut off.
Counted ==
  \A k \in Key :
    /\ \A g \in Gen : g > row[k].generation => runs[k][g] = 0
    /\ row[k].status \in {"pending", "in_flight"} =>
         /\ row[k].generation > 0
         /\ runs[k][row[k].generation] <= row[k].attempts + InFlight(k) + crashes

\* Once the attempts are used up, every further one spends the old list of
\* another worker.
Spent ==
  \A k \in Key : row[k].attempts >= MaxAttempts =>
    row[k].attempts + InFlight(k) + Cardinality(Late(k)) < MaxAttempts + Cardinality(Worker)

EffectInv ==
  /\ EffectTypeOK /\ Apart /\ Listed /\ Claimed /\ OneRunPerGeneration
  /\ Answered /\ DoneTookPlace /\ OkExists /\ NotOpen
  /\ Counted /\ Spent /\ RunsBounded
---------------------------------------------------------------------------
(* Sets of workers, and rows *)

LEMMA Fewer ==
  ASSUME NEW T \in SUBSET Worker, NEW S \in SUBSET T
  PROVE  /\ Cardinality(S) \in Nat /\ Cardinality(T) \in Nat
         /\ Cardinality(Worker) \in Nat
         /\ Cardinality(S) <= Cardinality(T)
         /\ Cardinality(T) <= Cardinality(Worker)
         /\ \A w \in T \ S : Cardinality(S) < Cardinality(T)
<1>0. IsFiniteSet(Worker) BY EffectAssumption
<1>1. IsFiniteSet(T) BY <1>0, FS_Subset
<1>2. IsFiniteSet(S) BY <1>1, FS_Subset
<1>3. Cardinality(S) \in Nat /\ Cardinality(T) \in Nat /\ Cardinality(Worker) \in Nat
  BY <1>0, <1>1, <1>2, FS_CardinalityType
<1>4. Cardinality(S) <= Cardinality(T) /\ (Cardinality(S) = Cardinality(T) => S = T)
  BY <1>1, FS_Subset
<1>5. Cardinality(T) <= Cardinality(Worker)
  BY <1>0, FS_Subset
<1> QED BY <1>3, <1>4, <1>5

LEMMA SomeWorker == Cardinality(Worker) \in Nat \ {0}
BY EffectAssumption, FS_CardinalityType, FS_EmptySet

\* What a row is.
LEMMA RowFields ==
  ASSUME NEW x \in Row
  PROVE  /\ x.generation \in 0 .. MaxGen /\ x.status \in Status
         /\ x.attempts \in Nat /\ x.due \in BOOLEAN
BY DEF Row

LEMMA EntryFields ==
  ASSUME NEW x \in IntentRow
  PROVE  x.key \in Key /\ x.generation \in Gen /\ x.attempts \in Nat
BY DEF IntentRow

\* What a worker has claimed is a listed row.
LEMMA Held ==
  ASSUME EffectTypeOK, NEW w \in Worker, cur[w] # Nothing
  PROVE  cur[w] \in IntentRow /\ cur[w].key \in Key /\ cur[w].generation \in Gen
BY EntryFields DEF EffectTypeOK

LEMMA ListedRow ==
  ASSUME EffectTypeOK, NEW w \in Worker, NEW r \in todo[w]
  PROVE  r \in IntentRow /\ r.key \in Key /\ r.generation \in Gen /\ r.attempts \in Nat
BY EntryFields DEF EffectTypeOK

\* A statement on one row.
LEMMA RowSet ==
  ASSUME row \in [Key -> Row], NEW k \in Key, NEW st \in Status, NEW att \in Nat,
         NEW due \in BOOLEAN, SetRow(k, st, att, due)
  PROVE  /\ row' \in [Key -> Row]
         /\ \A j \in Key : row'[j].generation = row[j].generation
         /\ \A j \in Key : j # k => row'[j] = row[j]
         /\ row'[k].status = st /\ row'[k].attempts = att
BY DEF SetRow, Row

LEMMA RowUpserted ==
  ASSUME row \in [Key -> Row], NEW k \in Key, row[k].generation < MaxGen, Upsert(k)
  PROVE  /\ row' \in [Key -> Row]
         /\ \A j \in Key : j # k => row'[j] = row[j]
         /\ row'[k].generation = row[k].generation + 1
         /\ row'[k].status = "pending" /\ row'[k].attempts = 0
BY EffectAssumption, RowFields DEF Upsert, Row, Status

LEMMA RowsReplayed ==
  ASSUME row \in [Key -> Row], row' = IF RestartReplay THEN Replayed ELSE row
  PROVE  /\ row' \in [Key -> Row]
         /\ \A j \in Key : /\ row'[j].generation = row[j].generation
                           /\ row'[j].attempts = row[j].attempts
                           /\ \/ row'[j].status = row[j].status
                              \/ row[j].status = "in_flight" /\ row'[j].status = "pending"
<1>1. CASE RestartReplay
  BY <1>1, RowFields DEF Replayed, Row, Status
<1>2. CASE ~RestartReplay
  BY <1>2
<1> QED BY <1>1, <1>2
Outcomes == Outcome \ {"none"}

LEMMA MarkDoes ==
  ASSUME row \in [Key -> Row], NEW r, r.key \in Key, NEW o \in Outcomes, Mark(r, o)
  PROVE  /\ row' \in [Key -> Row]
         /\ \A j \in Key : row'[j].generation = row[j].generation
         /\ \A j \in Key : j # r.key => row'[j] = row[j]
         /\ ~Cas(r, "in_flight") => row' = row
         /\ Cas(r, "in_flight") =>
              /\ row'[r.key].status = CASE o = "done" -> "done" [] o = "abandon" -> "abandoned"
                                        [] o = "retry" -> "pending"
              /\ row'[r.key].attempts = IF o = "retry" THEN row[r.key].attempts + 1
                                                       ELSE row[r.key].attempts
<1>0. row[r.key].attempts \in Nat /\ row[r.key].due \in BOOLEAN
  BY RowFields
<1>1. CASE ~Cas(r, "in_flight")
  BY <1>1 DEF Mark, MarkFinal, MarkRetry
<1>2. CASE Cas(r, "in_flight") /\ o = "retry"
  <2>1. SetRow(r.key, "pending", row[r.key].attempts + 1, FALSE)
    BY <1>2 DEF Mark, MarkRetry
  <2>2. row[r.key].attempts + 1 \in Nat /\ "pending" \in Status
    BY <1>0 DEF Status
  <2>3. /\ row' \in [Key -> Row]
        /\ \A j \in Key : row'[j].generation = row[j].generation
        /\ \A j \in Key : j # r.key => row'[j] = row[j]
        /\ row'[r.key].status = "pending"
        /\ row'[r.key].attempts = row[r.key].attempts + 1
    BY <2>1, <2>2 DEF SetRow, Row
  <2> QED BY <1>2, <2>3
<1>3. CASE Cas(r, "in_flight") /\ o = "done"
  <2>1. SetRow(r.key, "done", row[r.key].attempts, row[r.key].due)
    BY <1>3 DEF Mark, MarkFinal
  <2> QED BY <1>0, <1>3, <2>1, RowSet DEF Status
<1>4. CASE Cas(r, "in_flight") /\ o = "abandon"
  <2>1. SetRow(r.key, "abandoned", row[r.key].attempts, row[r.key].due)
    BY <1>4 DEF Mark, MarkFinal
  <2> QED BY <1>0, <1>4, <2>1, RowSet DEF Status
<1> QED BY <1>1, <1>2, <1>3, <1>4 DEF Outcomes, Outcome

---------------------------------------------------------------------------
(* Types *)

LEMMA FetchTyped ==
  ASSUME EffectTypeOK, NEW w \in Worker, Fetch(w)
  PROVE  EffectTypeOK'
<1>1. \A k \in Key : row[k].generation > 0 => Snapshot(k) \in IntentRow
  BY EffectAssumption, RowFields DEF Snapshot, IntentRow, Gen, EffectTypeOK
<1>2. todo' \in [Worker -> SUBSET IntentRow]
  BY <1>1 DEF Fetch, EffectTypeOK
<1> QED BY <1>2 DEF Fetch, EffectTypeOK

LEMMA ProcessTyped ==
  ASSUME EffectTypeOK, NEW w \in Worker, NEW r \in todo[w], Process(w, r)
  PROVE  EffectTypeOK'
<1>1. r \in IntentRow /\ r.key \in Key /\ r.generation \in Gen
  BY ListedRow
<1>2. row[r.key].attempts \in Nat /\ row[r.key].due \in BOOLEAN
  BY <1>1, RowFields DEF EffectTypeOK
<1>3. row' \in [Key -> Row]
  <2>1. {"abandoned", "in_flight"} \subseteq Status
    BY DEF Status
  <2> QED BY <1>1, <1>2, <2>1, RowSet DEF Process, EffectTypeOK
<1>4. /\ todo' \in [Worker -> SUBSET IntentRow]
      /\ cur' \in [Worker -> IntentRow \cup {Nothing}]
  BY <1>1 DEF Process, EffectTypeOK
<1>5. runs' \in [Key -> [Gen -> Nat]]
  <2>1. runs \in [Key -> [Gen -> Nat]] /\ runs[r.key][r.generation] + 1 \in Nat
    BY <1>1 DEF EffectTypeOK
  <2>2. CASE runs' = [runs EXCEPT ![r.key][r.generation] = @ + 1]
    BY <1>1, <2>1, <2>2
  <2> QED BY <2>1, <2>2 DEF Process
<1> QED BY <1>3, <1>4, <1>5 DEF Process, EffectTypeOK

LEMMA HandlerTyped ==
  ASSUME EffectTypeOK, NEW w \in Worker, NEW o \in Outcomes, HandlerReturns(w, o)
  PROVE  EffectTypeOK'
<1>1. cur[w].key \in Key /\ cur[w].generation \in Gen
  BY Held DEF HandlerReturns
<1>2. ok' \in [Key -> SUBSET Gen] /\ result' \in [Worker -> Outcome]
  BY <1>1 DEF HandlerReturns, EffectTypeOK, Outcomes
<1> QED BY <1>2 DEF HandlerReturns, EffectTypeOK

LEMMA RecordTyped ==
  ASSUME EffectTypeOK, NEW w \in Worker, Record(w)
  PROVE  EffectTypeOK'
<1>1. cur[w].key \in Key /\ result[w] \in Outcomes
  BY Held DEF Record, EffectTypeOK, Outcomes
<1>2. row' \in [Key -> Row]
  BY <1>1, MarkDoes DEF Record, EffectTypeOK
<1>3. /\ cur' \in [Worker -> IntentRow \cup {Nothing}]
      /\ result' \in [Worker -> Outcome]
  BY DEF Record, EffectTypeOK, Outcome
<1> QED BY <1>2, <1>3 DEF Record, EffectTypeOK

LEMMA CallerTyped ==
  ASSUME EffectTypeOK, NEW k \in Key,
         \/ Enqueue(k) \/ ShadowStart(k) \/ Ripen(k)
         \/ \E o \in Outcomes : ShadowEnd(k, o)
  PROVE  EffectTypeOK'
<1>0. row \in [Key -> Row] /\ MaxGen \in Nat /\ row[k].generation \in 0 .. MaxGen
  BY EffectAssumption, RowFields DEF EffectTypeOK
<1>1. CASE Enqueue(k)
  BY <1>0, <1>1, RowUpserted DEF Enqueue, EffectTypeOK, worker_vars
<1>2. CASE ShadowStart(k)
  <2>1. row' \in [Key -> Row] /\ row'[k].generation = row[k].generation + 1
    BY <1>0, <1>2, RowUpserted DEF ShadowStart
  <2>2. shadow' \in [Key -> 0 .. MaxGen]
    BY <1>0, <1>2, <2>1 DEF ShadowStart, EffectTypeOK
  <2> QED BY <1>2, <2>1, <2>2 DEF ShadowStart, EffectTypeOK, worker_vars
<1>3. CASE Ripen(k)
  <2>1. row' \in [Key -> Row]
    BY <1>0, <1>3 DEF Ripen, Row
  <2> QED BY <1>3, <2>1 DEF Ripen, EffectTypeOK, worker_vars
<1>4. ASSUME NEW o \in Outcomes, ShadowEnd(k, o) PROVE EffectTypeOK'
  <2>1. row' \in [Key -> Row]
    BY <1>0, <1>4, MarkDoes DEF ShadowEnd
  <2>2. ok' \in [Key -> SUBSET Gen] /\ shadow' \in [Key -> 0 .. MaxGen]
    BY <1>0, <1>4 DEF ShadowEnd, EffectTypeOK, Gen
  <2> QED BY <1>4, <2>1, <2>2 DEF ShadowEnd, EffectTypeOK, worker_vars
<1> QED BY <1>1, <1>2, <1>3, <1>4

LEMMA RestartTyped ==
  ASSUME EffectTypeOK, NEW m \in Modes, Restart(m)
  PROVE  EffectTypeOK'
<1>1. row' \in [Key -> Row]
  BY RowsReplayed DEF Restart, EffectTypeOK
<1>2. crashes' \in 0 .. MaxCrash /\ shadow' \in [Key -> 0 .. MaxGen]
  BY EffectAssumption DEF Restart, EffectTypeOK
<1>3. /\ todo' \in [Worker -> SUBSET IntentRow]
      /\ cur' \in [Worker -> IntentRow \cup {Nothing}]
      /\ result' \in [Worker -> Outcome]
  BY DEF Restart, Outcome
<1> QED BY <1>1, <1>2, <1>3 DEF Restart, EffectTypeOK

---------------------------------------------------------------------------
(* The steps *)

\* A new generation of a row makes every list and claim of the key old.
LEMMA UpsertKeeps ==
  ASSUME EffectInv, NEW k \in Key, row[k].generation < MaxGen, Upsert(k),
         UNCHANGED <<mode, worker_vars, runs, ok, crashes>>, EffectTypeOK', Apart'
  PROVE  EffectInv'
<1> USE DEF EffectInv, worker_vars
<1>0. /\ MaxGen \in Nat /\ MaxAttempts \in Nat /\ crashes \in Nat
      /\ Cardinality(Worker) \in Nat \ {0}
      /\ row \in [Key -> Row]
      /\ \A j \in Key : row[j].generation \in Nat /\ row[j].attempts \in Nat
  BY EffectAssumption, SomeWorker, RowFields DEF EffectTypeOK
<1>1. /\ \A j \in Key : j # k => row'[j] = row[j]
      /\ row'[k].generation = row[k].generation + 1
      /\ row'[k].status = "pending" /\ row'[k].attempts = 0
  BY <1>0, RowUpserted
<1>2. \A w \in Worker : \A r \in todo[w] : r.generation \in Nat /\ r.key \in Key
  BY ListedRow DEF Gen
<1>3. \A w \in Worker : cur[w] # Nothing => cur[w].generation \in Nat /\ cur[w].key \in Key
  BY Held DEF Gen
<1>4. Listed'
  BY <1>0, <1>1, <1>2, <1>3 DEF Listed
<1>5. \A w \in Worker, j \in Key : Holds(w, j)' <=> j # k /\ Holds(w, j)
  BY <1>0, <1>1, <1>3 DEF Holds, Listed
<1>6. Claimed'
  BY <1>1, <1>5 DEF Claimed
<1>7. OneRunPerGeneration' /\ Answered' /\ RunsBounded'
  BY DEF OneRunPerGeneration, Answered, RunsBounded
<1>8. DoneTookPlace' /\ OkExists'
  <2>1. \A g \in ok[k] : g \in Nat
    BY DEF EffectTypeOK, Gen
  <2>2. \A g \in ok[k] : g <= row'[k].generation
    BY <1>0, <1>1, <2>1 DEF OkExists
  <2> QED BY <1>1, <2>2 DEF DoneTookPlace, OkExists
<1>9. NotOpen'
  <2>1. row'[k].generation \notin ok[k]
    BY <1>0, <1>1 DEF OkExists
  <2> QED BY <1>1, <1>5, <2>1 DEF NotOpen
<1>10. Counted'
  <2>1. ASSUME NEW g \in Gen, g > row'[k].generation PROVE runs[k][g] = 0
    BY <1>0, <1>1, <2>1 DEF Counted, Gen
  <2>2. row'[k].generation \in Gen
    BY <1>0, <1>1 DEF Gen
  <2>3. runs[k][row'[k].generation] = 0
    BY <1>0, <1>1, <2>2 DEF Counted
  <2>4. \A j \in Key : j # k => InFlight(j)' = InFlight(j)
    BY <1>1 DEF InFlight
  <2>5. InFlight(k)' = 0
    BY <1>1 DEF InFlight
  <2> QED BY <1>0, <1>1, <2>1, <2>3, <2>4, <2>5 DEF Counted
<1>11. Spent'
  <2>1. Late(k)' = {}
    BY <1>0, <1>1, <1>2 DEF Late, Lists, Listed
  <2>2. Cardinality({}) = 0
    BY FS_EmptySet
  <2>3. InFlight(k)' = 0
    BY <1>1 DEF InFlight
  <2>4. \A j \in Key : j # k => InFlight(j)' = InFlight(j) /\ Late(j)' = Late(j)
    BY <1>1 DEF InFlight, Late, Lists
  <2>5. ASSUME NEW j \in Key, j # k, row'[j].attempts >= MaxAttempts
        PROVE  row'[j].attempts + InFlight(j)' + Cardinality(Late(j)')
                 < MaxAttempts + Cardinality(Worker)
    <3>1. row[j].attempts + InFlight(j) + Cardinality(Late(j)) < MaxAttempts + Cardinality(Worker)
      BY <1>1, <2>5 DEF Spent
    <3> QED BY <1>1, <2>4, <2>5, <3>1
  <2>6. row'[k].attempts + InFlight(k)' + Cardinality(Late(k)')
          < MaxAttempts + Cardinality(Worker)
    BY <1>0, <1>1, <2>1, <2>2, <2>3
  <2> QED BY <2>5, <2>6 DEF Spent
<1> QED BY <1>4, <1>6, <1>7, <1>8, <1>9, <1>10, <1>11

LEMMA HandlerKeeps ==
  ASSUME EffectInv, NEW w \in Worker, NEW o \in Outcomes, HandlerReturns(w, o)
  PROVE  EffectInv'
<1> USE DEF EffectInv
<1> DEFINE c == cur[w]
<1>0. /\ c # Nothing /\ result[w] = "none" /\ c.key \in Key /\ c.generation \in Gen
      /\ ok \in [Key -> SUBSET Gen] /\ result \in [Worker -> Outcome]
  BY Held DEF HandlerReturns, EffectTypeOK
<1>1. /\ UNCHANGED <<row, mode, todo, cur, shadow, runs, crashes>>
      /\ result' = [result EXCEPT ![w] = o]
      /\ \A j \in Key : ok'[j] = IF o = "done" /\ j = c.key THEN ok[j] \cup {c.generation}
                                                           ELSE ok[j]
  BY <1>0 DEF HandlerReturns
<1>2. \A v \in Worker : result'[v] = IF v = w THEN o ELSE result[v]
  BY <1>0, <1>1
<1> HIDE DEF c
<1>3. EffectTypeOK'
  BY HandlerTyped
<1>4. Apart' /\ Listed' /\ Claimed' /\ OneRunPerGeneration' /\ Counted' /\ Spent' /\ RunsBounded'
  BY <1>1 DEF Apart, Listed, Claimed, Holds, OneRunPerGeneration, Counted, InFlight,
              Spent, Late, Lists, RunsBounded
<1>5. Answered'
  <2>1. cur' = cur /\ cur[w] = c
    BY <1>1 DEF c
  <2>2. ASSUME NEW v \in Worker PROVE cur[v] = Nothing => result'[v] = "none"
    BY <1>0, <1>2, <2>1 DEF Answered
  <2>3. ASSUME NEW v \in Worker, result'[v] = "done"
        PROVE  cur[v].generation \in ok'[cur[v].key]
    <3>1. CASE v = w
      BY <1>0, <1>1, <1>2, <2>1, <2>3, <3>1
    <3>2. CASE v # w
      <4>1. result[v] = "done" /\ cur[v] # Nothing
        BY <1>2, <2>3, <3>2 DEF Answered
      <4>2. cur[v].key \in Key /\ cur[v].generation \in ok[cur[v].key]
        BY <4>1, Held DEF Answered
      <4> QED BY <1>1, <4>2
    <3> QED BY <3>1, <3>2
  <2> QED BY <2>1, <2>2, <2>3 DEF Answered
<1>6. DoneTookPlace'
  BY <1>1 DEF DoneTookPlace
<1>7. OkExists'
  <2>1. c.generation <= row[c.key].generation
    BY <1>0 DEF Listed, c
  <2> QED BY <1>1, <2>1 DEF OkExists
<1>8. NotOpen'
  <2>1. SUFFICES ASSUME crashes = 0, mode = "exec", NEW k \in Key, row[k].generation \in ok'[k]
                 PROVE  /\ row[k].status # "pending"
                        /\ \A v \in Worker : Holds(v, k) => result'[v] = "done"
    BY <1>1 DEF NotOpen, Holds
  <2>2. CASE row[k].generation \in ok[k]
    <3>1. /\ row[k].status # "pending"
          /\ \A v \in Worker : Holds(v, k) => result[v] = "done"
      BY <2>1, <2>2 DEF NotOpen
    <3> QED BY <1>0, <1>2, <3>1
  <2>3. CASE row[k].generation \notin ok[k]
    <3>1. o = "done" /\ k = c.key /\ row[k].generation = c.generation
      BY <1>1, <2>1, <2>3
    <3>2. Holds(w, k)
      BY <1>0, <3>1 DEF Holds, c
    <3>3. row[k].status = "in_flight"
      BY <3>2 DEF Claimed
    <3>4. \A v \in Worker : Holds(v, k) => v = w
      BY <3>2 DEF Holds, OneRunPerGeneration
    <3> QED BY <1>2, <3>1, <3>3, <3>4
  <2> QED BY <2>2, <2>3
<1> QED BY <1>3, <1>4, <1>5, <1>6, <1>7, <1>8

LEMMA FetchKeeps ==
  ASSUME EffectInv, NEW w \in Worker, Fetch(w)
  PROVE  EffectInv'
<1> USE DEF EffectInv
<1>0. /\ row \in [Key -> Row] /\ todo \in [Worker -> SUBSET IntentRow]
      /\ \A k \in Key : row[k].generation \in Nat /\ row[k].attempts \in Nat
  BY RowFields, EffectAssumption DEF EffectTypeOK
<1>1. /\ UNCHANGED <<row, mode, cur, result, shadow, runs, ok, crashes>>
      /\ mode = "exec" /\ cur[w] = Nothing
      /\ \A v \in Worker : v # w => todo'[v] = todo[v]
      /\ \A r \in todo'[w] : /\ r.key \in Key /\ r.generation = row[r.key].generation
                             /\ r.attempts = row[r.key].attempts
                             /\ r = Snapshot(r.key)
  BY <1>0 DEF Fetch, Snapshot
<1>2. EffectTypeOK'
  BY FetchTyped
<1>3. Apart'
  BY <1>1 DEF Apart
<1>4. Listed'
  <2>1. \A r \in todo'[w] : r.generation <= row[r.key].generation
    BY <1>0, <1>1
  <2>2. \A r, q \in todo'[w] : r.key = q.key => r = q
    BY <1>1
  <2> QED BY <1>1, <2>1, <2>2 DEF Listed
<1>5. Claimed' /\ OneRunPerGeneration' /\ Answered' /\ DoneTookPlace' /\ OkExists'
      /\ NotOpen' /\ Counted' /\ RunsBounded'
  BY <1>1 DEF Claimed, Holds, OneRunPerGeneration, Answered, DoneTookPlace, OkExists,
              NotOpen, Counted, InFlight, RunsBounded
<1>6. Spent'
  <2>1. SUFFICES ASSUME NEW k \in Key, row[k].attempts >= MaxAttempts
                 PROVE  Late(k)' \subseteq Late(k)
    <3>1. ASSUME NEW k \in Key, row[k].attempts >= MaxAttempts
          PROVE  row[k].attempts + InFlight(k) + Cardinality(Late(k)')
                   < MaxAttempts + Cardinality(Worker)
      <4>1. Late(k) \subseteq Worker /\ Late(k)' \in SUBSET Late(k)
        BY <2>1, <3>1 DEF Late
      <4>2. Cardinality(Late(k)') <= Cardinality(Late(k))
            /\ Cardinality(Late(k)') \in Nat /\ Cardinality(Late(k)) \in Nat
        BY <4>1, Fewer
      <4>3. row[k].attempts + InFlight(k) + Cardinality(Late(k))
              < MaxAttempts + Cardinality(Worker)
        BY <3>1 DEF Spent
      <4>4. InFlight(k) \in Nat /\ Cardinality(Worker) \in Nat /\ MaxAttempts \in Nat
        BY SomeWorker, EffectAssumption DEF InFlight
      <4> QED BY <1>0, <4>2, <4>3, <4>4
    <3> QED BY <1>1, <3>1 DEF Spent, InFlight
  <2>2. \A r \in todo'[w] : r.key = k => ~(r.attempts < MaxAttempts)
    BY <1>0, <1>1, <2>1, EffectAssumption
  <2>3. ~(\E r \in todo'[w] : r.key = k /\ r.attempts < MaxAttempts)
    BY <2>2
  <2> QED BY <1>1, <2>3 DEF Late, Lists
<1> QED BY <1>2, <1>3, <1>4, <1>5, <1>6

\* What an iteration of the tick does, whichever way it goes.
LEMMA ProcessDoes ==
  ASSUME EffectInv, NEW w \in Worker, NEW r \in todo[w], Process(w, r)
  PROVE  /\ UNCHANGED <<mode, result, shadow, ok, crashes>>
         /\ cur[w] = Nothing /\ mode = "exec"
         /\ \A v \in Worker : todo'[v] = IF v = w THEN todo[v] \ {r} ELSE todo[v]
         /\ row' \in [Key -> Row]
         /\ \A j \in Key : /\ row'[j].generation = row[j].generation
                           /\ row'[j].attempts = row[j].attempts
                           /\ j # r.key => row'[j].status = row[j].status
         /\ \/ row' = row /\ UNCHANGED <<cur, runs>>
            \/ /\ CanClaim(r) /\ row'[r.key].status = "abandoned" /\ UNCHANGED <<cur, runs>>
            \/ /\ CanClaim(r) /\ r.attempts < MaxAttempts
               /\ row'[r.key].status = "in_flight"
               /\ cur' = [cur EXCEPT ![w] = r]
               /\ runs' = [runs EXCEPT ![r.key][r.generation] = @ + 1]
<1> USE DEF EffectInv
<1>0. /\ row \in [Key -> Row] /\ todo \in [Worker -> SUBSET IntentRow]
      /\ r.key \in Key /\ mode \in Modes
  BY ListedRow DEF EffectTypeOK
<1>1. row[r.key].attempts \in Nat /\ row[r.key].due \in BOOLEAN
  BY <1>0, RowFields
<1>2. {"abandoned", "in_flight"} \subseteq Status
  BY DEF Status
<1>3. cur[w] = Nothing /\ UNCHANGED <<mode, result, shadow, ok, crashes>>
      /\ \A v \in Worker : todo'[v] = IF v = w THEN todo[v] \ {r} ELSE todo[v]
  BY <1>0 DEF Process
<1>4. mode = "exec"
  BY <1>0, EffectAssumption DEF Apart
<1>5. CASE UNCHANGED <<row, cur, runs>>
  BY <1>0, <1>3, <1>4, <1>5
<1>6. CASE /\ CanClaim(r) /\ UNCHANGED <<cur, runs>>
           /\ SetRow(r.key, "abandoned", row[r.key].attempts, row[r.key].due)
  <2>1. /\ row' \in [Key -> Row]
        /\ \A j \in Key : row'[j].generation = row[j].generation
        /\ \A j \in Key : j # r.key => row'[j] = row[j]
        /\ row'[r.key].status = "abandoned" /\ row'[r.key].attempts = row[r.key].attempts
    BY <1>0, <1>1, <1>2, <1>6 DEF SetRow, Row
  <2> QED BY <1>3, <1>4, <1>6, <2>1
<1>7. CASE /\ CanClaim(r) /\ r.attempts < MaxAttempts
           /\ SetRow(r.key, "in_flight", row[r.key].attempts, row[r.key].due)
           /\ cur' = [cur EXCEPT ![w] = r]
           /\ runs' = [runs EXCEPT ![r.key][r.generation] = @ + 1]
  <2>1. /\ row' \in [Key -> Row]
        /\ \A j \in Key : row'[j].generation = row[j].generation
        /\ \A j \in Key : j # r.key => row'[j] = row[j]
        /\ row'[r.key].status = "in_flight" /\ row'[r.key].attempts = row[r.key].attempts
    BY <1>0, <1>1, <1>2, <1>7 DEF SetRow, Row
  <2> QED BY <1>3, <1>4, <1>7, <2>1
<1> QED BY <1>5, <1>6, <1>7 DEF Process

LEMMA ProcessKeepsSpent ==
  ASSUME EffectInv, NEW w \in Worker, NEW r \in todo[w], Process(w, r)
  PROVE  Spent'
<1> USE DEF EffectInv
<1>0. /\ \A j \in Key : row[j].attempts \in Nat
      /\ MaxAttempts \in Nat /\ Cardinality(Worker) \in Nat
      /\ r.key \in Key
  BY RowFields, ListedRow, EffectAssumption, SomeWorker DEF EffectTypeOK
<1>1. SUFFICES ASSUME NEW k \in Key, row[k].attempts >= MaxAttempts
               PROVE  row[k].attempts + InFlight(k)' + Cardinality(Late(k)')
                        < MaxAttempts + Cardinality(Worker)
  BY ProcessDoes DEF Spent
<1>2. Late(k)' \in SUBSET Late(k) /\ Late(k) \in SUBSET Worker
  <2>1. /\ \A v \in Worker : todo'[v] \subseteq todo[v]
        /\ row'[k].generation = row[k].generation
    BY ProcessDoes
  <2> QED BY <2>1 DEF Late, Lists
<1>3. /\ Cardinality(Late(k)') \in Nat /\ Cardinality(Late(k)) \in Nat
      /\ Cardinality(Late(k)') <= Cardinality(Late(k))
      /\ \A v \in Late(k) \ Late(k)' : Cardinality(Late(k)') < Cardinality(Late(k))
  BY <1>2, Fewer
<1>4. row[k].attempts + InFlight(k) + Cardinality(Late(k)) < MaxAttempts + Cardinality(Worker)
  BY <1>1 DEF Spent
<1>5. CASE InFlight(k)' <= InFlight(k)
  BY <1>0, <1>3, <1>4, <1>5 DEF InFlight
<1>6. CASE ~(InFlight(k)' <= InFlight(k))
  <2>1. /\ k = r.key /\ CanClaim(r) /\ r.attempts < MaxAttempts
        /\ InFlight(k) = 0 /\ InFlight(k)' = 1
    <3>1. row'[k].status = "in_flight" /\ row[k].status # "in_flight"
      BY <1>6 DEF InFlight
    <3>2. k = r.key
      BY <3>1, ProcessDoes
    <3>3. CanClaim(r) /\ r.attempts < MaxAttempts
      BY <1>0, <3>1, <3>2, ProcessDoes
    <3> QED BY <3>1, <3>2, <3>3 DEF InFlight
  <2>2. w \in Late(k)
    BY <2>1 DEF Late, Lists, CanClaim, Cas
  <2>3. w \notin Late(k)'
    <3>1. todo'[w] = todo[w] \ {r}
      BY ProcessDoes
    <3>2. \A q \in todo'[w] : q.key # k
      BY <2>1, <3>1 DEF Listed
    <3> QED BY <3>2 DEF Late, Lists
  <2> QED BY <1>0, <1>3, <1>4, <2>1, <2>2, <2>3
<1> QED BY <1>5, <1>6

LEMMA ProcessKeeps ==
  ASSUME EffectInv, NEW w \in Worker, NEW r \in todo[w], Process(w, r)
  PROVE  EffectInv'
<1> USE DEF EffectInv
<1>0. /\ MaxAttempts \in Nat /\ crashes \in Nat /\ Cardinality(Worker) \in Nat \ {0}
      /\ cur \in [Worker -> IntentRow \cup {Nothing}]
      /\ runs \in [Key -> [Gen -> Nat]]
      /\ r.key \in Key /\ r.generation \in Gen /\ Gen \subseteq Nat
      /\ \A j \in Key : row[j].generation \in Nat /\ row[j].attempts \in Nat
      /\ \A v \in Worker : \A q \in todo[v] : q.key \in Key
      /\ \A v \in Worker : cur[v] # Nothing => cur[v].key \in Key
  BY EffectAssumption, SomeWorker, RowFields, ListedRow, Held DEF EffectTypeOK, Gen
<1>1. /\ UNCHANGED <<mode, result, shadow, ok, crashes>>
      /\ cur[w] = Nothing /\ mode = "exec"
      /\ \A v \in Worker : todo'[v] = IF v = w THEN todo[v] \ {r} ELSE todo[v]
      /\ \A j \in Key : /\ row'[j].generation = row[j].generation
                        /\ row'[j].attempts = row[j].attempts
                        /\ j # r.key => row'[j].status = row[j].status
  BY ProcessDoes
<1>2. EffectTypeOK' /\ Spent'
  BY ProcessTyped, ProcessKeepsSpent
<1>3. Apart' /\ OkExists'
  BY <1>1 DEF Apart, OkExists
<1>4. CASE row' = row /\ UNCHANGED <<cur, runs>>
  <2>1. Listed'
    BY <1>0, <1>1, <1>4 DEF Listed
  <2>2. /\ Claimed' /\ OneRunPerGeneration' /\ Answered' /\ DoneTookPlace' /\ NotOpen'
        /\ Counted' /\ RunsBounded'
    BY <1>1, <1>4 DEF Claimed, Holds, OneRunPerGeneration, Answered, DoneTookPlace, NotOpen,
                      Counted, InFlight, RunsBounded
  <2> QED BY <1>2, <1>3, <2>1, <2>2
<1>5. CASE CanClaim(r) /\ row'[r.key].status = "abandoned" /\ UNCHANGED <<cur, runs>>
  <2>1. Listed'
    BY <1>0, <1>1, <1>5 DEF Listed
  <2>2. row[r.key].status = "pending"
    BY <1>5 DEF CanClaim, Cas
  <2>3. \A v \in Worker, j \in Key : Holds(v, j)' <=> Holds(v, j)
    BY <1>1, <1>5 DEF Holds
  <2>4. \A v \in Worker : ~Holds(v, r.key)
    BY <1>0, <2>2 DEF Claimed
  <2>5. Claimed'
    BY <1>1, <1>5, <2>3, <2>4 DEF Claimed
  <2>6. OneRunPerGeneration' /\ Answered' /\ DoneTookPlace' /\ RunsBounded'
    BY <1>1, <1>5 DEF OneRunPerGeneration, Answered, DoneTookPlace, RunsBounded
  <2>7. NotOpen'
    BY <1>1, <1>5, <2>2, <2>3 DEF NotOpen
  <2>8. Counted'
    BY <1>1, <1>5 DEF Counted, InFlight
  <2> QED BY <1>2, <1>3, <2>1, <2>5, <2>6, <2>7, <2>8
<1>6. CASE /\ CanClaim(r) /\ r.attempts < MaxAttempts
           /\ row'[r.key].status = "in_flight"
           /\ cur' = [cur EXCEPT ![w] = r]
           /\ runs' = [runs EXCEPT ![r.key][r.generation] = @ + 1]
  <2>1. row[r.key].status = "pending" /\ row[r.key].generation = r.generation
    BY <1>6 DEF CanClaim, Cas
  <2>2. \A v \in Worker : cur'[v] = IF v = w THEN r ELSE cur[v]
    BY <1>0, <1>6
  <2>3. r # Nothing
    <3>1. r \in IntentRow
      BY ListedRow
    <3>2. DOMAIN r = {"key", "generation", "attempts"}
      BY <3>1 DEF IntentRow
    <3>3. DOMAIN Nothing = {"key"}
      BY DEF Nothing
    <3> QED BY <3>2, <3>3
  <2>4. \A v \in Worker : ~Holds(v, r.key)
    BY <1>0, <2>1 DEF Claimed
  <2>5. \A v \in Worker, j \in Key : Holds(v, j)' <=> Holds(v, j) \/ (v = w /\ j = r.key)
    BY <1>0, <1>1, <2>1, <2>2, <2>3 DEF Holds
  <2>6. Listed'
    <3>1. \A q \in todo'[w] : q.key # r.key
      BY <1>1 DEF Listed
    <3>2. ASSUME NEW v \in Worker, v # w
          PROVE  cur'[v] = cur[v] /\ todo'[v] = todo[v]
      BY <1>1, <2>2, <3>2
    <3>3. ASSUME NEW v \in Worker
          PROVE  /\ \A q \in todo'[v] : /\ q.generation <= row'[q.key].generation
                                        /\ cur'[v] # Nothing => q.key # cur'[v].key
                 /\ \A q, p \in todo'[v] : q.key = p.key => q = p
      BY <1>0, <1>1, <2>2, <3>1, <3>2 DEF Listed
    <3>4. ASSUME NEW v \in Worker, cur'[v] # Nothing
          PROVE  cur'[v].generation <= row'[cur'[v].key].generation
      BY <1>0, <1>1, <2>1, <2>2, <3>2, <3>4 DEF Listed
    <3> QED BY <3>3, <3>4 DEF Listed
  <2>7. Claimed'
    BY <1>1, <1>6, <2>4, <2>5 DEF Claimed
  <2>8. OneRunPerGeneration'
    BY <1>0, <2>1, <2>2, <2>4 DEF OneRunPerGeneration, Holds
  <2>9. Answered'
    <3>1. result[w] = "none" /\ result' = result
      BY <1>1 DEF Answered
    <3> QED BY <1>1, <2>2, <3>1 DEF Answered
  <2>10. DoneTookPlace'
    BY <1>1, <1>6 DEF DoneTookPlace
  <2>11. NotOpen'
    BY <1>1, <2>1, <2>5 DEF NotOpen
  <2>12. \A j \in Key, g \in Gen :
           runs'[j][g] = IF j = r.key /\ g = r.generation THEN runs[j][g] + 1 ELSE runs[j][g]
    BY <1>0, <1>6
  <2>13. Counted'
    <3>1. ASSUME NEW j \in Key, NEW g \in Gen, g > row'[j].generation PROVE runs'[j][g] = 0
      BY <1>0, <1>1, <2>1, <2>12, <3>1 DEF Counted
    <3>2. ASSUME NEW j \in Key, row'[j].status \in {"pending", "in_flight"}
          PROVE  /\ row'[j].generation > 0
                 /\ runs'[j][row'[j].generation] <= row'[j].attempts + InFlight(j)' + crashes'
      <4>1. CASE j = r.key
        <5>1. /\ runs[j][r.generation] <= row[j].attempts + 0 + crashes
              /\ row[j].generation > 0
          BY <2>1, <4>1 DEF Counted, InFlight
        <5>2. InFlight(j)' = 1
          BY <1>6, <4>1 DEF InFlight
        <5>3. runs'[j][r.generation] = runs[j][r.generation] + 1
              /\ runs[j][r.generation] \in Nat
          BY <1>0, <2>12, <4>1
        <5> QED BY <1>0, <1>1, <2>1, <4>1, <5>1, <5>2, <5>3
      <4>2. CASE j # r.key
        <5>1. /\ row[j].generation > 0
              /\ runs[j][row[j].generation] <= row[j].attempts + InFlight(j) + crashes
          BY <1>1, <3>2, <4>2 DEF Counted
        <5>2. InFlight(j)' = InFlight(j)
          BY <1>1, <4>2 DEF InFlight
        <5>3. row[j].generation \in Gen
          BY <5>1, RowFields, EffectAssumption DEF EffectTypeOK, Gen
        <5> QED BY <1>1, <2>12, <4>2, <5>1, <5>2, <5>3
      <4> QED BY <4>1, <4>2
    <3> QED BY <3>1, <3>2 DEF Counted
  <2>14. RunsBounded'
    <3>1. runs'[r.key][r.generation] <= MaxAttempts + crashes + Cardinality(Worker) - 1
      <4>0. runs'[r.key][r.generation] \in Nat
        <5>1. runs' \in [Key -> [Gen -> Nat]]
          BY <1>2 DEF EffectTypeOK
        <5> QED BY <1>0, <5>1
      <4>1. runs'[r.key][r.generation] <= row[r.key].attempts + 1 + crashes
        <5>1. InFlight(r.key)' = 1
          BY <1>6 DEF InFlight
        <5> QED BY <1>0, <1>1, <1>6, <2>1, <2>13, <5>1 DEF Counted
      <4>2. CASE row[r.key].attempts < MaxAttempts
        BY <1>0, <4>0, <4>1, <4>2
      <4>3. CASE row[r.key].attempts >= MaxAttempts
        <5>1. row[r.key].attempts + 1 + Cardinality(Late(r.key)')
                < MaxAttempts + Cardinality(Worker)
          BY <1>0, <1>1, <1>2, <1>6, <4>3 DEF Spent, InFlight
        <5>2. Late(r.key)' \in SUBSET Worker
          BY DEF Late
        <5>3. Cardinality(Late(r.key)') \in Nat
          BY <5>2, Fewer
        <5> QED BY <1>0, <4>0, <4>1, <5>1, <5>3
      <4> QED BY <1>0, <4>2, <4>3
    <3> QED BY <1>1, <2>12, <3>1 DEF RunsBounded
  <2> QED BY <1>2, <1>3, <2>6, <2>7, <2>8, <2>9, <2>10, <2>11, <2>13, <2>14
<1> QED BY <1>4, <1>5, <1>6, ProcessDoes

LEMMA RecordKeeps ==
  ASSUME EffectInv, NEW w \in Worker, Record(w)
  PROVE  EffectInv'
<1> USE DEF EffectInv
<1> DEFINE c == cur[w]
           hit == Cas(c, "in_flight")
<1>0. /\ MaxAttempts \in Nat /\ crashes \in Nat /\ Cardinality(Worker) \in Nat \ {0}
      /\ cur \in [Worker -> IntentRow \cup {Nothing}] /\ result \in [Worker -> Outcome]
      /\ c # Nothing /\ c.key \in Key /\ c.generation \in Gen /\ result[w] \in Outcomes
      /\ \A j \in Key : row[j].generation \in Nat /\ row[j].attempts \in Nat
      /\ \A v \in Worker : \A q \in todo[v] : q.key \in Key
      /\ \A v \in Worker : cur[v] # Nothing => cur[v].key \in Key
  BY EffectAssumption, SomeWorker, RowFields, ListedRow, Held
     DEF EffectTypeOK, Record, Outcomes
<1>1. /\ UNCHANGED <<mode, todo, shadow, runs, ok, crashes>>
      /\ \A v \in Worker : /\ cur'[v] = IF v = w THEN Nothing ELSE cur[v]
                           /\ result'[v] = IF v = w THEN "none" ELSE result[v]
  BY <1>0 DEF Record
<1>2. /\ \A j \in Key : row'[j].generation = row[j].generation
      /\ \A j \in Key : j # c.key => row'[j] = row[j]
      /\ ~hit => row' = row
      /\ hit =>
           /\ row'[c.key].status = CASE result[w] = "done" -> "done"
                                     [] result[w] = "abandon" -> "abandoned"
                                     [] result[w] = "retry" -> "pending"
           /\ row'[c.key].attempts = IF result[w] = "retry" THEN row[c.key].attempts + 1
                                                            ELSE row[c.key].attempts
  <2>1. row \in [Key -> Row] /\ Mark(c, result[w])
    BY DEF Record, EffectTypeOK
  <2> HIDE DEF c
  <2> QED BY <1>0, <2>1, MarkDoes
<1>3. hit => /\ row'[c.key].status \in {"done", "abandoned", "pending"}
             /\ row'[c.key].status = "pending" <=> result[w] = "retry"
             /\ row'[c.key].status = "done" <=> result[w] = "done"
  BY <1>0, <1>2 DEF Outcomes, Outcome
<1>4. hit <=> row[c.key].generation = c.generation /\ row[c.key].status = "in_flight"
  BY DEF Cas
<1>5. cur[w] = c
  OBVIOUS
<1> HIDE DEF c, hit
<1>6. EffectTypeOK'
  BY RecordTyped
<1>7. Apart'
  <2>1. mode # "shadow"
    BY <1>0, <1>5 DEF Apart
  <2> QED BY <1>1, <1>2, <2>1 DEF Apart
<1>8. Listed'
  BY <1>0, <1>1, <1>2 DEF Listed
<1>9. Holds(w, c.key) <=> row[c.key].generation = c.generation
  BY <1>0, <1>5 DEF Holds
<1>10. \A v \in Worker, j \in Key : Holds(v, j)' <=> v # w /\ Holds(v, j)
  BY <1>1, <1>2 DEF Holds
<1>11. hit => \A v \in Worker : v # w => ~Holds(v, c.key)
  BY <1>0, <1>4, <1>5 DEF OneRunPerGeneration, Holds
<1>12. Claimed'
  <2>1. ASSUME NEW j \in Key, row'[j].status = "in_flight"
        PROVE  crashes' > 0 \/ \E v \in Worker : Holds(v, j)'
    <3>1. row[j].status = "in_flight" /\ ~(hit /\ j = c.key)
      BY <1>2, <1>3, <2>1
    <3>2. ASSUME NEW v \in Worker, Holds(v, j)
          PROVE  Holds(v, j)'
      <4>1. v # w
        BY <1>4, <1>5, <3>1, <3>2 DEF Holds
      <4> QED BY <1>10, <3>2, <4>1
    <3>3. crashes > 0 \/ \E v \in Worker : Holds(v, j)
      BY <3>1 DEF Claimed
    <3>4. crashes' = crashes
      BY <1>1
    <3> QED BY <3>2, <3>3, <3>4
  <2>2. ASSUME NEW j \in Key, NEW v \in Worker, Holds(v, j)'
        PROVE  row'[j].status = "in_flight"
    <3>1. v # w /\ Holds(v, j)
      BY <1>10, <2>2
    <3>2. row[j].status = "in_flight" /\ ~(hit /\ j = c.key)
      BY <1>11, <3>1 DEF Claimed
    <3> QED BY <1>2, <3>2
  <2> QED BY <2>1, <2>2 DEF Claimed
<1>13. OneRunPerGeneration'
  BY <1>1 DEF OneRunPerGeneration
<1>14. Answered'
  BY <1>1 DEF Answered
<1>15. OkExists' /\ RunsBounded'
  BY <1>1, <1>2 DEF OkExists, RunsBounded
<1>16. DoneTookPlace'
  <2>1. hit /\ result[w] = "done" => row[c.key].generation \in ok[c.key]
    BY <1>4, <1>5 DEF Answered
  <2>2. ASSUME NEW j \in Key, row'[j].generation > 0, row'[j].status = "done"
        PROVE  row'[j].generation \in ok'[j]
    <3>1. CASE hit /\ j = c.key
      BY <1>1, <1>2, <1>3, <2>1, <2>2, <3>1
    <3>2. CASE ~(hit /\ j = c.key)
      BY <1>1, <1>2, <2>2, <3>2 DEF DoneTookPlace
    <3> QED BY <3>1, <3>2
  <2> QED BY <2>2 DEF DoneTookPlace
<1>17. NotOpen'
  <2>1. SUFFICES ASSUME crashes = 0, mode = "exec", NEW k \in Key, row[k].generation \in ok[k]
                 PROVE  /\ row'[k].status # "pending"
                        /\ \A v \in Worker : Holds(v, k)' => result'[v] = "done"
    BY <1>1, <1>2 DEF NotOpen
  <2>2. /\ row[k].status # "pending"
        /\ \A v \in Worker : Holds(v, k) => result[v] = "done"
    BY <2>1 DEF NotOpen
  <2>3. hit /\ k = c.key => result[w] = "done"
    BY <1>4, <1>9, <2>2
  <2>4. row'[k].status # "pending"
    BY <1>2, <1>3, <2>2, <2>3
  <2> QED BY <1>1, <1>10, <2>2, <2>4
<1>18. /\ \A j \in Key : ~(hit /\ j = c.key) => InFlight(j)' = InFlight(j)
       /\ \A j \in Key : hit /\ j = c.key => InFlight(j) = 1 /\ InFlight(j)' = 0
  <2>1. hit => row'[c.key].status # "in_flight"
    BY <1>3
  <2>2. \A j \in Key : j # c.key \/ ~hit => row'[j] = row[j]
    BY <1>2
  <2> QED BY <1>4, <2>1, <2>2 DEF InFlight
<1>19. Counted'
  <2>1. ASSUME NEW j \in Key, row'[j].status \in {"pending", "in_flight"}
        PROVE  /\ row'[j].generation > 0
               /\ runs[j][row'[j].generation] <= row'[j].attempts + InFlight(j)' + crashes
    <3>1. CASE hit /\ j = c.key
      <4>1. result[w] = "retry"
        BY <1>3, <2>1, <3>1
      <4>2. /\ row[j].generation > 0
            /\ runs[j][row[j].generation] <= row[j].attempts + 1 + crashes
        BY <1>4, <1>18, <3>1 DEF Counted
      <4>3. row'[j].attempts = row[j].attempts + 1 /\ row'[j].generation = row[j].generation
        BY <1>2, <3>1, <4>1
      <4> QED BY <1>0, <1>18, <3>1, <4>2, <4>3
    <3>2. CASE ~(hit /\ j = c.key)
      BY <1>2, <1>18, <2>1, <3>2 DEF Counted
    <3> QED BY <3>1, <3>2
  <2> QED BY <1>1, <1>2, <2>1 DEF Counted
<1>20. Spent'
  <2>1. SUFFICES ASSUME NEW k \in Key, row'[k].attempts >= MaxAttempts
                 PROVE  row'[k].attempts + InFlight(k)' + Cardinality(Late(k)')
                          < MaxAttempts + Cardinality(Worker)
    BY DEF Spent
  <2>2. Late(k)' = Late(k) /\ Late(k) \in SUBSET Worker
    BY <1>1, <1>2 DEF Late, Lists
  <2>3. Cardinality(Late(k)) \in Nat
    BY <2>2, Fewer
  <2>4. CASE row[k].attempts >= MaxAttempts
    <3>1. row[k].attempts + InFlight(k) + Cardinality(Late(k)) < MaxAttempts + Cardinality(Worker)
      BY <2>4 DEF Spent
    <3>2. CASE hit /\ k = c.key
      BY <1>0, <1>2, <1>18, <2>2, <2>3, <3>1, <3>2
    <3>3. CASE ~(hit /\ k = c.key)
      BY <1>2, <1>18, <2>2, <3>1, <3>3
    <3> QED BY <3>2, <3>3
  <2>5. CASE ~(row[k].attempts >= MaxAttempts)
    <3>1. hit /\ k = c.key /\ row'[k].attempts = row[k].attempts + 1
      BY <1>2, <2>1, <2>5
    <3>2. w \notin Late(k)
      BY <1>0, <1>5, <3>1 DEF Late, Lists, Listed
    <3>3. Cardinality(Late(k)) < Cardinality(Worker)
      BY <2>2, <3>2, Fewer
    <3> QED BY <1>0, <1>18, <2>2, <2>3, <2>5, <3>1, <3>3
  <2> QED BY <2>4, <2>5
<1> QED BY <1>6, <1>7, <1>8, <1>12, <1>13, <1>14, <1>15, <1>16, <1>17, <1>19, <1>20

\* What a caller shadows is not in flight, so the caller's mark falls flat.
LEMMA ShadowEndKeeps ==
  ASSUME EffectInv, NEW k \in Key, NEW o \in Outcomes, ShadowEnd(k, o)
  PROVE  EffectInv' /\ row' = row
<1> USE DEF EffectInv
<1>0. /\ mode = "shadow" /\ row[k].status # "in_flight"
      /\ ok \in [Key -> SUBSET Gen] /\ shadow \in [Key -> 0 .. MaxGen]
      /\ shadow[k] # 0 /\ shadow[k] <= row[k].generation
  BY EffectAssumption DEF ShadowEnd, Apart, EffectTypeOK
<1>1. row' = row
  <2> DEFINE r == [key |-> k, generation |-> shadow[k]]
  <2>1. ~Cas(r, "in_flight") /\ r.key = k
    BY <1>0 DEF Cas
  <2>2. Mark(r, o) /\ row \in [Key -> Row]
    BY DEF ShadowEnd, EffectTypeOK
  <2> HIDE DEF r
  <2> QED BY <2>1, <2>2, MarkDoes
<1>2. /\ UNCHANGED <<mode, todo, cur, result, runs, crashes>>
      /\ \A j \in Key : /\ shadow'[j] = IF j = k THEN 0 ELSE shadow[j]
                        /\ ok[j] \subseteq ok'[j]
                        /\ j # k => ok'[j] = ok[j]
      /\ ok'[k] \subseteq ok[k] \cup {shadow[k]}
  BY <1>0 DEF ShadowEnd, worker_vars
<1>3. EffectTypeOK'
  BY CallerTyped
<1>4. Apart'
  BY <1>0, <1>1, <1>2, RowFields, EffectAssumption DEF Apart, EffectTypeOK
<1>5. Listed' /\ Claimed' /\ OneRunPerGeneration' /\ Counted' /\ Spent' /\ RunsBounded'
  BY <1>1, <1>2 DEF Listed, Claimed, Holds, OneRunPerGeneration, Counted, InFlight,
                    Spent, Late, Lists, RunsBounded
<1>6. Answered'
  BY <1>0, <1>2 DEF Answered, Apart
<1>7. DoneTookPlace' /\ OkExists'
  BY <1>0, <1>1, <1>2 DEF DoneTookPlace, OkExists
<1>8. NotOpen'
  BY <1>0, <1>2 DEF NotOpen
<1> QED BY <1>1, <1>3, <1>4, <1>5, <1>6, <1>7, <1>8

LEMMA RipenKeeps ==
  ASSUME EffectInv, NEW k \in Key, Ripen(k)
  PROVE  EffectInv'
<1> USE DEF EffectInv
<1>1. /\ UNCHANGED <<mode, todo, cur, result, shadow, runs, ok, crashes>>
      /\ \A j \in Key : /\ row'[j].generation = row[j].generation
                        /\ row'[j].status = row[j].status
                        /\ row'[j].attempts = row[j].attempts
  BY DEF Ripen, worker_vars, EffectTypeOK, Row
<1>2. EffectTypeOK'
  BY CallerTyped
<1>3. \A w \in Worker : /\ \A r \in todo[w] : r.key \in Key
                        /\ cur[w] # Nothing => cur[w].key \in Key
  BY ListedRow, Held
<1>4. \A j \in Key : /\ Late(j)' = Late(j) /\ InFlight(j)' = InFlight(j)
                     /\ \A w \in Worker : Holds(w, j)' <=> Holds(w, j)
  BY <1>1 DEF Late, Lists, InFlight, Holds
<1>5. Apart' /\ Listed' /\ Claimed'
  BY <1>1, <1>3, <1>4 DEF Apart, Listed, Claimed
<1>6. OneRunPerGeneration' /\ Answered' /\ DoneTookPlace' /\ OkExists' /\ RunsBounded'
  BY <1>1 DEF OneRunPerGeneration, Answered, DoneTookPlace, OkExists, RunsBounded
<1>7. NotOpen' /\ Counted' /\ Spent'
  BY <1>1, <1>4 DEF NotOpen, Counted, Spent
<1> QED BY <1>2, <1>5, <1>6, <1>7

LEMMA RestartKeeps ==
  ASSUME EffectInv, NEW m \in Modes, Restart(m)
  PROVE  EffectInv'
<1> USE DEF EffectInv
<1>0. /\ MaxAttempts \in Nat /\ crashes \in Nat /\ Cardinality(Worker) \in Nat \ {0}
      /\ runs \in [Key -> [Gen -> Nat]]
      /\ \A j \in Key : row[j].generation \in 0 .. MaxGen /\ row[j].attempts \in Nat
  BY EffectAssumption, SomeWorker, RowFields DEF EffectTypeOK
<1>1. /\ crashes' = crashes + 1 /\ runs' = runs /\ ok' = ok
      /\ \A w \in Worker : todo'[w] = {} /\ cur'[w] = Nothing /\ result'[w] = "none"
      /\ \A j \in Key : shadow'[j] = 0
  BY DEF Restart
<1>2. \A j \in Key : /\ row'[j].generation = row[j].generation
                     /\ row'[j].attempts = row[j].attempts
                     /\ \/ row'[j].status = row[j].status
                        \/ row[j].status = "in_flight" /\ row'[j].status = "pending"
  BY RowsReplayed DEF Restart, EffectTypeOK
<1>3. EffectTypeOK'
  BY RestartTyped
<1>4. Apart' /\ Listed' /\ Claimed' /\ OneRunPerGeneration' /\ Answered'
  BY <1>0, <1>1, <1>2 DEF Apart, Listed, Claimed, Holds, OneRunPerGeneration, Answered
<1>5. DoneTookPlace' /\ OkExists' /\ NotOpen'
  BY <1>0, <1>1, <1>2 DEF DoneTookPlace, OkExists, NotOpen
<1>6. Counted'
  <2>1. ASSUME NEW j \in Key, row'[j].status \in {"pending", "in_flight"}
        PROVE  /\ row'[j].generation > 0
               /\ runs[j][row'[j].generation] <= row'[j].attempts + InFlight(j)' + crashes'
    <3>1. /\ row[j].generation > 0
          /\ runs[j][row[j].generation] <= row[j].attempts + InFlight(j) + crashes
      BY <1>2, <2>1 DEF Counted
    <3>2. runs[j][row[j].generation] \in Nat
      BY <1>0, <3>1, EffectAssumption DEF Gen
    <3>3. InFlight(j) \in 0 .. 1 /\ InFlight(j)' \in 0 .. 1
      BY DEF InFlight
    <3> QED BY <1>0, <1>1, <1>2, <3>1, <3>2, <3>3
  <2> QED BY <1>1, <1>2, <2>1 DEF Counted
<1>7. Spent'
  <2>1. \A j \in Key : /\ Late(j)' = {}
                       /\ InFlight(j)' \in 0 .. 1 /\ InFlight(j)' <= InFlight(j)
    BY <1>1, <1>2 DEF Late, Lists, InFlight
  <2>2. ASSUME NEW j \in Key, row[j].attempts >= MaxAttempts
        PROVE  row[j].attempts + InFlight(j)' + 0 < MaxAttempts + Cardinality(Worker)
    <3>1. Late(j) \in SUBSET Worker
      BY DEF Late
    <3>2. Cardinality(Late(j)) \in Nat /\ InFlight(j) \in 0 .. 1
      BY <3>1, Fewer DEF InFlight
    <3>3. row[j].attempts + InFlight(j) + Cardinality(Late(j)) < MaxAttempts + Cardinality(Worker)
      BY <2>2 DEF Spent
    <3> QED BY <1>0, <2>1, <3>2, <3>3
  <2>3. ASSUME NEW j \in Key, row'[j].attempts >= MaxAttempts
        PROVE  row'[j].attempts + InFlight(j)' + Cardinality(Late(j)')
                 < MaxAttempts + Cardinality(Worker)
    <3>1. Cardinality(Late(j)') = 0
      BY <2>1, FS_EmptySet
    <3> QED BY <1>2, <2>2, <2>3, <3>1
  <2> QED BY <2>3 DEF Spent
<1>8. RunsBounded'
  BY <1>0, <1>1 DEF RunsBounded
<1> QED BY <1>3, <1>4, <1>5, <1>6, <1>7, <1>8

---------------------------------------------------------------------------
(* The invariant, and what follows from it *)

LEMMA InitKeeps == Init => EffectInv
<1> SUFFICES ASSUME Init PROVE EffectInv
  OBVIOUS
<1>0. MaxAttempts \in Nat /\ MaxGen \in Nat /\ MaxCrash \in Nat
      /\ Cardinality(Worker) \in Nat \ {0}
  BY EffectAssumption, SomeWorker
<1>1. EffectTypeOK
  <2>1. row \in [Key -> Row]
    BY <1>0 DEF Init, Row, Status
  <2>2. runs \in [Key -> [Gen -> Nat]] /\ ok \in [Key -> SUBSET Gen]
    BY DEF Init
  <2>3. shadow \in [Key -> 0 .. MaxGen] /\ crashes \in 0 .. MaxCrash
    BY <1>0 DEF Init
  <2>4. /\ todo \in [Worker -> SUBSET IntentRow]
        /\ cur \in [Worker -> IntentRow \cup {Nothing}]
        /\ result \in [Worker -> Outcome]
    BY DEF Init, Outcome
  <2> QED BY <2>1, <2>2, <2>3, <2>4 DEF Init, EffectTypeOK
<1>2. /\ \A j \in Key : /\ row[j].generation = 0 /\ row[j].status = "done"
                        /\ row[j].attempts = 0 /\ ok[j] = {} /\ shadow[j] = 0
                        /\ \A g \in Gen : runs[j][g] = 0
      /\ \A w \in Worker : todo[w] = {} /\ cur[w] = Nothing /\ result[w] = "none"
      /\ crashes = 0
  BY DEF Init
<1>3. Apart /\ Listed /\ Claimed /\ OneRunPerGeneration /\ Answered
  BY <1>2 DEF Apart, Listed, Claimed, Holds, OneRunPerGeneration, Answered
<1>4. DoneTookPlace /\ OkExists /\ NotOpen /\ Counted
  BY <1>2 DEF DoneTookPlace, OkExists, NotOpen, Counted
<1>5. RunsBounded
  BY <1>0, <1>2 DEF RunsBounded
<1>6. Spent
  <2>1. \A j \in Key : Late(j) = {} /\ InFlight(j) = 0
    BY <1>2 DEF Late, Lists, InFlight
  <2>2. \A j \in Key : Cardinality(Late(j)) = 0
    BY <2>1, FS_EmptySet
  <2>3. 0 + 0 + 0 < MaxAttempts + Cardinality(Worker)
    BY <1>0
  <2> QED BY <1>2, <2>1, <2>2, <2>3 DEF Spent
<1> QED BY <1>1, <1>3, <1>4, <1>5, <1>6 DEF EffectInv

LEMMA CallerKeeps ==
  ASSUME EffectInv, NEW k \in Key, Enqueue(k) \/ ShadowStart(k)
  PROVE  EffectInv'
<1>1. EffectTypeOK'
  BY CallerTyped DEF EffectInv
<1>2. /\ row[k].generation < MaxGen /\ Upsert(k)
      /\ UNCHANGED <<mode, worker_vars, runs, ok, crashes>>
      /\ shadow' = shadow \/ (mode = "shadow"
                              /\ shadow' = [shadow EXCEPT ![k] = row'[k].generation])
  BY DEF Enqueue, ShadowStart
<1>3. /\ \A j \in Key : j # k => row'[j] = row[j]
      /\ row'[k].generation = row[k].generation + 1 /\ row'[k].status = "pending"
      /\ row[k].generation \in Nat
      /\ shadow \in [Key -> 0 .. MaxGen]
      /\ \A j \in Key : shadow[j] <= row[j].generation
  BY <1>2, RowUpserted, RowFields DEF EffectInv, EffectTypeOK, Apart
<1>4. \A j \in Key : shadow'[j] <= row'[j].generation
  BY <1>2, <1>3, EffectAssumption
<1>5. Apart'
  BY <1>2, <1>3, <1>4 DEF EffectInv, Apart, worker_vars
<1> QED BY <1>1, <1>2, <1>5, UpsertKeeps

LEMMA NextKeeps == EffectInv /\ [Next]_vars => EffectInv'
<1> SUFFICES ASSUME EffectInv, [Next]_vars PROVE EffectInv'
  OBVIOUS
<1>1. ASSUME NEW w \in Worker, Step(w) PROVE EffectInv'
  BY <1>1, FetchKeeps, ProcessKeeps, HandlerKeeps, RecordKeeps DEF Step, Outcomes
<1>2. ASSUME NEW k \in Key, Enqueue(k) \/ ShadowStart(k) PROVE EffectInv'
  BY <1>2, CallerKeeps
<1>3. ASSUME NEW k \in Key, Ripen(k) PROVE EffectInv'
  BY <1>3, RipenKeeps
<1>4. ASSUME NEW k \in Key, NEW o \in Outcomes, ShadowEnd(k, o) PROVE EffectInv'
  BY <1>4, ShadowEndKeeps
<1>5. ASSUME NEW m \in Modes, Restart(m) PROVE EffectInv'
  BY <1>5, RestartKeeps
<1>6. ASSUME UNCHANGED vars PROVE EffectInv'
  BY <1>6 DEF vars, worker_vars, EffectInv, EffectTypeOK, Apart, Listed, Claimed, Holds,
              OneRunPerGeneration, Answered, DoneTookPlace, OkExists, NotOpen, Counted,
              InFlight, Spent, Late, Lists, RunsBounded
<1> QED BY <1>1, <1>2, <1>3, <1>4, <1>5, <1>6 DEF Next, Outcomes

\* The inductive invariant of the intent table and its workers.
THEOREM EffectInvariant == Spec => []EffectInv
BY InitKeeps, NextKeeps, PTL DEF Spec

\* Rows, lists and claims keep their types, whoever enqueues, runs or crashes.
THEOREM EffectTypeCorrect == Spec => []EffectTypeOK
<1>1. EffectInv => EffectTypeOK
  BY DEF EffectInv
<1> QED BY <1>1, EffectInvariant, PTL

\* The compare-and-set of mark_in_flight lets one worker run a generation of an
\* intent, however many share the table and hold the row in their lists.
THEOREM OneWorkerRuns == Spec => []OneRunPerGeneration
<1>1. EffectInv => OneRunPerGeneration
  BY DEF EffectInv
<1> QED BY <1>1, EffectInvariant, PTL

\* mark_done never closes a generation whose effect did not take place.
THEOREM DoneIsTrue == Spec => []DoneTookPlace
<1>1. EffectInv => DoneTookPlace
  BY DEF EffectInv
<1> QED BY <1>1, EffectInvariant, PTL

\* effects.max_attempts bounds the handler's runs, but for one per restart and
\* one per further worker with an older list.
THEOREM AttemptsBounded == Spec => []RunsBounded
<1>1. EffectInv => RunsBounded
  BY DEF EffectInv
<1> QED BY <1>1, EffectInvariant, PTL

\* While nothing crashes, the worker does not start a handler for a generation
\* that took place.
THEOREM NoSecondEffect == Spec => NotRepeated
<1>1. ASSUME EffectInv, [Next]_vars
      PROVE  [crashes = 0 => \A k \in Key : \A g \in ok[k] : runs'[k][g] = runs[k][g]]_vars
  <2>1. CASE runs' = runs
    BY <2>1
  <2>2. CASE runs' # runs
    <3>0. PICK w \in Worker : \E r \in todo[w] : Process(w, r)
      <4>1. ~UNCHANGED vars
        BY <2>2 DEF vars
      <4>2. \A k \in Key : /\ ~Enqueue(k) /\ ~ShadowStart(k) /\ ~Ripen(k)
                          /\ \A o \in Outcome \ {"none"} : ~ShadowEnd(k, o)
        BY <2>2 DEF Enqueue, ShadowStart, Ripen, ShadowEnd
      <4>3. \A m \in Modes : ~Restart(m)
        BY <2>2 DEF Restart
      <4>4. \A v \in Worker : /\ ~Fetch(v) /\ ~Record(v)
                             /\ \A o \in Outcome \ {"none"} : ~HandlerReturns(v, o)
        BY <2>2 DEF Fetch, Record, HandlerReturns
      <4> QED BY <1>1, <4>1, <4>2, <4>3, <4>4 DEF Next, Step
    <3>1. PICK r \in todo[w] : Process(w, r)
      BY <3>0
    <3>2. /\ CanClaim(r) /\ runs' = [runs EXCEPT ![r.key][r.generation] = @ + 1]
          /\ mode = "exec" /\ r.key \in Key /\ r.generation \in Gen
      BY <1>1, <2>2, <3>1, ProcessDoes, ListedRow DEF EffectInv
    <3>3. crashes = 0 => r.generation \notin ok[r.key]
      BY <1>1, <3>2 DEF EffectInv, NotOpen, CanClaim, Cas
    <3>4. runs \in [Key -> [Gen -> Nat]] /\ ok \in [Key -> SUBSET Gen]
      BY <1>1 DEF EffectInv, EffectTypeOK
    <3> QED BY <3>2, <3>3, <3>4
  <2> QED BY <2>1, <2>2
<1> QED BY <1>1, EffectInvariant, PTL DEF Spec, NotRepeated
=============================================================================
