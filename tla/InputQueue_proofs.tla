------------------------- MODULE InputQueue_proofs -------------------------
(***************************************************************************)
(* Proofs about the queue table, for any number of sessions, keys and rows *)
(* and any capacity and TTL.  The argument: whatever an operation does, it *)
(* either rewrites rows in place without reviving one (Rewrites) or adds   *)
(* one row that the two guards of the insert let in (Adds).                *)
(***************************************************************************)
EXTENDS InputQueue, TLAPS, SequenceTheorems, FiniteSetTheorems, WellFoundedInduction

\* An operation on existing rows: no row changes its session or its key, none
\* becomes active that was not, and a terminal one is left alone or purged.
Rewrites ==
  /\ rows' \in Seq(Row)
  /\ Len(rows') = Len(rows)
  /\ \A i \in 1 .. Len(rows) :
       /\ rows'[i].session = rows[i].session
       /\ rows'[i].key = rows[i].key
       /\ rows'[i].status \in ActiveStatus => rows[i].status \in ActiveStatus
       /\ rows[i].status \in TerminalStatus =>
            rows'[i] = rows[i] \/ rows'[i].status = "GONE"

\* An insert: an active row, when its key is free and its session has room.
Adds(s, k) ==
  /\ HasRoom(s) /\ KeyFree(k)
  /\ \E r \in Row : /\ r.session = s /\ r.key = k /\ r.status \in ActiveStatus
                    /\ rows' = Append(rows, r)

\* The inductive invariant.
QueueInv == StoreTypeOK /\ ActiveKeyUnique /\ CapRespected

---------------------------------------------------------------------------
(* Lemmas about the table and its order *)

\* The rows of a table are its first Len(rows) positions, each holding a Row.
LEMMA RowsAreRows ==
  ASSUME StoreTypeOK
  PROVE  /\ Len(rows) \in Nat
         /\ DOMAIN rows = 1 .. Len(rows)
         /\ \A i \in 1 .. Len(rows) : rows[i] \in Row
  BY LenProperties, ElementOfSeq DEF StoreTypeOK

\* A set of row numbers that is not empty has a least one.
LEMMA LeastRow ==
  ASSUME NEW R \in SUBSET Nat, R # {}
  PROVE  \E i \in R : \A j \in R : i <= j
<1>1. \E i \in R : \A j \in R : ~ (<<j, i>> \in OpToRel(<, Nat))
  BY WFMin, NatLessThanWellFounded
<1>2. PICK i \in R : \A j \in R : ~ (<<j, i>> \in OpToRel(<, Nat))
  BY <1>1
<1>3. ASSUME NEW j \in R PROVE i <= j
  <2>1. <<j, i>> \in Nat \X Nat
    OBVIOUS
  <2>2. ~ (j < i)
    BY <1>2, <2>1 DEF OpToRel
  <2> QED BY <2>2
<1> QED BY <1>3

\* The claim's ORDER BY picks a row of the set it ranks, and every other row
\* of that set comes after it.
LEMMA FirstIsAhead ==
  ASSUME StoreTypeOK, NEW R \in SUBSET (1 .. Len(rows)), R # {}
  PROVE  /\ First(R) \in R
         /\ \A j \in R \ {First(R)} : Ahead(First(R), j)
<1> DEFINE Top == {i \in R : rows[i].priority = 1}
<1>1. \A i \in R : i \in Nat /\ rows[i].priority \in {0, 1}
  <2>1. \A i \in 1 .. Len(rows) : i \in Nat /\ rows[i] \in Row
    BY RowsAreRows
  <2> QED BY <2>1 DEF Row
<1>2. \E i \in R : \A j \in R \ {i} : Ahead(i, j)
  <2>1. CASE Top # {}
    <3>1. Top \in SUBSET Nat
      BY <1>1
    <3>2. PICK i \in Top : \A j \in Top : i <= j
      BY <2>1, <3>1, LeastRow
    <3>3. ASSUME NEW j \in R \ {i} PROVE Ahead(i, j)
      <4>1. /\ i \in Nat /\ j \in Nat
            /\ rows[i].priority = 1 /\ rows[j].priority \in {0, 1}
        BY <1>1, <3>2
      <4>2. CASE rows[j].priority = 1
        <5>1. i <= j /\ i # j
          BY <3>2, <4>2
        <5> QED BY <4>1, <4>2, <5>1 DEF Ahead
      <4>3. CASE rows[j].priority = 0
        BY <4>1, <4>3 DEF Ahead
      <4> QED BY <4>1, <4>2, <4>3
    <3>4. i \in R
      BY <3>2
    <3> QED BY <3>3, <3>4
  <2>2. CASE Top = {}
    <3>1. R \in SUBSET Nat
      BY <1>1
    <3>2. PICK i \in R : \A j \in R : i <= j
      BY <3>1, LeastRow
    <3>3. ASSUME NEW j \in R \ {i} PROVE Ahead(i, j)
      <4>1. i \in Nat /\ j \in Nat /\ rows[i].priority = 0 /\ rows[j].priority = 0
        BY <1>1, <2>2
      <4>2. i <= j /\ i # j
        BY <3>2
      <4> QED BY <4>1, <4>2 DEF Ahead
    <3> QED BY <3>2, <3>3
  <2> QED BY <2>1, <2>2
<1> QED BY <1>2 DEF First

\* The set statements write: a row gets the status and the clock, the others
\* stay as they are.
LEMMA SetStatusWrites ==
  ASSUME StoreTypeOK, NEW R, NEW st \in RowStatus, SetStatus(R, st)
  PROVE  /\ rows' \in Seq(Row)
         /\ Len(rows') = Len(rows)
         /\ \A i \in 1 .. Len(rows) :
              rows'[i] = IF i \in R
                           THEN [rows[i] EXCEPT !.status = st, !.updated_at = now]
                           ELSE rows[i]
<1>1. /\ Len(rows) \in Nat /\ DOMAIN rows = 1 .. Len(rows) /\ now \in Nat
      /\ \A i \in 1 .. Len(rows) : rows[i] \in Row
  BY RowsAreRows DEF StoreTypeOK
<1>2. \A i \in 1 .. Len(rows) :
        [rows[i] EXCEPT !.status = st, !.updated_at = now] \in Row
  BY <1>1 DEF Row
<1>3. rows' \in [1 .. Len(rows) -> Row]
  BY <1>1, <1>2 DEF SetStatus
<1>4. rows' \in Seq(Row) /\ DOMAIN rows' = 1 .. Len(rows)
  BY <1>1, <1>3, SeqDef
<1>5. Len(rows') = Len(rows)
  BY <1>1, <1>4, LenProperties
<1> QED BY <1>1, <1>4, <1>5 DEF SetStatus

---------------------------------------------------------------------------
(* What each operation does to the table *)

\* A status write that only touches active rows, or that keeps active rows
\* active, rewrites the table.
LEMMA SetStatusRewrites ==
  ASSUME StoreTypeOK, NEW R, NEW st \in RowStatus, SetStatus(R, st),
         \A i \in R \cap (1 .. Len(rows)) : rows[i].status \in ActiveStatus
  PROVE  Rewrites
<1>1. \A i \in 1 .. Len(rows) : rows[i] \in Row
  BY RowsAreRows
<1>2. rows' \in Seq(Row) /\ Len(rows') = Len(rows)
  BY SetStatusWrites
<1>3. ASSUME NEW i \in 1 .. Len(rows)
      PROVE  /\ rows'[i].session = rows[i].session
             /\ rows'[i].key = rows[i].key
             /\ rows'[i].status \in ActiveStatus => rows[i].status \in ActiveStatus
             /\ rows[i].status \in TerminalStatus =>
                  rows'[i] = rows[i] \/ rows'[i].status = "GONE"
  <2>1. CASE i \in R
    <3>1. rows'[i] = [rows[i] EXCEPT !.status = st, !.updated_at = now]
      BY <2>1, SetStatusWrites
    <3>2. rows[i].status \in ActiveStatus /\ rows[i].status \notin TerminalStatus
      BY <2>1 DEF ActiveStatus, TerminalStatus
    <3> QED BY <1>1, <3>1, <3>2 DEF Row
  <2>2. CASE i \notin R
    <3>1. rows'[i] = rows[i]
      BY <2>2, SetStatusWrites
    <3> QED BY <3>1
  <2> QED BY <2>1, <2>2
<1> QED BY <1>2, <1>3 DEF Rewrites

\* The two inserts add a row behind the guards.
LEMMA InsertAdds ==
  ASSUME StoreTypeOK, NEW s \in Session, NEW k \in Key \cup {NoKey},
         NEW st \in ActiveStatus, HasRoom(s), KeyFree(k), Insert(s, k, st)
  PROVE  Adds(s, k)
<1>1. /\ NewRow(s, k, st) \in Row
      /\ NewRow(s, k, st).session = s /\ NewRow(s, k, st).key = k
      /\ NewRow(s, k, st).status = st
  BY DEF NewRow, Row, RowStatus, StoreTypeOK
<1>2. rows' = Append(rows, NewRow(s, k, st))
  BY DEF Insert
<1> QED BY <1>1, <1>2 DEF Adds

\* Every step of the queue adds a row or rewrites the table, and the clock
\* stays a natural number.
LEMMA StepShape ==
  ASSUME StoreTypeOK, [StoreNext]_store_vars
  PROVE  /\ Rewrites \/ \E s \in Session, k \in Key \cup {NoKey} : Adds(s, k)
         /\ now' \in Nat
<1>1. /\ Len(rows) \in Nat /\ DOMAIN rows = 1 .. Len(rows) /\ now \in Nat
      /\ \A i \in 1 .. Len(rows) : rows[i] \in Row
  BY RowsAreRows DEF StoreTypeOK
<1>2. {"QUEUED", "CLAIMED", "VOIDED"} \cup TerminalStatus \subseteq RowStatus
  BY DEF RowStatus, ActiveStatus, TerminalStatus
<1>3. CASE UNCHANGED store_vars
  BY <1>1, <1>3 DEF store_vars, Rewrites, StoreTypeOK
<1>4. ASSUME NEW s \in Session, NEW k \in Key \cup {NoKey},
             Enqueue(s, k) \/ InsertClaimed(s, k)
      PROVE  Adds(s, k) /\ now' \in Nat
  BY <1>1, <1>4, InsertAdds DEF Enqueue, InsertClaimed, ActiveStatus
<1>5. ASSUME NEW s \in Session, ClaimNext(s)
      PROVE  Rewrites /\ now' \in Nat
  <2>1. Claimable(s) \in SUBSET (1 .. Len(rows)) /\ Claimable(s) # {}
    BY <1>1, <1>5 DEF ClaimNext, Claimable, ActiveRows
  <2>2. First(Claimable(s)) \in Claimable(s)
    BY <2>1, FirstIsAhead
  <2>3. \A i \in {First(Claimable(s))} \cap (1 .. Len(rows)) :
          rows[i].status \in ActiveStatus
    BY <2>2 DEF Claimable, ActiveRows, Active
  <2>4. SetStatus({First(Claimable(s))}, "CLAIMED") /\ now' = now
    BY <1>5 DEF ClaimNext
  <2> QED BY <1>1, <1>2, <2>3, <2>4, SetStatusRewrites
<1>6. ASSUME NEW s \in Session, RequeueClaimed(s)
      PROVE  Rewrites /\ now' \in Nat
  <2>1. SetStatus(ClaimedRows(s), "QUEUED") /\ now' = now
    BY <1>6 DEF RequeueClaimed
  <2>2. \A i \in ClaimedRows(s) \cap (1 .. Len(rows)) : rows[i].status \in ActiveStatus
    BY DEF ClaimedRows, ActiveRows, Active
  <2> QED BY <1>1, <1>2, <2>1, <2>2, SetStatusRewrites
<1>7. ASSUME NEW s \in Session, Recover(s)
      PROVE  Rewrites /\ now' \in Nat
  <2> DEFINE Old == {i \in ActiveRows(s) : Expired(i)}
  <2>1. SetStatus(Old, "VOIDED") /\ now' = now
    BY <1>7 DEF Recover
  <2>2. \A i \in Old \cap (1 .. Len(rows)) : rows[i].status \in ActiveStatus
    BY DEF ActiveRows, Active
  <2> QED BY <1>1, <1>2, <2>1, <2>2, SetStatusRewrites
<1>8. ASSUME NEW s \in Session, DeleteSession(s)
      PROVE  Rewrites /\ now' \in Nat
  <2>1. /\ DOMAIN rows' = 1 .. Len(rows) /\ now' = now
        /\ \A i \in 1 .. Len(rows) :
             rows'[i] = IF rows[i].session = s THEN [rows[i] EXCEPT !.status = "GONE"]
                                               ELSE rows[i]
    BY <1>1, <1>8 DEF DeleteSession
  <2>2. \A i \in 1 .. Len(rows) : [rows[i] EXCEPT !.status = "GONE"] \in Row
    BY <1>1 DEF Row, RowStatus
  <2>3. rows' \in [1 .. Len(rows) -> Row]
    BY <1>1, <1>8, <2>2 DEF DeleteSession
  <2>4. rows' \in Seq(Row) /\ Len(rows') = Len(rows)
    BY <1>1, <2>1, <2>3, SeqDef, LenProperties
  <2>5. "GONE" \notin ActiveStatus
    BY DEF ActiveStatus
  <2> QED BY <1>1, <2>1, <2>4, <2>5 DEF Rewrites, Row
<1>9. ASSUME NEW s \in Session, NEW i \in DOMAIN rows, Prioritize(s, i)
      PROVE  Rewrites /\ now' \in Nat
  <2> DEFINE r == [rows[i] EXCEPT !.priority = 1, !.updated_at = now]
  <2>1. rows' = [rows EXCEPT ![i] = r] /\ now' = now /\ rows[i].status = "QUEUED"
    BY <1>9 DEF Prioritize, Queued
  <2>2. /\ r \in Row /\ r.session = rows[i].session
        /\ r.key = rows[i].key /\ r.status = rows[i].status
    BY <1>1 DEF Row
  <2>3. /\ rows' \in Seq(Row) /\ Len(rows') = Len(rows)
        /\ \A j \in 1 .. Len(rows) : rows'[j] = IF j = i THEN r ELSE rows[j]
    BY <1>1, <2>1, <2>2, ExceptSeq DEF StoreTypeOK
  <2>4. rows[i].status \notin TerminalStatus
    BY <2>1 DEF TerminalStatus
  <2> HIDE DEF r
  <2> QED BY <1>1, <2>1, <2>2, <2>3, <2>4 DEF Rewrites
<1>10. ASSUME NEW i \in DOMAIN rows, CancelQueued(i) \/ UpdatePayload(i)
       PROVE  Rewrites /\ now' \in Nat
  <2>1. PICK st \in {"VOIDED", "QUEUED"} : SetStatus({i}, st)
    BY <1>10 DEF CancelQueued, UpdatePayload
  <2>2. now' = now /\ rows[i].status \in ActiveStatus
    BY <1>10 DEF CancelQueued, UpdatePayload, Queued, ActiveStatus
  <2> QED BY <1>1, <1>2, <2>1, <2>2, SetStatusRewrites
<1>11. ASSUME NEW i \in DOMAIN rows, NEW st \in TerminalStatus, MarkTerminal(i, st)
       PROVE  Rewrites /\ now' \in Nat
  <2>1. SetStatus({i}, st) /\ now' = now /\ rows[i].status \in ActiveStatus
    BY <1>11 DEF MarkTerminal, Active
  <2> QED BY <1>1, <1>2, <2>1, SetStatusRewrites
<1>12. CASE Tick
  BY <1>1, <1>12 DEF Tick, Rewrites, StoreTypeOK
<1> QED
  BY <1>3, <1>4, <1>5, <1>6, <1>7, <1>8, <1>9, <1>10, <1>11, <1>12 DEF StoreNext

---------------------------------------------------------------------------
(* Consequences of the shape of a step *)

\* The length, the positions and the rows of the table after an insert.
LEMMA AddsAppends ==
  ASSUME StoreTypeOK, NEW s \in Session, NEW k \in Key \cup {NoKey}, Adds(s, k)
  PROVE  /\ rows' \in Seq(Row) /\ Len(rows') = Len(rows) + 1
         /\ \A i \in 1 .. Len(rows) : rows'[i] = rows[i]
         /\ rows'[Len(rows')].session = s /\ rows'[Len(rows')].key = k
         /\ rows'[Len(rows')].status \in ActiveStatus
<1>1. PICK r \in Row : /\ r.session = s /\ r.key = k /\ r.status \in ActiveStatus
                       /\ rows' = Append(rows, r)
  BY DEF Adds
<1>2. rows \in Seq(Row)
  BY DEF StoreTypeOK
<1> QED BY <1>1, <1>2, AppendProperties

\* A client_msg_id stays with one active row: a rewrite makes no row active,
\* and an insert found the key free.
LEMMA StepKeepsKeysUnique ==
  ASSUME StoreTypeOK, ActiveKeyUnique, [StoreNext]_store_vars
  PROVE  ActiveKeyUnique'
<1>1. Len(rows) \in Nat /\ DOMAIN rows = 1 .. Len(rows)
  BY RowsAreRows
<1>2. CASE Rewrites
  <2>1. DOMAIN rows' = 1 .. Len(rows)
    BY <1>1, <1>2, LenProperties DEF Rewrites
  <2> QED BY <1>1, <1>2, <2>1 DEF Rewrites, ActiveKeyUnique, Active
<1>3. ASSUME NEW s \in Session, NEW k \in Key \cup {NoKey}, Adds(s, k)
      PROVE  ActiveKeyUnique'
  <2>1. /\ DOMAIN rows' = 1 .. Len(rows) + 1
        /\ \A i \in 1 .. Len(rows) : rows'[i] = rows[i]
        /\ rows'[Len(rows) + 1].key = k
    BY <1>1, <1>3, AddsAppends, LenProperties
  <2>2. k = NoKey \/ \A i \in 1 .. Len(rows) :
                       rows[i].key = k => rows[i].status \notin ActiveStatus
    BY <1>1, <1>3 DEF Adds, KeyFree, ActiveByKey, Active
  <2>3. ASSUME NEW i \in 1 .. Len(rows) + 1, NEW j \in 1 .. Len(rows) + 1,
               rows'[i].status \in ActiveStatus, rows'[j].status \in ActiveStatus,
               rows'[i].key = rows'[j].key, rows'[i].key # NoKey
        PROVE  i = j
    <3>1. CASE i \in 1 .. Len(rows) /\ j \in 1 .. Len(rows)
      BY <1>1, <2>1, <2>3, <3>1 DEF ActiveKeyUnique, Active
    <3>2. CASE i = Len(rows) + 1 /\ j \in 1 .. Len(rows)
      BY <2>1, <2>2, <2>3, <3>2
    <3>3. CASE j = Len(rows) + 1 /\ i \in 1 .. Len(rows)
      BY <2>1, <2>2, <2>3, <3>3
    <3> QED BY <1>1, <3>1, <3>2, <3>3
  <2> QED BY <2>1, <2>3 DEF ActiveKeyUnique, Active
<1> QED BY <1>2, <1>3, StepShape

\* The capacity holds: a rewrite can only shrink the active rows of a session,
\* and an insert found room.
LEMMA StepKeepsCap ==
  ASSUME StoreTypeOK, CapRespected, [StoreNext]_store_vars
  PROVE  CapRespected'
<1>1. Len(rows) \in Nat /\ DOMAIN rows = 1 .. Len(rows) /\ Cap \in Nat
  BY RowsAreRows, QueueAssumption
<1> SUFFICES ASSUME NEW s \in Session PROVE Cardinality(ActiveRows(s)') <= Cap
  BY DEF CapRespected
<1>2. IsFiniteSet(1 .. Len(rows))
  BY <1>1, FS_Interval
<1>3. IsFiniteSet(ActiveRows(s)) /\ Cardinality(ActiveRows(s)) \in Nat
  <2>1. ActiveRows(s) \in SUBSET (1 .. Len(rows))
    BY <1>1 DEF ActiveRows
  <2> QED BY <1>2, <2>1, FS_Subset, FS_CardinalityType
<1>4. CASE Rewrites
  <2>1. DOMAIN rows' = 1 .. Len(rows)
    BY <1>1, <1>4, LenProperties DEF Rewrites
  <2>2. ActiveRows(s)' \in SUBSET ActiveRows(s)
    BY <1>1, <1>4, <2>1 DEF Rewrites, ActiveRows, Active
  <2>3. IsFiniteSet(ActiveRows(s)') /\ Cardinality(ActiveRows(s)') <= Cardinality(ActiveRows(s))
    BY <1>3, <2>2, FS_Subset
  <2>4. Cardinality(ActiveRows(s)') \in Nat
    BY <2>3, FS_CardinalityType
  <2> QED BY <1>1, <1>3, <2>3, <2>4 DEF CapRespected
<1>5. ASSUME NEW t \in Session, NEW k \in Key \cup {NoKey}, Adds(t, k)
      PROVE  Cardinality(ActiveRows(s)') <= Cap
  <2>1. /\ DOMAIN rows' = 1 .. Len(rows) + 1
        /\ \A i \in 1 .. Len(rows) : rows'[i] = rows[i]
        /\ rows'[Len(rows) + 1].session = t
        /\ rows'[Len(rows) + 1].status \in ActiveStatus
    BY <1>1, <1>5, AddsAppends, LenProperties
  <2>2. CASE s # t
    <3>1. ActiveRows(s)' = ActiveRows(s)
      BY <1>1, <2>1, <2>2 DEF ActiveRows, Active
    <3> QED BY <3>1 DEF CapRespected
  <2>3. CASE s = t
    <3>1. ActiveRows(s)' = ActiveRows(s) \cup {Len(rows) + 1}
      BY <1>1, <2>1, <2>3 DEF ActiveRows, Active
    <3>2. Len(rows) + 1 \notin ActiveRows(s)
      BY <1>1 DEF ActiveRows
    <3>3. Cardinality(ActiveRows(s)') = Cardinality(ActiveRows(s)) + 1
      BY <1>3, <3>1, <3>2, FS_AddElement
    <3>4. Cardinality(ActiveRows(s)) < Cap
      BY <1>5, <2>3 DEF Adds, HasRoom
    <3> QED BY <1>1, <1>3, <3>3, <3>4
  <2> QED BY <2>2, <2>3
<1> QED BY <1>4, <1>5, StepShape

---------------------------------------------------------------------------
(* Theorems *)

\* The empty table satisfies the invariant.
LEMMA InitHasInv == StoreInit => QueueInv
<1> SUFFICES ASSUME StoreInit PROVE QueueInv
  OBVIOUS
<1>1. rows = <<>> /\ now = 0
  BY DEF StoreInit
<1>2. StoreTypeOK
  BY <1>1, EmptySeq DEF StoreTypeOK
<1>3. DOMAIN rows = {}
  BY <1>1
<1>4. ActiveKeyUnique
  BY <1>3 DEF ActiveKeyUnique
<1>5. ASSUME NEW s \in Session PROVE Cardinality(ActiveRows(s)) <= Cap
  <2>1. ActiveRows(s) = {}
    BY <1>3 DEF ActiveRows
  <2> QED BY <2>1, FS_EmptySet, QueueAssumption
<1> QED BY <1>2, <1>4, <1>5 DEF QueueInv, CapRespected

\* Every operation keeps the invariant.
LEMMA StepKeepsInv == QueueInv /\ [StoreNext]_store_vars => QueueInv'
<1> SUFFICES ASSUME QueueInv, [StoreNext]_store_vars PROVE QueueInv'
  OBVIOUS
<1>1. StoreTypeOK /\ ActiveKeyUnique /\ CapRespected
  BY DEF QueueInv
<1>2. StoreTypeOK'
  <2>1. rows' \in Seq(Row)
    BY <1>1, StepShape, AddsAppends DEF Rewrites
  <2> QED BY <1>1, <2>1, StepShape DEF StoreTypeOK
<1> QED BY <1>1, <1>2, StepKeepsKeysUnique, StepKeepsCap DEF QueueInv

\* The invariant of the table, for every behaviour of the queue.
THEOREM QueueInvariant == StoreSpec => []QueueInv
  BY InitHasInv, StepKeepsInv, PTL DEF StoreSpec

\* Type correctness: user_input_queue.py keeps the table a sequence of rows.
THEOREM TypeCorrect == StoreSpec => []StoreTypeOK
<1>1. QueueInv => StoreTypeOK
  BY DEF QueueInv
<1> QED BY <1>1, QueueInvariant, PTL

\* The dedup of enqueue and submit_user_input is sound: two active rows never
\* carry the same client_msg_id.
THEOREM KeysStayUnique == StoreSpec => []ActiveKeyUnique
<1>1. QueueInv => ActiveKeyUnique
  BY DEF QueueInv
<1> QED BY <1>1, QueueInvariant, PTL

\* MAX_ACTIVE_PER_SESSION is never exceeded, by either insert path.
THEOREM CapHolds == StoreSpec => []CapRespected
<1>1. QueueInv => CapRespected
  BY DEF QueueInv
<1> QED BY <1>1, QueueInvariant, PTL

\* A terminal row is final: no operation of the store revives or rewrites it.
THEOREM TerminalStaysFinal == StoreSpec => TerminalFinal
<1>1. QueueInv /\ [StoreNext]_store_vars
        => [\A i \in DOMAIN rows : rows[i].status \in TerminalStatus =>
              rows'[i] = rows[i] \/ rows'[i].status = "GONE"]_store_vars
  <2> SUFFICES ASSUME QueueInv, [StoreNext]_store_vars,
                      NEW i \in DOMAIN rows, rows[i].status \in TerminalStatus
               PROVE  rows'[i] = rows[i] \/ rows'[i].status = "GONE"
    OBVIOUS
  <2>1. StoreTypeOK /\ DOMAIN rows = 1 .. Len(rows)
    BY RowsAreRows DEF QueueInv
  <2>2. CASE Rewrites
    BY <2>1, <2>2 DEF Rewrites
  <2>3. ASSUME NEW s \in Session, NEW k \in Key \cup {NoKey}, Adds(s, k)
        PROVE  rows'[i] = rows[i]
    BY <2>1, <2>3, AddsAppends
  <2> QED BY <2>1, <2>2, <2>3, StepShape
<1> QED BY <1>1, QueueInvariant, PTL DEF StoreSpec, TerminalFinal

---------------------------------------------------------------------------
(* The order of claims *)

\* The row the claim takes may enter.
LEMMA ClaimTakesFirst ==
  ASSUME StoreTypeOK, NEW s \in Session, ClaimNext(s),
         NEW i \in DOMAIN rows, Enters(i)
  PROVE  MayEnter(i)
<1>1. /\ DOMAIN rows = 1 .. Len(rows) /\ now \in Nat /\ TTL \in Nat
      /\ \A j \in 1 .. Len(rows) :
           j \in Nat /\ rows[j].created_at \in Nat /\ rows[j].priority \in {0, 1}
  BY RowsAreRows, QueueAssumption DEF StoreTypeOK, Row
<1>2. Claimable(s) \in SUBSET (1 .. Len(rows)) /\ Claimable(s) # {}
  BY <1>1 DEF ClaimNext, Claimable, ActiveRows
<1>3. i = First(Claimable(s))
  <2> DEFINE R == {First(Claimable(s))}
  <2>1. SetStatus(R, "CLAIMED") /\ "CLAIMED" \in RowStatus
    BY DEF ClaimNext, RowStatus, ActiveStatus
  <2> HIDE DEF R
  <2>2. i \notin R => rows'[i] = rows[i]
    BY <1>1, <2>1, SetStatusWrites
  <2>3. i \in R
    BY <2>2 DEF Enters
  <2> QED BY <2>3 DEF R
<1>4. i \in Claimable(s) /\ \A j \in Claimable(s) \ {i} : Ahead(i, j)
  BY <1>2, <1>3, FirstIsAhead
<1>5. rows[i].session = s /\ now < rows[i].created_at + TTL
  BY <1>1, <1>4 DEF Claimable, ActiveRows, Expired
<1>6. ASSUME NEW j \in DOMAIN rows, rows[j].session = rows[i].session,
             rows[j].status = "QUEUED", now < rows[j].created_at + TTL, j # i
      PROVE  \/ rows[j].priority < rows[i].priority
             \/ rows[j].priority = rows[i].priority /\ i < j
  <2>1. j \in Claimable(s)
    BY <1>1, <1>5, <1>6 DEF Claimable, ActiveRows, Active, ActiveStatus, Queued, Expired
  <2>2. Ahead(i, j)
    BY <1>4, <1>6, <2>1
  <2> QED BY <1>1, <2>2 DEF Ahead
<1> QED BY <1>5, <1>6 DEF MayEnter

\* Only the claim moves a queued row into a turn.
LEMMA OnlyClaimEnters ==
  ASSUME StoreTypeOK, [StoreNext]_store_vars, NEW i \in DOMAIN rows, Enters(i)
  PROVE  \E s \in Session : ClaimNext(s)
<1>1. DOMAIN rows = 1 .. Len(rows) /\ \A j \in 1 .. Len(rows) : rows[j] \in Row
  BY RowsAreRows
<1>2. ASSUME NEW R, NEW st \in RowStatus, st # "CLAIMED", SetStatus(R, st)
      PROVE  FALSE
  <2>1. rows'[i] = IF i \in R THEN [rows[i] EXCEPT !.status = st, !.updated_at = now]
                              ELSE rows[i]
    BY <1>1, <1>2, SetStatusWrites
  <2> QED BY <1>1, <1>2, <2>1 DEF Enters, Row
<1>3. /\ {"QUEUED", "VOIDED"} \cup TerminalStatus \subseteq RowStatus
      /\ "CLAIMED" \notin {"QUEUED", "VOIDED"} \cup TerminalStatus
  BY DEF RowStatus, ActiveStatus, TerminalStatus
<1>4. CASE UNCHANGED rows
  BY <1>4 DEF Enters
<1>5. ASSUME NEW s \in Session, NEW k \in Key \cup {NoKey},
             Enqueue(s, k) \/ InsertClaimed(s, k)
      PROVE  FALSE
  <2>1. PICK st \in ActiveStatus : HasRoom(s) /\ KeyFree(k) /\ Insert(s, k, st)
    BY <1>5 DEF Enqueue, InsertClaimed, ActiveStatus
  <2>2. rows'[i] = rows[i]
    BY <1>1, <2>1, InsertAdds, AddsAppends
  <2> QED BY <2>2 DEF Enters
<1>6. ASSUME NEW s \in Session, RequeueClaimed(s) \/ Recover(s) PROVE FALSE
  BY <1>2, <1>3, <1>6 DEF RequeueClaimed, Recover
<1>7. ASSUME NEW s \in Session, DeleteSession(s) PROVE FALSE
  <2>1. rows'[i] = rows[i] \/ rows'[i] = [rows[i] EXCEPT !.status = "GONE"]
    BY <1>7 DEF DeleteSession
  <2> QED BY <1>1, <2>1 DEF Enters, Row
<1>8. ASSUME NEW s \in Session, NEW j \in DOMAIN rows, Prioritize(s, j) PROVE FALSE
  <2>1. rows'[i].status = rows[i].status
    BY <1>1, <1>8 DEF Prioritize, Row
  <2> QED BY <2>1 DEF Enters
<1>9. ASSUME NEW j \in DOMAIN rows, CancelQueued(j) \/ UpdatePayload(j) PROVE FALSE
  BY <1>2, <1>3, <1>9 DEF CancelQueued, UpdatePayload
<1>10. ASSUME NEW j \in DOMAIN rows, NEW st \in TerminalStatus, MarkTerminal(j, st)
       PROVE  FALSE
  BY <1>2, <1>3, <1>10 DEF MarkTerminal
<1> QED
  BY <1>4, <1>5, <1>6, <1>7, <1>8, <1>9, <1>10 DEF StoreNext, store_vars, Tick

\* The FIFO promise with "send now" as its only exception: a queued row enters
\* a turn only when no fresh row of its session goes before it, and an expired
\* one never does.
THEOREM ClaimsInOrder == StoreSpec => ClaimInOrder
<1>1. QueueInv /\ [StoreNext]_store_vars
        => [\A i \in DOMAIN rows : Enters(i) => MayEnter(i)]_store_vars
  BY OnlyClaimEnters, ClaimTakesFirst DEF QueueInv
<1> QED BY <1>1, QueueInvariant, PTL DEF StoreSpec, ClaimInOrder
============================================================================
