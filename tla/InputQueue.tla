---------------------------- MODULE InputQueue ----------------------------
(***************************************************************************)
(* The durable user-input queue of server/queue/user_input_queue.py: one   *)
(* SQLite table, every mutating method one BEGIN IMMEDIATE transaction,    *)
(* hence one action.  A row is known by its position in `rows'; positions  *)
(* grow with created_at, so the FIFO key (created_at, id) is the position. *)
(***************************************************************************)
EXTENDS Integers, Sequences, FiniteSets

CONSTANTS
  Session,   \* session ids
  Key,       \* client message ids (the dedup keys)
  NoKey,     \* the NULL client_msg_id
  Cap,       \* MAX_ACTIVE_PER_SESSION
  TTL,       \* _EXPIRY_SECONDS, in ticks of `now'
  MaxRows,   \* bound: rows ever inserted
  MaxNow     \* bound: ticks of the wall clock

ASSUME QueueAssumption ==
  /\ NoKey \notin Key
  /\ Cap \in Nat \ {0}
  /\ TTL \in Nat \ {0}
  /\ MaxRows \in Nat
  /\ MaxNow \in Nat

VARIABLES
  rows,      \* the table user_input_queue, in insertion order
  now        \* time.time(), coarse
store_vars == <<rows, now>>

ActiveStatus   == {"QUEUED", "CLAIMED"}
TerminalStatus == {"DELIVERED", "FAILED", "VOIDED"}
\* "GONE": the row was deleted by delete_session.
RowStatus      == ActiveStatus \cup TerminalStatus \cup {"GONE"}

Row == [session : Session, key : Key \cup {NoKey}, status : RowStatus,
        priority : {0, 1}, created_at : Nat, updated_at : Nat]

---------------------------------------------------------------------------
(* Queries *)

Active(i)   == rows[i].status \in ActiveStatus
Queued(i)   == rows[i].status = "QUEUED"
Claimed(i)  == rows[i].status = "CLAIMED"
Expired(i)  == rows[i].created_at + TTL <= now

ActiveRows(s)  == {i \in DOMAIN rows : rows[i].session = s /\ Active(i)}
ClaimedRows(s) == {i \in ActiveRows(s) : Claimed(i)}
\* Rows the claim subquery ranks.
Claimable(s)   == {i \in ActiveRows(s) : Queued(i) /\ ~Expired(i)}

\* Mutant: the claim forgets `priority DESC'.
Ahead_NoPriority(i, j) == i < j
\* ORDER BY priority DESC, created_at ASC, id ASC
Ahead(i, j) == \/ rows[i].priority > rows[j].priority
               \/ rows[i].priority = rows[j].priority /\ i < j
First(R) == CHOOSE i \in R : \A j \in R \ {i} : Ahead(i, j)

ActiveByKey(k)    == {i \in DOMAIN rows : rows[i].key = k /\ Active(i)}
\* Only DELIVERED rows of the last TTL dedup a late resend.
DeliveredByKey(k) == {i \in DOMAIN rows : /\ rows[i].key = k
                                          /\ rows[i].status = "DELIVERED"
                                          /\ rows[i].updated_at + TTL >= now}
\* Mutant: the index is partial over QUEUED rows only.
KeyFree_QueuedOnly(k) == k = NoKey \/ {i \in ActiveByKey(k) : Queued(i)} = {}
\* The partial UNIQUE index over active rows; NULL keys never collide.
KeyFree(k)   == k = NoKey \/ ActiveByKey(k) = {}
\* Mutant: > for >= in the capacity test.
HasRoom_OffByOne(s) == Cardinality(ActiveRows(s)) <= Cap
HasRoom(s)   == Cardinality(ActiveRows(s)) < Cap

---------------------------------------------------------------------------
(* Statements *)

NewRow(s, k, st) == [session |-> s, key |-> k, status |-> st, priority |-> 0,
                     created_at |-> now, updated_at |-> now]
Insert(s, k, st) == /\ Len(rows) < MaxRows
                    /\ rows' = Append(rows, NewRow(s, k, st))
SetStatus(R, st) ==
  rows' = [i \in DOMAIN rows |->
             IF i \in R THEN [rows[i] EXCEPT !.status = st, !.updated_at = now]
                        ELSE rows[i]]

---------------------------------------------------------------------------
(* Operations: one transaction each.  A refused or no-op outcome leaves the *)
(* table alone and is a stuttering step.                                    *)

Enqueue(s, k) ==
  /\ KeyFree(k)          \* else: the existing active row is returned
  /\ HasRoom(s)          \* else: QueueFullError
  /\ Insert(s, k, "QUEUED")
  /\ UNCHANGED now

InsertClaimed(s, k) ==
  /\ HasRoom(s)          \* else: QueueFullError
  /\ KeyFree(k)          \* else: IntegrityError from the unique index
  /\ Insert(s, k, "CLAIMED")
  /\ UNCHANGED now

ClaimNext(s) ==
  /\ Claimable(s) # {}
  /\ SetStatus({First(Claimable(s))}, "CLAIMED")
  /\ UNCHANGED now

CancelQueued(i) ==
  /\ Queued(i)
  /\ SetStatus({i}, "VOIDED")
  /\ UNCHANGED now

UpdatePayload(i) ==
  /\ Queued(i)
  /\ SetStatus({i}, "QUEUED")
  /\ UNCHANGED now

\* Mutant: priority is incremented, not set.
Prioritize_Increments(s, i) ==
  /\ Queued(i) /\ rows[i].session = s
  /\ rows' = [rows EXCEPT ![i].priority = @ + 1, ![i].updated_at = now]
  /\ UNCHANGED now

Prioritize(s, i) ==
  /\ Queued(i) /\ rows[i].session = s
  /\ rows' = [rows EXCEPT ![i].priority = 1, ![i].updated_at = now]
  /\ UNCHANGED now

\* Mutant: the status is written without reading it first.
MarkTerminal_Blind(i, st) == SetStatus({i}, st) /\ UNCHANGED now

MarkTerminal(i, st) ==
  /\ Active(i)           \* else: terminal states are final, a no-op
  /\ SetStatus({i}, st)
  /\ UNCHANGED now

RequeueClaimed(s) ==
  /\ SetStatus(ClaimedRows(s), "QUEUED")
  /\ UNCHANGED now

Recover(s) ==
  /\ SetStatus({i \in ActiveRows(s) : Expired(i)}, "VOIDED")
  /\ UNCHANGED now

DeleteSession(s) ==
  /\ rows' = [i \in DOMAIN rows |->
                IF rows[i].session = s THEN [rows[i] EXCEPT !.status = "GONE"]
                                       ELSE rows[i]]
  /\ UNCHANGED now

Tick == /\ now < MaxNow
        /\ now' = now + 1
        /\ UNCHANGED rows

---------------------------------------------------------------------------
StoreInit == rows = <<>> /\ now = 0

StoreNext ==
  \/ \E s \in Session :
       \/ \E k \in Key \cup {NoKey} : Enqueue(s, k) \/ InsertClaimed(s, k)
       \/ ClaimNext(s) \/ RequeueClaimed(s) \/ Recover(s) \/ DeleteSession(s)
       \/ \E i \in DOMAIN rows : Prioritize(s, i)
  \/ \E i \in DOMAIN rows :
       \/ CancelQueued(i) \/ UpdatePayload(i)
       \/ \E st \in TerminalStatus : MarkTerminal(i, st)
  \/ Tick

StoreSpec == StoreInit /\ [][StoreNext]_store_vars

---------------------------------------------------------------------------
(* Properties *)

\* Type invariant of the table and the clock.
StoreTypeOK == /\ rows \in Seq(Row)
               /\ now \in Nat

\* At most one active row carries a given client_msg_id, across all sessions:
\* the fact the dedup of submit_user_input and of enqueue rests on.
ActiveKeyUnique ==
  \A i, j \in DOMAIN rows :
    Active(i) /\ Active(j) /\ rows[i].key = rows[j].key /\ rows[i].key # NoKey
      => i = j

\* A session never holds more than MAX_ACTIVE_PER_SESSION active rows,
\* whichever of the two insert paths, requeue or priority changes ran.
CapRespected == \A s \in Session : Cardinality(ActiveRows(s)) <= Cap

\* A terminal row stays as it is for good (mark_terminal: "terminal states are
\* final"): no claim, requeue, cancel or late completion revives it; only the
\* purge of its session removes it.
TerminalFinal ==
  [][\A i \in DOMAIN rows : rows[i].status \in TerminalStatus =>
       rows'[i] = rows[i] \/ rows'[i].status = "GONE"]_store_vars

\* Row i may enter a turn: it is fresh, and no fresh queued row of its session
\* goes before it.
MayEnter(i) ==
  /\ now < rows[i].created_at + TTL
  /\ \A j \in DOMAIN rows :
       /\ rows[j].session = rows[i].session
       /\ rows[j].status = "QUEUED"
       /\ now < rows[j].created_at + TTL
       => \/ j = i
          \/ rows[j].priority < rows[i].priority
          \/ rows[j].priority = rows[i].priority /\ i < j

\* A queued row enters a turn only when no fresh row of its session waits
\* ahead of it (the FIFO promise, with "send now" as its only exception), and
\* an expired row never does.
Enters(i) == rows[i].status = "QUEUED" /\ rows'[i].status = "CLAIMED"
ClaimInOrder == [][\A i \in DOMAIN rows : Enters(i) => MayEnter(i)]_store_vars
===========================================================================
