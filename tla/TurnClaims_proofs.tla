------------------------- MODULE TurnClaims_proofs -------------------------
(***************************************************************************)
(* Proofs about what becomes of a message: how often it enters the graph,  *)
(* and which turn owns its row, for any number of submissions, keys, stops,*)
(* pauses and crashes.                                                     *)
(***************************************************************************)
EXTENDS TurnQueue_proofs

\* Where an executor or the drain is while the message it carries has not yet
\* entered the graph.
Before == {"slot", "resolve", "drive", "adopt", "spawned", "prepare"}

\* The rows of a session that is never purged, on a clock that stands still.
RowsLive ==
  /\ now = 0
  /\ \A i \in DOMAIN rows :
       /\ rows[i].status \in {"QUEUED", "CLAIMED", "DELIVERED", "VOIDED"}
       /\ rows[i].session = sess

\* A row carries the client_msg_id of the one submission it answers.
RowsNamed ==
  /\ \A k \in Sub : RowOf(k) # 0 => rows[RowOf(k)].key = KeyOf[k]
  /\ \A k, l \in Sub : RowOf(k) # 0 /\ RowOf(k) = RowOf(l) => k = l

\* One submission at a time is between the lock and its answer, and once past
\* the dedup it has seen that every earlier copy of its message was voided.
VoidedAll(c) == \A i \in DOMAIN rows : rows[i].key = c => rows[i].status = "VOIDED"
Deduped ==
  \A k \in Sub :
    /\ sub[k].pc \notin {"new", "done"} => lock = k
    /\ sub[k].pc = "delivered" /\ KeyOf[k] # NoKey => ActiveByKey(KeyOf[k]) = {}
    /\ sub[k].pc \in {"state", "claimed", "probe", "write"} /\ KeyOf[k] # NoKey =>
         VoidedAll(KeyOf[k])

\* Of two rows with one client_msg_id, one was voided.
OneCopy ==
  \A i, j \in DOMAIN rows : i # j /\ rows[i].key = rows[j].key /\ rows[i].key # NoKey =>
    rows[i].status = "VOIDED" \/ rows[j].status = "VOIDED"

\* A message on its way into the graph is not queued for another turn, and is
\* carried by its own executor or by the drain, not by both.
OneCarrier ==
  /\ \A k \in Sub : pc[k] \in Before => RowOf(k) # 0 /\ ~Queued(RowOf(k))
  /\ pc[Drain] \in Before =>
       /\ ~Queued(claim[Drain])
       /\ \A k \in Sub : RowOf(k) = claim[Drain] => pc[k] \notin Before

\* A message that entered the graph since the last crash does not enter it
\* again: nothing that could feed it holds its row.
Fed(k) == \E n \in DOMAIN fed : fed[n].msg = k /\ fed[n].left = budget["crash"]
FedDone ==
  /\ \A n \in DOMAIN fed : RowOf(fed[n].msg) # 0 /\ budget["crash"] <= fed[n].left
  /\ \A k \in Sub : Fed(k) =>
       /\ ~Queued(RowOf(k)) /\ pc[k] \notin Before
       /\ pc[Drain] \in Before => claim[Drain] # RowOf(k)

\* Crashes only use the budget up, and a message fed twice had one in between.
FedApart ==
  \A m, n \in DOMAIN fed : m < n =>
    fed[n].left <= fed[m].left /\ (fed[m].msg = fed[n].msg => fed[n].left < fed[m].left)

\* The inductive invariant behind FedOnce.
FedInv == RowsLive /\ RowsNamed /\ Deduped /\ OneCopy /\ OneCarrier /\ FedDone /\ FedApart

---------------------------------------------------------------------------
(* What a step does to the rows *)

\* Statuses are written, the rest of a row is not: row i's status goes to st if
\* it was active, the others keep theirs.
RowsAs(R) == /\ UNCHANGED now /\ Len(rows') = Len(rows)
             /\ \A i \in DOMAIN rows :
                  /\ rows'[i].key = rows[i].key /\ rows'[i].session = rows[i].session
                  /\ i \notin R => rows'[i].status = rows[i].status

\* A row's status stays, or an active row comes to its end.
RowsSettle == /\ RowsAs(DOMAIN rows)
              /\ \A i \in DOMAIN rows :
                   \/ rows'[i].status = rows[i].status
                   \/ Active(i) /\ rows'[i].status \in {"DELIVERED", "VOIDED"}

\* What an UPDATE of the status does.
LEMMA StatusWritten ==
  ASSUME StoreTypeOK, NEW R, NEW st \in RowStatus, SetStatus(R, st), UNCHANGED now
  PROVE  /\ RowsAs(R)
         /\ \A i \in DOMAIN rows : i \in R => rows'[i].status = st
<1>1. /\ DOMAIN rows = 1 .. Len(rows) /\ \A i \in 1 .. Len(rows) : rows[i] \in Row
  BY RowsAreRows
<1>2. /\ Len(rows') = Len(rows)
      /\ \A i \in 1 .. Len(rows) :
           rows'[i] = IF i \in R
                        THEN [rows[i] EXCEPT !.status = st, !.updated_at = now]
                        ELSE rows[i]
  BY SetStatusWrites
<1>3. ASSUME NEW i \in 1 .. Len(rows)
      PROVE  /\ rows'[i].key = rows[i].key /\ rows'[i].session = rows[i].session
             /\ rows'[i].status = IF i \in R THEN st ELSE rows[i].status
  BY <1>1, <1>2, <1>3 DEF Row
<1> QED BY <1>1, <1>2, <1>3 DEF RowsAs

\* mark_terminal on a row that may have settled already.
LEMMA MarkWrites ==
  ASSUME StoreTypeOK, NEW i \in DOMAIN rows, NEW st \in {"DELIVERED", "VOIDED"},
         IF Active(i) THEN MarkTerminal(i, st) ELSE UNCHANGED store_vars
  PROVE  /\ RowsAs({i}) /\ RowsSettle
         /\ Active(i) => rows'[i].status = st
         /\ ~Active(i) => rows'[i].status = rows[i].status
<1>1. st \in RowStatus
  BY DEF RowStatus, TerminalStatus
<1>2. CASE Active(i)
  <2>1. RowsAs({i}) /\ rows'[i].status = st
    BY <1>1, <1>2, StatusWritten DEF MarkTerminal
  <2> QED BY <1>2, <2>1 DEF RowsSettle, RowsAs
<1>3. CASE ~Active(i)
  BY <1>3 DEF RowsSettle, RowsAs, store_vars
<1> QED BY <1>2, <1>3

\* A table that is left alone.
LEMMA RowsAlone ==
  ASSUME UNCHANGED store_vars
  PROVE  RowsAs({}) /\ RowsSettle
BY DEF RowsAs, RowsSettle, store_vars

\* send_now moves a row ahead and leaves its status.
LEMMA PriorityWrites ==
  ASSUME StoreTypeOK, NEW i \in DOMAIN rows, Prioritize(sess, i)
  PROVE  RowsAs({}) /\ RowsSettle
<1>1. DOMAIN rows = 1 .. Len(rows) /\ \A j \in 1 .. Len(rows) : rows[j] \in Row
  BY RowsAreRows
<1>2. rows' = [rows EXCEPT ![i] = [rows[i] EXCEPT !.priority = 1, !.updated_at = now]]
  BY DEF Prioritize
<1>3. Len(rows') = Len(rows) /\ rows \in Seq(Row)
  BY <1>2 DEF StoreTypeOK
<1>4. ASSUME NEW j \in DOMAIN rows
      PROVE  /\ rows'[j].key = rows[j].key /\ rows'[j].session = rows[j].session
             /\ rows'[j].status = rows[j].status
  BY <1>1, <1>2, <1>4 DEF Row
<1> QED BY <1>3, <1>4 DEF RowsAs, RowsSettle, Prioritize

---------------------------------------------------------------------------
(* What a step does to the turns *)

\* A step of a turn, of the drain or of the user that neither takes a row nor
\* feeds a message: rows settle, and nobody gets to where a row is carried.
TurnGoesOn ==
  /\ RowsSettle
  /\ UNCHANGED <<sub, lock, fed>> /\ budget'["crash"] = budget["crash"]
  /\ \A k \in Sub : pc'[k] \in Before => pc[k] \in Before
  /\ pc'[Drain] \in Before => pc[Drain] \in Before /\ claim'[Drain] = claim[Drain]

\* One submission moves on under the lock, short of writing a row.
SubmitGoesOn(k) ==
  /\ UNCHANGED <<rows, now, pc, claim, fed, budget>>
  /\ \A j \in Sub : sub'[j].row = sub[j].row /\ (j # k => sub'[j] = sub[j])
  /\ \/ sub'[k].pc = "done" /\ lock' = None /\ sub[k].pc \notin {"new", "done"}
     \/ sub'[k].pc \notin {"new", "done"} /\ lock = None /\ lock' = k
     \/ sub'[k].pc \notin {"new", "done"} /\ UNCHANGED lock /\ sub[k].pc \notin {"new", "done"}
  /\ sub'[k].pc = "delivered" => ActiveByKey(KeyOf[k]) = {}
  /\ sub'[k].pc \in {"state", "claimed", "probe", "write"} =>
       \/ sub[k].pc \in {"state", "claimed", "probe", "write"}
       \/ KeyOf[k] = NoKey
       \/ sub[k].pc = "delivered" /\ DeliveredByKey(KeyOf[k]) = {}

\* A submission under the lock writes its row and returns; an idle one starts
\* its executor.
SubmitWrites(k) ==
  /\ sub[k].pc = "write" /\ UNCHANGED <<now, claim, fed, budget>>
  /\ \E r \in Row : /\ r.key = KeyOf[k] /\ r.session = sess
                    /\ rows' = Append(rows, r)
                    /\ \/ r.status = "QUEUED" /\ UNCHANGED pc
                       \/ r.status = "CLAIMED" /\ pc' = [pc EXCEPT ![k] = "slot"]
  /\ sub'[k].row = Len(rows') /\ sub'[k].pc = "done" /\ lock' = None
  /\ \A j \in Sub \ {k} : sub'[j] = sub[j]

\* The drain takes a queued row.
DrainTakes ==
  /\ \E i \in DOMAIN rows : /\ Queued(i) /\ RowsAs({i}) /\ rows'[i].status = "CLAIMED"
                            /\ claim'[Drain] = i
  /\ UNCHANGED <<sub, lock, fed, budget>>
  /\ \A k \in Sub : pc'[k] = pc[k]

\* The message of a submission's own turn, or of the drain's, enters the graph.
Feeds(e, k) ==
  /\ pc[e] = "prepare" /\ pc' = [pc EXCEPT ![e] = "stream"]
  /\ fed' = Append(fed, [msg |-> k, left |-> budget["crash"]])
  /\ k = e \/ (e = Drain /\ claim[Drain] # 0 /\ RowOf(k) = claim[Drain])
  /\ UNCHANGED <<store_vars, sub, lock, claim, budget>>

\* A restart: no task and no submission survives, and claimed rows may go back
\* to the queue.
StartsOver ==
  /\ RowsAs(DOMAIN rows)
  /\ \A i \in DOMAIN rows : \/ rows'[i].status = rows[i].status
                            \/ Claimed(i) /\ rows'[i].status = "QUEUED"
  /\ budget["crash"] > 0 /\ budget'["crash"] = budget["crash"] - 1
  /\ UNCHANGED fed /\ \A t \in Task : pc'[t] = "off"
  /\ \A k \in Sub : sub'[k].row = sub[k].row /\ sub'[k].pc \in {"new", "done"}

\* Of a step, what the proof below needs to know.
StepKind ==
  \/ TurnGoesOn \/ DrainTakes \/ StartsOver
  \/ \E k \in Sub : SubmitGoesOn(k) \/ SubmitWrites(k)
  \/ \E e \in Exec, k \in Sub : Feeds(e, k)

\* The facts about the state that the classification rests on.
Here == /\ StoreTypeOK /\ DOMAIN rows = 1 .. Len(rows) /\ Len(rows) \in Nat
        /\ sub \in [Sub -> [pc : SubPc, busy : BOOLEAN, row : 0 .. Len(rows), result : Result]]
        /\ pc \in [Task -> TaskPc] /\ claim \in [Exec -> 0 .. Len(rows)]
        /\ pend \in [Task -> SUBSET (1 .. Len(rows))]
        /\ active \in (Task \ {AutoTurn}) \cup {None}
        /\ budget \in [{"stop", "edit", "auto", "pause", "crash"} -> Nat]
        /\ fed \in Seq([msg : Sub, left : 0 .. MaxCrash])
        /\ RowsAccepted /\ DrainHasRow

\* They hold in every state.
LEMMA TurnInvIsHere == TurnInv => Here
BY RowsAreRows DEF TurnInv, MemoryOK, MemoryAt, Here

\* The steps of submit_user_input.
LEMMA SubmitKind ==
  ASSUME Here, NEW k \in Sub, Submit(k)
  PROVE  SubmitGoesOn(k) \/ SubmitWrites(k)
<1>1. /\ sub \in [Sub -> [pc : SubPc, busy : BOOLEAN, row : 0 .. Len(rows), result : Result]]
      /\ None \notin Sub
  BY Tasks DEF Here
<1>2. CASE AcquireLock(k)
  BY <1>1, <1>2 DEF AcquireLock, SubStep, SubmitGoesOn, store_vars, turn_vars, mem_vars
<1>3. CASE FindActive(k)
  BY <1>1, <1>3 DEF FindActive, SubStep, SubReturn, SubmitGoesOn, store_vars, turn_vars, mem_vars
<1>4. CASE FindDelivered(k)
  BY <1>1, <1>4 DEF FindDelivered, SubStep, SubReturn, SubmitGoesOn, store_vars, turn_vars, mem_vars
<1>5. CASE DetectState(k) \/ PlaceholderCheck(k) \/ ReadInterrupt(k)
  BY <1>1, <1>5 DEF DetectState, PlaceholderCheck, ReadInterrupt, SubmitGoesOn, store_vars,
                    turn_vars, mem_vars
<1>6. CASE SubmitBusy(k) \/ SubmitIdle(k)
  <2>1. CASE SubReturn(k, "write", "QUEUE_FULL") /\ UNCHANGED <<store_vars, turn_vars>>
    BY <1>1, <2>1 DEF SubReturn, SubmitGoesOn, store_vars, turn_vars, mem_vars
  <2>2. ASSUME NEW st \in {"QUEUED", "CLAIMED"}, Insert(sess, KeyOf[k], st),
               sub[k].pc = "write", UNCHANGED <<now, claim, fed, budget>>, lock' = None,
               \E r : sub' = [sub EXCEPT ![k] = [sub[k] EXCEPT !.pc = "done",
                                                  !.result = r, !.row = Len(rows')]],
               \/ st = "QUEUED" /\ UNCHANGED pc
               \/ st = "CLAIMED" /\ pc' = [pc EXCEPT ![k] = "slot"]
        PROVE  SubmitWrites(k)
    <3>1. /\ NewRow(sess, KeyOf[k], st) \in Row
          /\ NewRow(sess, KeyOf[k], st).key = KeyOf[k]
          /\ NewRow(sess, KeyOf[k], st).session = sess
          /\ NewRow(sess, KeyOf[k], st).status = st
      BY TurnAssumption DEF NewRow, Row, RowStatus, ActiveStatus, Here, StoreTypeOK
    <3>2. rows' = Append(rows, NewRow(sess, KeyOf[k], st))
      BY <2>2 DEF Insert
    <3>3. /\ sub'[k].row = Len(rows') /\ sub'[k].pc = "done"
          /\ \A j \in Sub \ {k} : sub'[j] = sub[j]
      BY <1>1, <2>2
    <3> QED BY <2>2, <3>1, <3>2, <3>3 DEF SubmitWrites
  <2>3. CASE SubmitBusy(k)
    BY <2>1, <2>2, <2>3 DEF SubmitBusy, Enqueue, turn_vars, mem_vars
  <2>4. CASE SubmitIdle(k)
    BY <2>1, <2>2, <2>4 DEF SubmitIdle, InsertClaimed, GoTo, turn_vars, mem_vars
  <2> QED BY <1>6, <2>3, <2>4
<1> QED BY <1>2, <1>3, <1>4, <1>5, <1>6 DEF Submit

\* What the steps of a turn have in common: one task moves, and not to where it
\* would carry a message that it does not carry yet (the resume and the auto
\* turn carry none).
LEMMA MovesOn ==
  ASSUME Here, RowsSettle, NEW t \in Task, NEW l, UNCHANGED <<sub, lock, fed>>,
         pc' = [pc EXCEPT ![t] = l],
         pc[t] \in Before \/ l \notin Before \/ t \in {Resume, AutoTurn},
         claim'[Drain] = claim[Drain] \/ pc'[Drain] \notin Before,
         budget'["crash"] = budget["crash"]
  PROVE  TurnGoesOn
BY Tasks DEF Here, TurnGoesOn

\* So has the end of a turn, which may wake the drain.
LEMMA KicksOn ==
  ASSUME Here, RowsSettle, NEW t \in Task, UNCHANGED <<sub, lock, fed, claim, budget>>,
         pc' = Kicked(t)
  PROVE  TurnGoesOn
BY Tasks DEF Here, TurnGoesOn, Kicked, AfterFinish, Before

\* An executor on its way to the child, and behind it.
LEMMA ExecuteKind ==
  ASSUME Here, NEW e \in Exec,
         \/ Execute(e)
         \/ e \in Sub /\ (LaneSlot(e) \/ Resolve(e))
  PROVE  TurnGoesOn
<1>1. /\ e \in Task /\ Drain \notin Sub /\ StoreTypeOK
      /\ claim[e] # 0 => claim[e] \in DOMAIN rows
  BY Tasks DEF Here
<1>2. CASE e \in Sub /\ (LaneSlot(e) \/ Resolve(e))
  <2>1. claim'[Drain] = claim[Drain]
    BY <1>1, <1>2, Tasks DEF LaneSlot, Resolve, Here
  <2> QED BY <1>1, <1>2, <2>1, RowsAlone, MovesOn DEF LaneSlot, Resolve, GoTo, Before
<1>3. CASE Drive(e) \/ Adopted(e)
  BY <1>1, <1>3, RowsAlone, MovesOn DEF Drive, Launch, Adopted, GoTo, Before
<1>4. CASE Aborted(e)
  <2>1. RowsSettle
    BY <1>1, <1>4, RowsAlone, MarkWrites DEF Aborted
  <2> QED BY <1>1, <1>4, <2>1, MovesOn DEF Aborted, GoTo, Before
<1>5. CASE Joined(e)
  <2>1. RowsSettle
    BY <1>1, <1>5, RowsAlone, MarkWrites DEF Joined
  <2>2. pc' = [pc EXCEPT ![e] = "defer"] \/ pc' = Kicked(e)
    BY <1>5 DEF Joined
  <2> QED BY <1>1, <1>5, <2>1, <2>2, MovesOn, KicksOn DEF Joined, Before
<1> QED BY <1>2, <1>3, <1>4, <1>5 DEF Execute

\* The stream of a task, up to the feeding of the graph and behind it.
LEMMA StreamKind ==
  ASSUME Here, NEW t \in Task, Stream(t)
  PROVE  TurnGoesOn \/ \E e \in Exec, k \in Sub : Feeds(e, k)
<1>1. CASE \/ StartChild(t) \/ StreamCut(t) \/ ListMarked(t) \/ WrapUp(t)
  BY <1>1, RowsAlone, MovesOn DEF StartChild, StreamCut, ListMarked, WrapUp, EndOf, GoTo, Before
<1>2. CASE BeginStream(t)
  <2>1. CASE Turnless(t)
    BY <1>2, <2>1, RowsAlone, MovesOn DEF BeginStream, GoTo, Before
  <2>2. CASE t = Drain
    <3>1. claim[Drain] \in 1 .. Len(rows)
      BY <1>2, <2>2, Tasks DEF BeginStream, Here, DrainHasRow
    <3>2. \E k \in Sub : RowOf(k) = claim[Drain]
      BY <3>1 DEF Here, RowsAccepted, RowOf
    <3>3. MsgOf(claim[Drain]) \in Sub /\ RowOf(MsgOf(claim[Drain])) = claim[Drain]
      BY <3>2 DEF MsgOf
    <3>4. (IF t = Drain THEN MsgOf(claim[t]) ELSE t) = MsgOf(claim[Drain]) /\ ~Turnless(t)
      BY <2>2, Tasks DEF Turnless
    <3>5. Feeds(t, MsgOf(claim[Drain]))
      BY <1>2, <2>2, <3>1, <3>3, <3>4 DEF BeginStream, GoTo, Feeds
    <3> QED BY <2>2, <3>3, <3>5, Tasks
  <2>3. CASE t \in Sub
    <3>1. ~Turnless(t) /\ t # Drain
      BY <2>3, Tasks DEF Turnless
    <3>2. (IF t = Drain THEN MsgOf(claim[t]) ELSE t) = t
      BY <3>1
    <3>3. Feeds(t, t)
      BY <1>2, <3>1, <3>2 DEF BeginStream, GoTo, Feeds
    <3> QED BY <2>3, <3>3, Tasks
  <2> QED BY <2>1, <2>2, <2>3, Tasks DEF Turnless
<1>3. CASE StreamEnds(t)
  <2>1. budget'["crash"] = budget["crash"]
    BY <1>3 DEF StreamEnds, Spend, Here
  <2> QED BY <1>3, <2>1, RowsAlone, MovesOn DEF StreamEnds, EndOf, GoTo, Before
<1>4. CASE VoidMarked(t)
  <2>1. RowsSettle
    <3>1. StoreTypeOK /\ \A i \in pend[t] : i \in DOMAIN rows
      BY DEF Here
    <3> QED BY <1>4, <3>1, RowsAlone, MarkWrites DEF VoidMarked
  <2>2. UNCHANGED pc \/ pc' = [pc EXCEPT ![t] = "wrapup"]
    BY <1>4 DEF VoidMarked, GoTo
  <2>3. CASE UNCHANGED pc
    BY <1>4, <2>1, <2>3 DEF VoidMarked, TurnGoesOn
  <2> QED BY <1>4, <2>1, <2>2, <2>3, MovesOn DEF VoidMarked, Before
<1> QED BY <1>1, <1>2, <1>3, <1>4 DEF Stream

\* on_turn_finished and the drain loop.
LEMMA DrainKind ==
  ASSUME Here, (\E t \in Task : Finish(t)) \/ DrainLoop
  PROVE  TurnGoesOn \/ DrainTakes
<1>1. Drain \in Task /\ Drain \in Exec
  BY Tasks
<1>2. ASSUME NEW t \in Task, Finish(t) PROVE TurnGoesOn
  BY <1>2, RowsAlone, MovesOn, KicksOn DEF Finish, Defer, Kick, AfterFinish, GoTo, Before
<1>3. CASE DrainCheck
  BY <1>1, <1>3, RowsAlone, MovesOn DEF DrainCheck, NextRound, GoTo, Before
<1>4. CASE DrainClaim
  <2>1. CASE ~ClaimNext(sess)
    BY <1>1, <1>4, <2>1, RowsAlone, MovesOn DEF DrainClaim, GoTo, Before
  <2>2. CASE ClaimNext(sess)
    <3>1. Claimable(sess) \in SUBSET (1 .. Len(rows)) /\ Claimable(sess) # {}
      BY <2>2 DEF ClaimNext, Claimable, ActiveRows, Here
    <3>2. First(Claimable(sess)) \in Claimable(sess)
      BY <3>1, FirstIsAhead DEF Here
    <3>3. PICK i \in DOMAIN rows : Queued(i) /\ i = First(Claimable(sess))
      BY <3>1, <3>2 DEF Claimable, ActiveRows
    <3>4. RowsAs({i}) /\ rows'[i].status = "CLAIMED"
      BY <2>2, <3>3, StatusWritten DEF ClaimNext, RowStatus, ActiveStatus, Here
    <3>5. claim'[Drain] = i
      BY <1>1, <1>4, <3>1, <3>3 DEF DrainClaim, Here
    <3>6. \A k \in Sub : pc'[k] = pc[k]
      BY <1>1, <1>4, <3>1, Tasks DEF DrainClaim, Launch, GoTo, Here
    <3> QED BY <1>4, <3>3, <3>4, <3>5, <3>6 DEF DrainClaim, DrainTakes
  <2> QED BY <2>1, <2>2
<1>5. CASE Finalize
  <2>1. RowsSettle
    <3>1. claim[Drain] \in DOMAIN rows
      BY <1>1, <1>5 DEF Finalize, Here, DrainHasRow
    <3> QED BY <1>5, <3>1, RowsAlone, MarkWrites DEF Finalize, Here
  <2> QED BY <1>1, <1>5, <2>1, MovesOn DEF Finalize, NextRound, GoTo, Before, Here
<1> QED BY <1>2, <1>3, <1>4, <1>5 DEF DrainLoop

\* What the user does, and the auto turn.
LEMMA UserKind ==
  ASSUME Here, User \/ TriggerAuto \/ AutoGate
  PROVE  TurnGoesOn
<1>1. active \in Task \cup {None} /\ Resume \in Task /\ AutoTurn \in Task /\ StoreTypeOK
  BY Tasks DEF Here
<1>2. ASSUME NEW b \in {"stop", "edit", "auto", "pause", "crash"}, b # "crash", Spend(b)
      PROVE  budget'["crash"] = budget["crash"]
  BY <1>2 DEF Spend, Here
<1>3. ASSUME CancelSession, RowsSettle, UNCHANGED <<sub, lock, claim, fed>>,
             budget'["crash"] = budget["crash"]
      PROVE  TurnGoesOn
  <2>1. CASE UNCHANGED pc
    BY <1>3, <2>1 DEF TurnGoesOn
  <2>2. ASSUME NEW t \in Task, CancelTask(t) PROVE TurnGoesOn
    BY <1>3, <2>2, MovesOn DEF CancelTask, CancelOf, GoTo, Before
  <2> QED BY <1>1, <1>3, <2>1, <2>2 DEF CancelSession, Live
<1>4. CASE Stop
  BY <1>2, <1>3, <1>4, RowsAlone DEF Stop
<1>5. ASSUME NEW i \in DOMAIN rows, CancelMessage(i) PROVE TurnGoesOn
  <2>1. RowsSettle
    BY <1>1, <1>5, MarkWrites DEF CancelMessage, CancelQueued, MarkTerminal, Active, Queued,
                                  ActiveStatus
  <2> QED BY <1>2, <1>5, <2>1 DEF CancelMessage, mem_vars, TurnGoesOn
<1>6. ASSUME NEW i \in DOMAIN rows, SendNow(i) PROVE TurnGoesOn
  BY <1>1, <1>2, <1>3, <1>6, PriorityWrites DEF SendNow
<1>7. ASSUME StartResume PROVE TurnGoesOn
  BY <1>1, <1>7, RowsAlone, MovesOn DEF StartResume, GoTo, Before
<1>8. CASE HitlResponse \/ HitlResume
  BY <1>3, <1>7, <1>8, RowsAlone DEF HitlResponse, HitlResume
<1>9. CASE TriggerAuto \/ AutoGate
  BY <1>1, <1>2, <1>9, RowsAlone, MovesOn DEF TriggerAuto, AutoGate, GoTo, Before
<1> QED BY <1>4, <1>5, <1>6, <1>8, <1>9 DEF User

\* A restart.
LEMMA RestartKind ==
  ASSUME Here, NEW covered \in BOOLEAN, Restart(covered)
  PROVE  StartsOver
<1>1. /\ RowsAs(DOMAIN rows)
      /\ \A i \in DOMAIN rows : \/ rows'[i].status = rows[i].status
                                \/ Claimed(i) /\ rows'[i].status = "QUEUED"
  <2>1. CASE UNCHANGED store_vars
    BY <2>1 DEF RowsAs, store_vars
  <2>2. CASE RequeueClaimed(sess)
    <3>1. /\ RowsAs(ClaimedRows(sess))
          /\ \A i \in DOMAIN rows : i \in ClaimedRows(sess) => rows'[i].status = "QUEUED"
      BY <2>2, StatusWritten DEF RequeueClaimed, RowStatus, ActiveStatus, Here
    <3> QED BY <3>1 DEF RowsAs, ClaimedRows
  <2> QED BY <2>1, <2>2 DEF Restart
<1>2. budget["crash"] > 0 /\ budget'["crash"] = budget["crash"] - 1
  BY DEF Restart, Spend, Here
<1>3. \A k \in Sub : sub'[k].row = sub[k].row /\ sub'[k].pc \in {"new", "done"}
  BY DEF Restart, Here
<1> QED BY <1>1, <1>2, <1>3 DEF Restart, StartsOver

\* Every step is of one of these kinds.
LEMMA StepHasKind ==
  ASSUME Here, [Next]_vars
  PROVE  StepKind
<1>1. CASE UNCHANGED vars
  BY <1>1, RowsAlone DEF vars, turn_vars, mem_vars, TurnGoesOn, StepKind
<1>2. CASE Next
  <2>1. ASSUME NEW k \in Sub, Submit(k) \/ LaneSlot(k) \/ Resolve(k) PROVE StepKind
    BY <2>1, SubmitKind, ExecuteKind, Tasks DEF StepKind
  <2>2. ASSUME NEW e \in Exec, Execute(e) PROVE StepKind
    BY <2>2, ExecuteKind DEF StepKind
  <2>3. ASSUME NEW t \in Task, Stream(t) \/ Finish(t) PROVE StepKind
    BY <2>3, StreamKind, DrainKind DEF StepKind
  <2>4. CASE DrainLoop
    BY <2>4, DrainKind DEF StepKind
  <2>5. CASE User \/ TriggerAuto \/ AutoGate
    BY <2>5, UserKind DEF StepKind
  <2>6. ASSUME NEW covered \in BOOLEAN, Restart(covered) PROVE StepKind
    BY <2>6, RestartKind DEF StepKind
  <2> QED BY <1>2, <2>1, <2>2, <2>3, <2>4, <2>5, <2>6 DEF Next
<1> QED BY <1>1, <1>2

---------------------------------------------------------------------------
(* Each kind of step keeps the invariant of FedOnce *)

\* The entries of `fed'.
LEMMA FedTyped ==
  ASSUME Here
  PROVE  /\ DOMAIN fed = 1 .. Len(fed) /\ Len(fed) \in Nat
         /\ \A n \in DOMAIN fed : fed[n].msg \in Sub /\ fed[n].left \in Nat
<1>1. fed \in Seq([msg : Sub, left : 0 .. MaxCrash])
  BY DEF Here
<1>2. DOMAIN fed = 1 .. Len(fed) /\ Len(fed) \in Nat
  BY <1>1, LenProperties
<1>3. \A n \in DOMAIN fed : fed[n] \in [msg : Sub, left : 0 .. MaxCrash]
  BY <1>1, <1>2, ElementOfSeq
<1> QED BY <1>2, <1>3, Tasks

\* A step of a turn: the rows settle, so that what was queued or voided only
\* becomes more so.
LEMMA GoingOnKeeps ==
  ASSUME Here, FedInv, TurnGoesOn
  PROVE  FedInv'
<1>1. /\ DOMAIN rows' = DOMAIN rows /\ now' = now
      /\ \A i \in DOMAIN rows :
           /\ rows'[i].key = rows[i].key /\ rows'[i].session = rows[i].session
           /\ \/ rows'[i].status = rows[i].status
              \/ Active(i) /\ rows'[i].status \in {"DELIVERED", "VOIDED"}
  BY DEF TurnGoesOn, RowsSettle, RowsAs, Here
<1>2. /\ \A k \in Sub : RowOf(k) # 0 => RowOf(k) \in DOMAIN rows
      /\ claim[Drain] # 0 => claim[Drain] \in DOMAIN rows
      /\ pc[Drain] \in Before => claim[Drain] # 0
  BY Tasks DEF Here, RowOf, DrainHasRow, Before
<1>3. RowsLive' /\ RowsNamed'
  BY <1>1, <1>2 DEF FedInv, TurnGoesOn, RowsLive, RowsNamed, RowOf
<1>4. Deduped'
  BY <1>1 DEF FedInv, TurnGoesOn, Deduped, ActiveByKey, Active, ActiveStatus, VoidedAll
<1>5. OneCopy'
  BY <1>1 DEF FedInv, OneCopy, Active, ActiveStatus
<1>6. OneCarrier'
  BY <1>1, <1>2 DEF FedInv, TurnGoesOn, OneCarrier, Queued, RowOf
<1>7. FedDone'
  <2>1. /\ \A n \in DOMAIN fed' : sub'[fed'[n].msg].row # 0 /\ budget'["crash"] <= fed'[n].left
        /\ \A k \in Sub : Fed(k)' => Fed(k)
    BY DEF FedInv, TurnGoesOn, FedDone, Fed, RowOf
  <2>2. SUFFICES ASSUME NEW k \in Sub, Fed(k)
        PROVE  /\ ~Queued(RowOf(k))' /\ pc'[k] \notin Before
               /\ pc'[Drain] \in Before => claim'[Drain] # RowOf(k)'
    BY <2>1 DEF FedDone, RowOf
  <2>3. /\ ~Queued(RowOf(k)) /\ pc[k] \notin Before
        /\ pc[Drain] \in Before => claim[Drain] # RowOf(k)
    BY <2>2 DEF FedInv, FedDone
  <2>4. RowOf(k)' = RowOf(k) /\ RowOf(k) \in DOMAIN rows
    <3>1. RowOf(k) # 0
      BY <2>2 DEF FedInv, FedDone, Fed
    <3> QED BY <1>2, <3>1 DEF TurnGoesOn, RowOf
  <2>5. ~Queued(RowOf(k))'
    BY <1>1, <2>3, <2>4 DEF Queued
  <2>6. /\ pc'[k] \in Before => pc[k] \in Before
        /\ pc'[Drain] \in Before => pc[Drain] \in Before /\ claim'[Drain] = claim[Drain]
    BY DEF TurnGoesOn
  <2> QED BY <2>3, <2>4, <2>5, <2>6
<1>8. FedApart'
  BY DEF FedInv, TurnGoesOn, FedApart
<1> QED BY <1>3, <1>4, <1>5, <1>6, <1>7, <1>8 DEF FedInv

\* A step of submit_user_input: with every earlier copy neither active nor
\* delivered, all that is left of them is voided.
LEMMA SubmitKeepsFed ==
  ASSUME Here, FedInv, NEW k \in Sub, SubmitGoesOn(k)
  PROVE  FedInv'
<1>1. UNCHANGED <<rows, now, pc, claim, fed, budget>> /\ \A j \in Sub : sub'[j].row = sub[j].row
  BY DEF SubmitGoesOn
<1>2. RowsLive' /\ RowsNamed' /\ OneCopy' /\ OneCarrier' /\ FedDone' /\ FedApart'
  <2>1. RowsLive' /\ RowsNamed' /\ OneCopy'
    BY <1>1 DEF FedInv, RowsLive, RowsNamed, OneCopy, RowOf
  <2>2. OneCarrier'
    BY <1>1 DEF FedInv, OneCarrier, RowOf, Queued
  <2>3. FedDone'
    <3>1. \A n \in DOMAIN fed : RowOf(fed[n].msg)' = RowOf(fed[n].msg)
      BY <1>1, FedTyped DEF RowOf
    <3>2. \A l \in Sub : Fed(l)' = Fed(l) /\ RowOf(l)' = RowOf(l)
      BY <1>1 DEF Fed, RowOf
    <3> QED BY <1>1, <3>1, <3>2 DEF FedInv, FedDone, Queued
  <2>4. FedApart'
    BY <1>1 DEF FedInv, FedApart
  <2> QED BY <2>1, <2>2, <2>3, <2>4
<1>3. ASSUME NEW c \in Key \cup {NoKey}, ActiveByKey(c) = {}, DeliveredByKey(c) = {}
      PROVE  VoidedAll(c)
  <2>1. \A i \in DOMAIN rows : rows[i].updated_at \in Nat /\ TTL \in Nat /\ now = 0
    BY QueueAssumption, RowsAreRows DEF Here, Row, FedInv, RowsLive
  <2>2. \A i \in DOMAIN rows : rows[i].updated_at + TTL >= now
    BY <2>1
  <2> QED BY <1>3, <2>2 DEF FedInv, RowsLive, ActiveByKey, DeliveredByKey, VoidedAll, Active,
             ActiveStatus
<1>4. KeyOf[k] \in Key \cup {NoKey} /\ None \notin Sub
  BY TurnAssumption
<1>5. Deduped'
  <2>1. SUFFICES ASSUME NEW j \in Sub
        PROVE  /\ sub'[j].pc \notin {"new", "done"} => lock' = j
               /\ sub'[j].pc = "delivered" /\ KeyOf[j] # NoKey => ActiveByKey(KeyOf[j]) = {}
               /\ sub'[j].pc \in {"state", "claimed", "probe", "write"} /\ KeyOf[j] # NoKey =>
                    VoidedAll(KeyOf[j])
    BY <1>1 DEF Deduped, ActiveByKey, Active, VoidedAll
  <2>2. CASE j # k
    BY <1>4, <2>2 DEF SubmitGoesOn, FedInv, Deduped
  <2>3. CASE j = k
    BY <1>3, <1>4, <2>3 DEF SubmitGoesOn, FedInv, Deduped
  <2> QED BY <2>2, <2>3
<1> QED BY <1>2, <1>5 DEF FedInv

\* The drain takes a queued row: nobody else carries it, and no message that
\* was fed since the last crash is queued.
LEMMA TakingKeeps ==
  ASSUME Here, FedInv, DrainTakes
  PROVE  FedInv'
<1>1. PICK i \in DOMAIN rows :
        /\ Queued(i) /\ rows'[i].status = "CLAIMED" /\ claim'[Drain] = i
        /\ DOMAIN rows' = DOMAIN rows /\ now' = now
        /\ \A j \in DOMAIN rows :
             /\ rows'[j].key = rows[j].key /\ rows'[j].session = rows[j].session
             /\ j # i => rows'[j].status = rows[j].status
  BY DEF DrainTakes, RowsAs, Here
<1>2. /\ \A k \in Sub : RowOf(k) # 0 => RowOf(k) \in DOMAIN rows
      /\ \A k \in Sub : pc'[k] = pc[k]
      /\ UNCHANGED <<sub, lock, fed, budget>>
  BY DEF Here, RowOf, DrainTakes
<1>3. RowsLive' /\ RowsNamed'
  BY <1>1, <1>2 DEF FedInv, RowsLive, RowsNamed, RowOf
<1>4. Deduped'
  BY <1>1, <1>2 DEF FedInv, Deduped, ActiveByKey, Active, ActiveStatus, VoidedAll, Queued
<1>5. OneCopy'
  BY <1>1 DEF FedInv, OneCopy, Queued
<1>6. OneCarrier'
  BY <1>1, <1>2 DEF FedInv, OneCarrier, Queued, RowOf
<1>7. FedDone'
  BY <1>1, <1>2 DEF FedInv, FedDone, Fed, Queued, RowOf
<1>8. FedApart'
  BY <1>2 DEF FedInv, FedApart
<1> QED BY <1>3, <1>4, <1>5, <1>6, <1>7, <1>8 DEF FedInv

\* A restart: what was fed before it counts as fed in an earlier life.
LEMMA StartingOverKeeps ==
  ASSUME Here, FedInv, StartsOver
  PROVE  FedInv'
<1>1. /\ DOMAIN rows' = DOMAIN rows /\ now' = now
      /\ \A i \in DOMAIN rows :
           /\ rows'[i].key = rows[i].key /\ rows'[i].session = rows[i].session
           /\ \/ rows'[i].status = rows[i].status
              \/ Claimed(i) /\ rows'[i].status = "QUEUED"
  BY DEF StartsOver, RowsAs, Here
<1>2. /\ \A k \in Sub : RowOf(k) # 0 => RowOf(k) \in DOMAIN rows
      /\ \A k \in Sub : sub'[k].row = sub[k].row /\ sub'[k].pc \in {"new", "done"}
      /\ \A k \in Sub : pc'[k] = "off"
      /\ pc'[Drain] = "off" /\ UNCHANGED fed
  BY Tasks DEF Here, RowOf, StartsOver
<1>3. RowsLive' /\ RowsNamed'
  BY <1>1, <1>2 DEF FedInv, RowsLive, RowsNamed, RowOf
<1>4. Deduped'
  BY <1>2 DEF Deduped
<1>5. OneCopy'
  BY <1>1 DEF FedInv, OneCopy, Claimed
<1>6. OneCarrier'
  BY <1>2 DEF OneCarrier, Before
<1>7. /\ budget["crash"] \in Nat /\ budget'["crash"] = budget["crash"] - 1
      /\ \A n \in DOMAIN fed : fed[n].left \in Nat
  BY FedTyped DEF Here, StartsOver
<1>8. FedDone'
  <2>1. \A n \in DOMAIN fed : RowOf(fed[n].msg) # 0 /\ budget'["crash"] < fed[n].left
    BY <1>7 DEF FedInv, FedDone
  <2>2. \A n \in DOMAIN fed : RowOf(fed[n].msg)' # 0 /\ budget'["crash"] < fed[n].left
    BY <1>2, <2>1, FedTyped DEF RowOf
  <2>3. \A n \in DOMAIN fed : budget'["crash"] # fed[n].left /\ budget'["crash"] <= fed[n].left
    BY <1>7, <2>2
  <2> QED BY <1>2, <2>2, <2>3 DEF FedDone, Fed
<1>9. FedApart'
  BY <1>2 DEF FedInv, FedApart
<1> QED BY <1>3, <1>4, <1>5, <1>6, <1>8, <1>9 DEF FedInv

\* A submission writes its row: every other row of its message is voided, and
\* nobody else carries the new one.
LEMMA WritingKeeps ==
  ASSUME Here, FedInv, NEW k \in Sub, SubmitWrites(k)
  PROVE  FedInv'
<1> DEFINE n == Len(rows) + 1
<1>1. PICK r \in Row :
        /\ r.key = KeyOf[k] /\ r.session = sess
        /\ rows' = Append(rows, r)
        /\ \/ r.status = "QUEUED" /\ UNCHANGED pc
           \/ r.status = "CLAIMED" /\ pc' = [pc EXCEPT ![k] = "slot"]
  BY DEF SubmitWrites
<1>2. /\ DOMAIN rows' = 1 .. n /\ DOMAIN rows = 1 .. Len(rows) /\ Len(rows) \in Nat
      /\ \A i \in DOMAIN rows : rows'[i] = rows[i] /\ i # n
      /\ rows'[n] = r /\ Len(rows') = n
  <2>1. rows \in Seq(Row)
    BY DEF Here, StoreTypeOK
  <2> QED BY <1>1, <2>1, AppendProperties, LenProperties
<1>3. /\ sub[k].pc = "write" /\ UNCHANGED <<now, claim, fed, budget>>
      /\ sub'[k].row = n /\ sub'[k].pc = "done" /\ lock' = None
      /\ \A j \in Sub \ {k} : sub'[j] = sub[j]
      /\ None \notin Sub
  BY <1>2, Tasks DEF SubmitWrites
<1>4. /\ RowOf(k) = 0 /\ RowOf(k)' = n /\ n # 0
      /\ \A j \in Sub \ {k} : RowOf(j)' = RowOf(j)
      /\ \A j \in Sub : RowOf(j) # 0 => RowOf(j) \in DOMAIN rows
      /\ claim[Drain] # 0 => claim[Drain] \in DOMAIN rows
      /\ pc[Drain] \in Before => claim[Drain] # 0
  BY <1>2, <1>3, Tasks DEF Here, RowOf, RowsAccepted, DrainHasRow, Before
<1>5. /\ \A t \in Task \ {k} : pc'[t] = pc[t]
      /\ pc'[k] \in Before /\ pc[k] \notin Before => r.status = "CLAIMED"
      /\ pc[k] \notin Before
  BY <1>1, <1>4, Tasks DEF Here, FedInv, OneCarrier
<1> HIDE DEF n
<1>6. RowsLive'
  BY <1>1, <1>2, <1>3 DEF FedInv, RowsLive
<1>7. RowsNamed'
  BY <1>1, <1>2, <1>4 DEF FedInv, RowsNamed
<1>8. Deduped'
  BY <1>3 DEF FedInv, Deduped
<1>9. OneCopy'
  <2>1. KeyOf[k] # NoKey => \A i \in DOMAIN rows : rows[i].key = KeyOf[k] =>
                                rows[i].status = "VOIDED"
    BY <1>3 DEF FedInv, Deduped, VoidedAll
  <2> QED BY <1>1, <1>2, <2>1 DEF FedInv, OneCopy
<1>10. OneCarrier'
  <2>1. ASSUME NEW j \in Sub, pc'[j] \in Before
        PROVE  RowOf(j)' # 0 /\ ~Queued(RowOf(j))'
    BY <1>2, <1>4, <1>5, <2>1, Tasks DEF FedInv, OneCarrier, Queued
  <2>2. ASSUME pc'[Drain] \in Before
        PROVE  /\ ~Queued(claim[Drain])'
               /\ \A j \in Sub : RowOf(j)' = claim'[Drain] => pc'[j] \notin Before
    <3>1. pc[Drain] \in Before /\ claim[Drain] \in DOMAIN rows /\ claim' = claim
      BY <1>3, <1>4, <1>5, <2>2, Tasks
    <3> QED BY <1>2, <1>4, <1>5, <3>1, Tasks DEF FedInv, OneCarrier, Queued
  <2> QED BY <2>1, <2>2 DEF OneCarrier
<1>11. FedDone'
  <2>1. ASSUME NEW m \in DOMAIN fed
        PROVE  fed[m].msg \in Sub \ {k} /\ sub'[fed[m].msg].row # 0
    <3>1. fed[m].msg \in Sub /\ RowOf(fed[m].msg) # 0
      BY FedTyped DEF FedInv, FedDone
    <3> QED BY <1>3, <1>4, <3>1 DEF RowOf
  <2>2. ASSUME NEW j \in Sub, Fed(j)
        PROVE  /\ ~Queued(RowOf(j))' /\ pc'[j] \notin Before
               /\ pc'[Drain] \in Before => claim'[Drain] # RowOf(j)'
    <3>1. j # k
      BY <2>1, <2>2 DEF Fed
    <3>2. RowOf(j)' = RowOf(j) /\ RowOf(j) \in DOMAIN rows
      BY <1>4, <2>2, <3>1 DEF FedInv, FedDone, Fed
    <3> QED BY <1>2, <1>3, <1>5, <2>2, <3>1, <3>2, Tasks DEF FedInv, FedDone, Queued
  <2>3. \A j \in Sub : Fed(j)' = Fed(j)
    BY <1>3 DEF Fed
  <2>4. \A m \in DOMAIN fed' : sub'[fed'[m].msg].row # 0 /\ budget'["crash"] <= fed'[m].left
    BY <1>3, <2>1 DEF FedInv, FedDone
  <2> QED BY <2>2, <2>3, <2>4 DEF FedDone, RowOf
<1>12. FedApart'
  BY <1>3 DEF FedInv, FedApart
<1> QED BY <1>6, <1>7, <1>8, <1>9, <1>10, <1>11, <1>12 DEF FedInv

\* A message enters the graph: it did not since the last crash, and now that it
\* did nobody carries it any more.
LEMMA FeedingKeeps ==
  ASSUME Here, FedInv, NEW e \in Exec, NEW k \in Sub, Feeds(e, k)
  PROVE  FedInv'
<1>1. /\ e \in Task /\ pc[e] = "prepare" /\ pc' = [pc EXCEPT ![e] = "stream"]
      /\ k = e \/ (e = Drain /\ claim[Drain] # 0 /\ RowOf(k) = claim[Drain])
      /\ UNCHANGED <<rows, now, sub, lock, claim, budget>>
      /\ Drain \in Task /\ Drain \notin Sub
  BY Tasks DEF Feeds, store_vars
<1>2. /\ pc'[e] = "stream" /\ \A t \in Task \ {e} : pc'[t] = pc[t]
      /\ \A t \in Task : pc'[t] \in Before => t # e /\ pc[t] \in Before
      /\ Sub \subseteq Task
  BY <1>1, Tasks DEF Here, Before
<1>3. /\ DOMAIN fed' = DOMAIN fed \cup {Len(fed) + 1}
      /\ \A m \in DOMAIN fed : fed'[m] = fed[m] /\ m < Len(fed) + 1
      /\ fed'[Len(fed) + 1].msg = k /\ fed'[Len(fed) + 1].left = budget["crash"]
      /\ DOMAIN fed = 1 .. Len(fed) /\ Len(fed) \in Nat
      /\ \A m \in DOMAIN fed : fed[m].msg \in Sub /\ fed[m].left \in Nat
      /\ budget["crash"] \in Nat
  <2>1. /\ fed \in Seq([msg : Sub, left : 0 .. MaxCrash])
        /\ fed' = Append(fed, [msg |-> k, left |-> budget["crash"]])
        /\ budget["crash"] \in Nat
    BY DEF Here, Feeds
  <2>2. DOMAIN fed = 1 .. Len(fed) /\ Len(fed) \in Nat
        /\ \A m \in DOMAIN fed : fed[m].msg \in Sub /\ fed[m].left \in Nat
    BY FedTyped
  <2>3. /\ DOMAIN fed' = 1 .. Len(fed) + 1
        /\ \A m \in 1 .. Len(fed) : fed'[m] = fed[m]
        /\ fed'[Len(fed) + 1] = [msg |-> k, left |-> budget["crash"]]
    BY <2>1, <2>2
  <2> QED BY <2>1, <2>2, <2>3
<1>4. /\ RowOf(k) # 0 /\ ~Queued(RowOf(k))
      /\ pc[k] \in Before => k = e
      /\ pc[Drain] \in Before /\ claim[Drain] = RowOf(k) => e = Drain
  BY <1>1 DEF FedInv, OneCarrier, Before
<1>5. ~Fed(k)
  BY <1>1 DEF FedInv, FedDone, Before
<1>6. RowsLive' /\ RowsNamed' /\ Deduped' /\ OneCopy'
  <2>1. RowsLive' /\ RowsNamed' /\ OneCopy'
    BY <1>1 DEF FedInv, RowsLive, RowsNamed, OneCopy, RowOf
  <2>2. Deduped'
    BY <1>1 DEF FedInv, Deduped, ActiveByKey, Active, VoidedAll
  <2> QED BY <2>1, <2>2
<1>7. OneCarrier'
  BY <1>1, <1>2 DEF FedInv, OneCarrier, RowOf, Queued
<1>8. FedDone'
  <2>1. \A l \in Sub : RowOf(l)' = RowOf(l) /\ Queued(RowOf(l))' = Queued(RowOf(l))
    BY <1>1 DEF RowOf, Queued
  <2>2. \A l \in Sub : Fed(l)' => Fed(l) \/ l = k
    BY <1>1, <1>3 DEF Fed
  <2>3. \A m \in DOMAIN fed' : sub'[fed'[m].msg].row # 0 /\ budget'["crash"] <= fed'[m].left
    <3>1. \A m \in DOMAIN fed : sub[fed[m].msg].row # 0 /\ budget["crash"] <= fed[m].left
      BY DEF FedInv, FedDone, RowOf
    <3>2. sub' = sub /\ budget' = budget /\ budget["crash"] <= budget["crash"] /\ sub[k].row # 0
      BY <1>1, <1>3, <1>4 DEF RowOf
    <3> QED BY <1>3, <3>1, <3>2
  <2>4. ASSUME NEW l \in Sub, Fed(l)'
        PROVE  /\ ~Queued(RowOf(l)) /\ pc'[l] \notin Before
               /\ pc'[Drain] \in Before => claim[Drain] # RowOf(l)
    <3>1. CASE Fed(l)
      BY <1>1, <1>2, <3>1 DEF FedInv, FedDone
    <3>2. CASE l = k
      BY <1>1, <1>2, <1>4, <3>2
    <3> QED BY <2>2, <2>4, <3>1, <3>2
  <2>5. ASSUME NEW l \in Sub, Fed(l)'
        PROVE  /\ ~Queued(RowOf(l))' /\ pc'[l] \notin Before
               /\ pc'[Drain] \in Before => claim'[Drain] # RowOf(l)'
    BY <1>1, <2>1, <2>4, <2>5
  <2> QED BY <2>3, <2>5 DEF FedDone, RowOf
<1>9. FedApart'
  <2>1. \A m \in DOMAIN fed :
          /\ budget["crash"] <= fed[m].left
          /\ fed[m].msg = k => budget["crash"] < fed[m].left
    <3>1. \A m \in DOMAIN fed : fed[m].msg = k => fed[m].left # budget["crash"]
      BY <1>5 DEF Fed
    <3>2. \A m \in DOMAIN fed : budget["crash"] <= fed[m].left
      BY DEF FedInv, FedDone
    <3> QED BY <1>3, <3>1, <3>2
  <2>2. ASSUME NEW m \in DOMAIN fed', NEW l \in DOMAIN fed', m < l
        PROVE  /\ fed'[l].left <= fed'[m].left
               /\ fed'[m].msg = fed'[l].msg => fed'[l].left < fed'[m].left
    <3>1. m \in DOMAIN fed
      BY <1>3, <2>2
    <3>2. CASE l \in DOMAIN fed
      BY <1>3, <2>2, <3>1, <3>2 DEF FedInv, FedApart
    <3>3. CASE l = Len(fed) + 1
      <4>1. fed'[l].msg = k /\ fed'[l].left = budget["crash"] /\ fed'[m] = fed[m]
        BY <1>3, <3>1, <3>3
      <4> QED BY <2>1, <3>1, <4>1
    <3> QED BY <1>3, <3>2, <3>3
  <2> QED BY <2>2 DEF FedApart
<1> QED BY <1>6, <1>7, <1>8, <1>9 DEF FedInv

---------------------------------------------------------------------------
(* FedOnce *)

\* The invariant holds before the first submission.
LEMMA InitHasFedInv ==
  ASSUME Init
  PROVE  FedInv
<1>1. /\ rows = <<>> /\ now = 0 /\ fed = <<>> /\ DOMAIN rows = {} /\ DOMAIN fed = {}
      /\ \A k \in Sub : sub[k].pc = "new" /\ RowOf(k) = 0 /\ pc[k] = "off"
      /\ pc[Drain] = "off"
  BY Tasks DEF Init, StoreInit, RowOf
<1> QED BY <1>1 DEF FedInv, RowsLive, RowsNamed, Deduped, OneCopy, OneCarrier, FedDone, Fed,
                    FedApart, Before

\* Every step keeps it.
LEMMA StepKeepsFedInv ==
  ASSUME TurnInv, FedInv, [Next]_vars
  PROVE  FedInv'
<1>1. Here
  BY TurnInvIsHere
<1> QED BY <1>1, StepHasKind, GoingOnKeeps, TakingKeeps, StartingOverKeeps, SubmitKeepsFed,
           WritingKeeps, FeedingKeeps, Zenon DEF StepKind

\* What the dedup and the carriers of a row keep of every session.
THEOREM FedInvariant == Spec => []FedInv
<1>1. Init => FedInv
  BY InitHasFedInv
<1>2. TurnInv /\ FedInv /\ [Next]_vars => FedInv'
  BY StepKeepsFedInv
<1> QED BY <1>1, <1>2, TurnInvariant, PTL DEF Spec

\* A client message enters the graph once, whatever is resent, stopped, sent
\* ahead or interrupted, unless one of its copies was voided or a crash put it
\* back in the queue.
THEOREM MessagesFedOnce == Spec => []FedOnce
<1>1. TurnInv /\ FedInv => FedOnce
  <2> SUFFICES ASSUME Here, FedInv, NEW m \in DOMAIN fed, NEW n \in DOMAIN fed, m < n,
                      SameMessage(fed[m].msg, fed[n].msg)
               PROVE  \/ \E i \in {m, n} : rows[RowOf(fed[i].msg)].status = "VOIDED"
                      \/ fed[m].msg = fed[n].msg /\ fed[m].left > fed[n].left
    BY TurnInvIsHere DEF FedOnce
  <2>1. /\ fed[m].msg \in Sub /\ fed[n].msg \in Sub
        /\ RowOf(fed[m].msg) # 0 /\ RowOf(fed[n].msg) # 0
        /\ \A k \in Sub : RowOf(k) # 0 => RowOf(k) \in DOMAIN rows
    BY FedTyped DEF FedInv, FedDone, Here, RowOf
  <2>2. CASE fed[m].msg = fed[n].msg
    BY <2>2 DEF FedInv, FedApart
  <2>3. CASE fed[m].msg # fed[n].msg
    BY <2>1, <2>3 DEF FedInv, RowsNamed, OneCopy, SameMessage
  <2> QED BY <2>2, <2>3
<1> QED BY <1>1, TurnInvariant, FedInvariant, PTL

---------------------------------------------------------------------------
(* Whose row it is *)

\* The two situations in which a turn can touch a row that is not its own: a
\* second CLAIMED row (an idle decision or a claim of the drain that was stale
\* when it was acted on), which an executor may resolve and a stop void, and an
\* auto turn that is cut while a row is CLAIMED beside it, which it then voids.
OneClaim == \A i, j \in ClaimedRows(sess) : i = j
AutoCutAlone == pc[AutoTurn] = "marker" => ClaimedRows(sess) = {}
Orderly  == OneClaim /\ AutoCutAlone

\* The places of a task: it carries a claimed row; it has fed it to the graph;
\* it may be the registered task; its row has settled; the drain has no row.
Held       == Before \cup {"stream", "marker"}
Streamed   == {"stream", "marker", "voiding", "wrapup", "joined"}
Registered == {"prepare", "stream", "marker", "voiding", "wrapup", "joined", "aborted"}
Settled    == {"defer", "kick", "final"}
Idle       == {"off", "check", "claim"}

\* The row of an executor: of its submission, or the one the drain claimed.
Own(e) == IF e = Drain THEN claim[Drain] ELSE RowOf(e)
WasFed(i) == \E n \in DOMAIN fed : RowOf(fed[n].msg) = i

\* A task carries a row that is CLAIMED.
HolderHasClaim == \A e \in Exec : pc[e] \in Held => Own(e) # 0 /\ Claimed(Own(e))

\* The executor of a submission has that submission's row, which the drain does
\* not have; and it is the row it resolves.
SubmissionHasRow ==
  /\ \A k \in Sub : pc[k] # "off" =>
       RowOf(k) # 0 /\ ~Queued(RowOf(k)) /\ claim[Drain] # RowOf(k)
  /\ \A k \in Sub : pc[k] \notin {"off", "slot", "resolve"} => claim[k] = RowOf(k)

\* An idle drain has none.
IdleDrain == pc[Drain] \in Idle => claim[Drain] = 0

\* The interrupt marker voids no row but its own turn's.
MarksOwn ==
  /\ \A t \in Task : pc[t] # "voiding" => pend[t] = {}
  /\ \A e \in Exec : pend[e] \subseteq {Own(e)}
  /\ pend[AutoTurn] = {} /\ pc[Resume] \notin {"marker", "voiding"}

\* The registered executor is one whose child has started.
ActiveStarted == active \in Exec => pc[active] \in Registered

\* What a turn streamed was its own row's message, and what it has finished is
\* no longer active.
StreamedOwn == \A e \in Exec : pc[e] \in Streamed => WasFed(Own(e))
SettledOwn  == \A e \in Exec : pc[e] \in Settled => rows[Own(e)].status \notin ActiveStatus

\* Short of a crash, a CLAIMED row is the drain's or its submission's executor's.
Owned == budget["crash"] = MaxCrash =>
  \A i \in DOMAIN rows : Claimed(i) =>
    claim[Drain] = i \/ \E k \in Sub : RowOf(k) = i /\ pc[k] # "off"

\* The invariant of the rows' owners.
ClaimInv == /\ HolderHasClaim /\ SubmissionHasRow /\ IdleDrain /\ MarksOwn /\ ActiveStarted
            /\ StreamedOwn /\ SettledOwn /\ DeliveredWasFed /\ Owned

\* Task t goes to l, the drain perhaps wakes, and the rows R settle, none of
\* which anyone carries: under these conditions the owners stay as they are.
Moves(t, l, R) ==
  /\ RowsSettle /\ RowsAs(R)
  /\ UNCHANGED <<claim, fed>> /\ budget'["crash"] = budget["crash"]
  /\ \A k \in Sub : sub'[k].row = sub[k].row
  /\ pc'[t] = l
  /\ \A u \in Task \ {t} :
       pc'[u] = pc[u] \/ (u = Drain /\ pc[u] = "off" /\ pc'[u] = "check")
  /\ \A e \in Exec : pc'[e] \in Held => Own(e) \notin R
  /\ \A i \in R \cap DOMAIN rows :
       rows'[i].status = "DELIVERED" => rows[i].status = "DELIVERED" \/ WasFed(i)
  /\ \A u \in Task : pend'[u] \subseteq pend[u]
  /\ l = "voiding" => pc[t] = "voiding" \/ t = AutoTurn
  /\ l # "voiding" /\ pc[t] = "voiding" => pend'[t] = {}
  /\ active' \in Exec => active' \in {active, t} /\ (active' = t => l \in Registered)
  /\ t = Resume => l # "marker"
  /\ t = Drain => (l \in Idle => pc[t] \in Idle)
  /\ t \in Exec => /\ l \in Held => pc[t] \in Held
                   /\ l \in Streamed => pc[t] \in Streamed
                   /\ l \in Settled =>
                        pc[t] \in Settled \/ rows'[Own(t)].status \notin ActiveStatus
  /\ t \in Sub => /\ l # "off" => pc[t] # "off"
                  /\ l \notin {"off", "slot", "resolve"} => pc[t] \notin {"off", "slot", "resolve"}
                  /\ l = "off" =>
                       pc[t] = "off" \/ rows'[RowOf(t)].status # "CLAIMED"

\* Rows have numbers of the table, and different owners have different rows.
LEMMA OwnRows ==
  ASSUME Here, FedInv, ClaimInv
  PROVE  /\ \A k \in Sub : RowOf(k) # 0 => RowOf(k) \in DOMAIN rows
         /\ claim[Drain] # 0 => claim[Drain] \in DOMAIN rows
         /\ \A e \in Exec : pc[e] \in Held \cup Streamed \cup Settled \cup {"aborted"} =>
              /\ Own(e) \in DOMAIN rows
              /\ pc[e] \notin {"slot", "resolve"} => claim[e] = Own(e)
         /\ \A d, e \in Exec :
              /\ pc[d] \in Held \cup Streamed \cup Settled \cup {"aborted"}
              /\ pc[e] \in Held \cup Streamed \cup Settled \cup {"aborted"}
              /\ Own(d) = Own(e)
              => d = e
<1>1. /\ \A k \in Sub : RowOf(k) # 0 => RowOf(k) \in DOMAIN rows
      /\ claim[Drain] # 0 => claim[Drain] \in DOMAIN rows
  BY Tasks DEF Here, RowOf
<1> DEFINE Busily == Held \cup Streamed \cup Settled \cup {"aborted"}
<1>2. /\ {"off", "check", "claim"} \cap Busily = {}
  BY DEF Held, Before, Streamed, Settled
<1> HIDE DEF Busily
<1>3. ASSUME NEW e \in Exec, pc[e] \in Busily
      PROVE  /\ Own(e) \in DOMAIN rows /\ Own(e) # 0
             /\ pc[e] \notin {"slot", "resolve"} => claim[e] = Own(e)
  <2>1. CASE e = Drain
    BY <1>1, <1>2, <1>3, <2>1 DEF Own, Here, DrainHasRow
  <2>2. CASE e \in Sub
    BY <1>1, <1>2, <1>3, <2>2, Tasks DEF Own, ClaimInv, SubmissionHasRow
  <2> QED BY <2>1, <2>2, Tasks
<1>4. ASSUME NEW d \in Exec, NEW e \in Exec, pc[d] \in Busily, pc[e] \in Busily, Own(d) = Own(e)
      PROVE  d = e
  <2>1. \A k \in Sub : pc[k] \in Busily => claim[Drain] # RowOf(k) /\ RowOf(k) # 0
    BY <1>2 DEF ClaimInv, SubmissionHasRow
  <2> QED BY <1>4, <2>1, Tasks DEF Own, FedInv, RowsNamed
<1> QED BY <1>1, <1>3, <1>4 DEF Busily

\* The conditions of Moves are enough.
LEMMA MovesKeep ==
  ASSUME Here, FedInv, ClaimInv, NEW t \in Task, NEW l, NEW R, Moves(t, l, R)
  PROVE  ClaimInv'
<1>1. /\ DOMAIN rows' = DOMAIN rows
      /\ \A i \in DOMAIN rows :
           /\ i \notin R => rows'[i].status = rows[i].status
           /\ \/ rows'[i].status = rows[i].status
              \/ Active(i) /\ rows'[i].status \in {"DELIVERED", "VOIDED"}
  BY DEF Moves, RowsSettle, RowsAs, Here
<1>2. /\ UNCHANGED <<claim, fed>> /\ budget'["crash"] = budget["crash"] /\ pc'[t] = l
      /\ \A k \in Sub : sub'[k].row = sub[k].row
      /\ \A u \in Task \ {t} :
           pc'[u] = pc[u] \/ (u = Drain /\ pc[u] = "off" /\ pc'[u] = "check")
  BY DEF Moves
<1>3. /\ \A k \in Sub : RowOf(k) # 0 => RowOf(k) \in DOMAIN rows
      /\ claim[Drain] # 0 => claim[Drain] \in DOMAIN rows
      /\ \A e \in Exec : pc[e] \in Held \cup Streamed \cup Settled => Own(e) \in DOMAIN rows
      /\ \A k \in Sub : RowOf(k)' = RowOf(k)
      /\ \A e \in Exec : Own(e)' = Own(e)
      /\ \A i \in DOMAIN rows : WasFed(i)' = WasFed(i)
      /\ Sub \subseteq Exec /\ Exec \subseteq Task /\ Drain \in Exec /\ Drain \notin Sub
  <2>1. /\ \A k \in Sub : RowOf(k)' = RowOf(k)
        /\ \A e \in Exec : Own(e)' = Own(e)
    BY <1>2, Tasks DEF RowOf, Own
  <2>2. \A i \in DOMAIN rows : WasFed(i)' = WasFed(i)
    BY <1>2, FedTyped DEF WasFed, RowOf
  <2> QED BY <2>1, <2>2, OwnRows, Tasks
<1>4. HolderHasClaim'
  <2>1. ASSUME NEW e \in Exec, pc'[e] \in Held
        PROVE  Own(e) # 0 /\ rows'[Own(e)].status = "CLAIMED"
    <3>1. pc[e] \in Held /\ Own(e) \notin R
      BY <1>2, <1>3, <2>1 DEF Moves, Held, Before
    <3>2. Own(e) # 0 /\ Claimed(Own(e)) /\ Own(e) \in DOMAIN rows
      BY <1>3, <3>1 DEF ClaimInv, HolderHasClaim
    <3> QED BY <1>1, <3>1, <3>2 DEF Claimed
  <2> QED BY <1>3, <2>1 DEF HolderHasClaim, Claimed
<1>5. SubmissionHasRow'
  <2>1. ASSUME NEW k \in Sub, pc'[k] # "off"
        PROVE  RowOf(k) # 0 /\ rows'[RowOf(k)].status # "QUEUED" /\ claim'[Drain] # RowOf(k)
    <3>1. pc[k] # "off"
      BY <1>2, <1>3, <2>1 DEF Moves
    <3> QED BY <1>1, <1>2, <1>3, <3>1 DEF ClaimInv, SubmissionHasRow, Queued
  <2>2. ASSUME NEW k \in Sub, pc'[k] \notin {"off", "slot", "resolve"}
        PROVE  claim'[k] = RowOf(k)
    <3>1. pc[k] \notin {"off", "slot", "resolve"}
      BY <1>2, <1>3, <2>2 DEF Moves
    <3> QED BY <1>2, <3>1 DEF ClaimInv, SubmissionHasRow
  <2> QED BY <1>3, <2>1, <2>2 DEF SubmissionHasRow, Queued
<1>6. IdleDrain'
  <2>1. pc'[Drain] \in Idle => pc[Drain] \in Idle
    BY <1>2, <1>3 DEF Moves, Idle
  <2> QED BY <1>2, <2>1 DEF ClaimInv, IdleDrain
<1>7. MarksOwn'
  <2>1. \A u \in Task : pend'[u] \subseteq pend[u]
    BY DEF Moves
  <2>2. ASSUME NEW u \in Task, pc'[u] # "voiding" PROVE pend'[u] = {}
    <3>1. CASE pc[u] # "voiding"
      BY <2>1, <3>1 DEF ClaimInv, MarksOwn
    <3>2. CASE pc[u] = "voiding"
      BY <1>2, <2>2, <3>2 DEF Moves
    <3> QED BY <3>1, <3>2
  <2>3. \A e \in Exec : pend'[e] \subseteq {Own(e)'}
    BY <1>3, <2>1 DEF ClaimInv, MarksOwn
  <2>4. pend'[AutoTurn] = {} /\ pc'[Resume] \notin {"marker", "voiding"}
    BY <1>2, <2>1, Tasks DEF ClaimInv, MarksOwn, Moves
  <2> QED BY <2>2, <2>3, <2>4 DEF MarksOwn
<1>8. ActiveStarted'
  <2>1. SUFFICES ASSUME active' \in Exec PROVE pc'[active'] \in Registered
    BY DEF ActiveStarted
  <2>2. active' \in {active, t} /\ (active' = t => l \in Registered)
    BY <2>1 DEF Moves
  <2>3. CASE active' = t
    BY <1>2, <2>2, <2>3
  <2>4. CASE active' # t /\ active' = active
    <3>1. pc[active] \in Registered
      BY <2>1, <2>4 DEF ClaimInv, ActiveStarted
    <3> QED BY <1>2, <1>3, <2>1, <2>4, <3>1 DEF Registered
  <2> QED BY <2>2, <2>3, <2>4
<1>9. StreamedOwn'
  <2>1. ASSUME NEW e \in Exec, pc'[e] \in Streamed PROVE WasFed(Own(e)) /\ Own(e) \in DOMAIN rows
    <3>1. pc[e] \in Streamed
      BY <1>2, <1>3, <2>1 DEF Moves, Streamed
    <3> QED BY <1>3, <3>1 DEF ClaimInv, StreamedOwn
  <2>2. \A n \in DOMAIN fed : sub'[fed[n].msg].row = sub[fed[n].msg].row
    BY <1>2, FedTyped
  <2>3. \A e \in Exec : pc'[e] \in Streamed =>
          \E n \in DOMAIN fed' : sub'[fed'[n].msg].row = Own(e)'
    BY <1>2, <1>3, <2>1, <2>2 DEF WasFed, RowOf
  <2> QED BY <2>3 DEF StreamedOwn, WasFed, Own, RowOf
<1>10. SettledOwn'
  <2>1. ASSUME NEW e \in Exec, pc'[e] \in Settled
        PROVE  rows'[Own(e)].status \notin ActiveStatus
    <3>1. CASE pc[e] \in Settled
      BY <1>1, <1>3, <3>1 DEF ClaimInv, SettledOwn, ActiveStatus
    <3>2. CASE pc[e] \notin Settled
      BY <1>2, <1>3, <2>1, <3>2 DEF Moves, Settled
    <3> QED BY <3>1, <3>2
  <2> QED BY <1>3, <2>1 DEF SettledOwn
<1>11. DeliveredWasFed'
  <2>1. ASSUME NEW k \in Sub, RowOf(k) # 0, rows'[RowOf(k)].status = "DELIVERED"
        PROVE  \E n \in DOMAIN fed : fed[n].msg = k
    <3>1. CASE rows[RowOf(k)].status = "DELIVERED"
      BY <2>1, <3>1 DEF ClaimInv, DeliveredWasFed
    <3>2. CASE rows[RowOf(k)].status # "DELIVERED"
      <4>1. RowOf(k) \in R \cap DOMAIN rows
        BY <1>1, <1>3, <2>1, <3>2
      <4>2. WasFed(RowOf(k))
        BY <2>1, <3>2, <4>1 DEF Moves
      <4> QED BY <2>1, <4>2, FedTyped DEF WasFed, FedInv, RowsNamed
    <3> QED BY <3>1, <3>2
  <2> QED BY <1>2, <1>3, <2>1 DEF DeliveredWasFed
<1>12. Owned'
  <2>1. ASSUME budget["crash"] = MaxCrash, NEW i \in DOMAIN rows, rows'[i].status = "CLAIMED"
        PROVE  claim[Drain] = i \/ \E k \in Sub : RowOf(k) = i /\ pc'[k] # "off"
    <3>1. Claimed(i)
      BY <1>1, <2>1 DEF Claimed
    <3>2. ASSUME NEW k \in Sub, RowOf(k) = i, pc[k] # "off" PROVE pc'[k] # "off"
      BY <1>2, <1>3, <2>1, <3>2 DEF Moves
    <3> QED BY <2>1, <3>1, <3>2 DEF ClaimInv, Owned
  <2> QED BY <1>1, <1>2, <1>3, <2>1 DEF Owned, Claimed
<1> QED BY <1>4, <1>5, <1>6, <1>7, <1>8, <1>9, <1>10, <1>11, <1>12 DEF ClaimInv

\* Where a task may go without touching its row.
Path(from, to) ==
  \/ from = "slot" /\ to = "resolve"
  \/ from \in {"drive", "adopt"} /\ to \in {"adopt", "spawned"}
  \/ from = "spawned" /\ to = "prepare"
  \/ from = "stream" /\ to \in {"marker", "wrapup", "joined"}
  \/ from = "voiding" /\ to = "wrapup"
  \/ from = "wrapup" /\ to = "joined"
  \/ from \in {"prepare", "stream", "marker", "voiding", "wrapup"} /\ to = "aborted"
  \/ from = "defer" /\ to = "kick"

\* A task on its path, no row touched but for its priority.  The resume and the auto turn have
\* no row and go where they like, but not into the marker.
LEMMA WalkMoves ==
  ASSUME Here, ClaimInv, NEW t \in Task, NEW l,
         RowsSettle, RowsAs({}), UNCHANGED <<sub, claim, fed>>,
         budget'["crash"] = budget["crash"],
         pc' = [pc EXCEPT ![t] = l],
         \/ pend' = [pend EXCEPT ![t] = {}]
         \/ UNCHANGED pend /\ (pc[t] = "voiding" => pend[t] = {}),
         active' \in {active, None, t}, active' = t => t \notin Exec \/ l \in Registered,
         Path(pc[t], l) \/ t = AutoTurn \/ (t = Resume /\ l # "voiding"),
         t = Resume => l # "marker"
  PROVE  Moves(t, l, {})
<1>1. /\ pc'[t] = l /\ \A u \in Task \ {t} : pc'[u] = pc[u]
      /\ \A u \in Task : pend'[u] \subseteq pend[u]
      /\ pc[t] = "voiding" => pend'[t] = {}
  BY DEF Here
<1>2. /\ active' \in Exec => active' \in {active, t} /\ (active' = t => l \in Registered)
      /\ l = "voiding" => t = AutoTurn
      /\ t = Drain => (l \in Idle => pc[t] \in Idle)
  BY Tasks DEF Path, Idle
<1>3. ASSUME t \in Exec
      PROVE  /\ l \in Held => pc[t] \in Held
             /\ l \in Streamed => pc[t] \in Streamed
             /\ l \in Settled => pc[t] \in Settled
             /\ l # "off" /\ pc[t] # "off"
             /\ l \notin {"off", "slot", "resolve"} => pc[t] \notin {"off", "slot", "resolve"}
  BY <1>3, Tasks DEF Path, Held, Before, Streamed, Settled
<1> QED BY <1>1, <1>2, <1>3, Tasks DEF Moves

\* A turn whose row has settled ends, and may wake the drain.
LEMMA EndMoves ==
  ASSUME Here, FedInv, ClaimInv, NEW t \in Task, pc[t] \in Settled, pc[t] # "final",
         UNCHANGED <<store_vars, sub, claim, fed, pend, active>>,
         budget'["crash"] = budget["crash"],
         pc' = [pc EXCEPT ![t] = AfterFinish(t)] \/ pc' = Kicked(t)
  PROVE  Moves(t, AfterFinish(t), {})
<1>1. RowsSettle /\ RowsAs({})
  BY RowsAlone
<1>2. /\ pc'[t] = AfterFinish(t)
      /\ \A u \in Task \ {t} :
           pc'[u] = pc[u] \/ (u = Drain /\ pc[u] = "off" /\ pc'[u] = "check")
  BY Tasks DEF Here, Kicked, AfterFinish
<1>3. /\ AfterFinish(t) \in {"off", "final"} /\ (t = Drain => AfterFinish(t) = "final")
      /\ t # Drain => AfterFinish(t) = "off"
      /\ pc[t] \in {"defer", "kick"}
  BY DEF AfterFinish, Settled
<1>4. active' = t => t \notin Exec
  BY <1>3 DEF ClaimInv, ActiveStarted, Registered
<1>5. t \in Sub => rows'[RowOf(t)].status # "CLAIMED"
  BY Tasks DEF ClaimInv, SettledOwn, Own, ActiveStatus, store_vars
<1> QED BY <1>1, <1>2, <1>3, <1>4, <1>5, Tasks DEF Moves, Held, Before, Streamed, Registered, Idle,
                                           Settled

\* No task moves, and rows settle that nobody carries.
LEMMA StayingKeeps ==
  ASSUME Here, FedInv, ClaimInv, NEW R, RowsSettle, RowsAs(R),
         \A k \in Sub : sub'[k].row = sub[k].row,
         UNCHANGED <<claim, fed, pc, active>>, budget'["crash"] = budget["crash"],
         \A u \in Task : pend'[u] \subseteq pend[u],
         \A e \in Exec : pc[e] \in Held => Own(e) \notin R,
         \A i \in R \cap DOMAIN rows :
           rows'[i].status = "DELIVERED" => rows[i].status = "DELIVERED"
  PROVE  ClaimInv'
<1>1. Moves(Drain, pc[Drain], R)
  BY Tasks DEF Moves, ClaimInv, ActiveStarted
<1> QED BY <1>1, MovesKeep, Tasks

\* submit_user_input up to its row.
LEMMA SubmitStays ==
  ASSUME Here, FedInv, ClaimInv, NEW k \in Sub, Submit(k), SubmitGoesOn(k)
  PROVE  ClaimInv'
<1>1. UNCHANGED <<pend, active>>
  BY DEF Submit, AcquireLock, FindActive, FindDelivered, DetectState, PlaceholderCheck,
         ReadInterrupt, SubmitBusy, SubmitIdle, turn_vars, mem_vars
<1>2. UNCHANGED store_vars /\ UNCHANGED <<claim, fed, pc, budget>>
      /\ \A j \in Sub : sub'[j].row = sub[j].row
  BY DEF SubmitGoesOn, store_vars
<1> QED BY <1>1, <1>2, RowsAlone, StayingKeeps

\* submit_user_input writes the row: queued, nobody's; or claimed, the new
\* executor's.
LEMMA WritingOwns ==
  ASSUME Here, FedInv, ClaimInv, NEW k \in Sub, Submit(k), SubmitWrites(k)
  PROVE  ClaimInv'
<1> DEFINE n == Len(rows) + 1
<1>1. PICK r \in Row :
        /\ rows' = Append(rows, r)
        /\ \/ r.status = "QUEUED" /\ UNCHANGED pc
           \/ r.status = "CLAIMED" /\ pc' = [pc EXCEPT ![k] = "slot"]
  BY DEF SubmitWrites
<1>2. /\ DOMAIN rows' = 1 .. n /\ DOMAIN rows = 1 .. Len(rows) /\ Len(rows) \in Nat
      /\ \A i \in DOMAIN rows : rows'[i] = rows[i] /\ i # n
      /\ rows'[n] = r /\ Len(rows') = n /\ n # 0
      /\ DOMAIN rows' = DOMAIN rows \cup {n}
  <2>1. rows \in Seq(Row)
    BY DEF Here, StoreTypeOK
  <2>2. /\ DOMAIN rows' = 1 .. n /\ DOMAIN rows = 1 .. Len(rows) /\ Len(rows) \in Nat
        /\ \A i \in 1 .. Len(rows) : rows'[i] = rows[i]
        /\ rows'[n] = r /\ Len(rows') = n
    BY <1>1, <2>1, AppendProperties, LenProperties
  <2> QED BY <2>2
<1> HIDE DEF n
<1>3. /\ UNCHANGED <<claim, fed, budget, pend, active>>
      /\ sub'[k].row = n /\ sub[k].pc = "write"
      /\ \A j \in Sub \ {k} : sub'[j].row = sub[j].row
  <2>1. UNCHANGED <<pend, active>>
    BY DEF Submit, AcquireLock, FindActive, FindDelivered, DetectState, PlaceholderCheck,
           ReadInterrupt, SubmitBusy, SubmitIdle, turn_vars, mem_vars
  <2> QED BY <1>2, <2>1 DEF SubmitWrites
<1>4. /\ RowOf(k) = 0 /\ RowOf(k)' = n
      /\ \A j \in Sub \ {k} : RowOf(j)' = RowOf(j)
      /\ \A j \in Sub : RowOf(j) # 0 => RowOf(j) \in DOMAIN rows
      /\ claim[Drain] # 0 => claim[Drain] \in DOMAIN rows
  BY <1>3, OwnRows DEF RowOf, Here, RowsAccepted
<1>5. /\ pc[k] = "off" /\ \A t \in Task \ {k} : pc'[t] = pc[t]
      /\ pc'[k] \in {"off", "slot"} /\ (pc'[k] = "slot" <=> r.status = "CLAIMED")
      /\ r.status \in {"QUEUED", "CLAIMED"} /\ k \in Task /\ k \in Exec /\ Drain \in Task \ {k}
  <2>1. pc[k] = "off"
    BY <1>4 DEF ClaimInv, SubmissionHasRow
  <2> QED BY <1>1, <2>1, Tasks DEF Here
<1>6. /\ \A e \in Exec \ {k} : Own(e)' = Own(e)
      /\ \A e \in Exec : pc[e] \in Held \cup Streamed \cup Settled => Own(e) \in DOMAIN rows
  <2>1. \A e \in Exec \ {k} : Own(e)' = Own(e)
    BY <1>3, <1>4, Tasks DEF Own
  <2> QED BY <2>1, OwnRows
<1>7. \A m \in DOMAIN fed : fed[m].msg \in Sub \ {k}
  BY <1>4, FedTyped DEF FedInv, FedDone
<1>8. HolderHasClaim'
  <2>1. ASSUME NEW e \in Exec \ {k}, pc'[e] \in Held
        PROVE  Own(e) # 0 /\ rows'[Own(e)].status = "CLAIMED"
    BY <1>2, <1>5, <1>6, <2>1, Tasks DEF ClaimInv, HolderHasClaim, Claimed
  <2>2. pc'[k] \in Held => rows'[n].status = "CLAIMED" /\ Own(k)' = n
    BY <1>2, <1>4, <1>5, Tasks DEF Own, Held, Before
  <2> QED BY <1>2, <1>6, <2>1, <2>2 DEF HolderHasClaim, Claimed
<1>9. SubmissionHasRow'
  <2>1. ASSUME NEW j \in Sub, pc'[j] # "off"
        PROVE  RowOf(j)' # 0 /\ rows'[RowOf(j)'].status # "QUEUED" /\ claim[Drain] # RowOf(j)'
    <3>1. CASE j = k
      BY <1>2, <1>4, <1>5, <2>1, <3>1
    <3>2. CASE j # k
      <4>1. pc[j] # "off" /\ RowOf(j)' = RowOf(j)
        BY <1>4, <1>5, <2>1, <3>2, Tasks
      <4> QED BY <1>2, <1>4, <4>1 DEF ClaimInv, SubmissionHasRow, Queued
    <3> QED BY <3>1, <3>2
  <2>2. ASSUME NEW j \in Sub, pc'[j] \notin {"off", "slot", "resolve"} PROVE claim[j] = RowOf(j)'
    BY <1>4, <1>5, <2>2, Tasks DEF ClaimInv, SubmissionHasRow
  <2> QED BY <1>3, <2>1, <2>2 DEF SubmissionHasRow, Queued
<1>10. IdleDrain' /\ ActiveStarted'
  BY <1>3, <1>5, Tasks DEF ClaimInv, IdleDrain, ActiveStarted, Registered
<1>11. MarksOwn'
  <2>1. pend[k] = {}
    BY <1>5 DEF ClaimInv, MarksOwn
  <2>2. \A e \in Exec : pend'[e] \subseteq {Own(e)'}
    BY <1>3, <1>6, <2>1 DEF ClaimInv, MarksOwn
  <2> QED BY <1>3, <1>5, <2>1, <2>2, Tasks DEF ClaimInv, MarksOwn
<1>12. StreamedOwn'
  <2>1. ASSUME NEW e \in Exec, pc'[e] \in Streamed
        PROVE  e # k /\ \E m \in DOMAIN fed : sub[fed[m].msg].row = Own(e)
    BY <1>5, <2>1, Tasks DEF ClaimInv, StreamedOwn, WasFed, RowOf, Streamed
  <2>2. \A m \in DOMAIN fed : sub'[fed[m].msg].row = sub[fed[m].msg].row
    BY <1>3, <1>7
  <2>3. \A e \in Exec : pc'[e] \in Streamed =>
          \E m \in DOMAIN fed' : sub'[fed'[m].msg].row = Own(e)'
    BY <1>3, <1>6, <2>1, <2>2
  <2> QED BY <2>3 DEF StreamedOwn, WasFed, RowOf, Own
<1>13. SettledOwn'
  <2>1. ASSUME NEW e \in Exec, pc'[e] \in Settled
        PROVE  e # k /\ Own(e) \in DOMAIN rows /\ rows[Own(e)].status \notin ActiveStatus
    BY <1>5, <1>6, <2>1, Tasks DEF ClaimInv, SettledOwn, Settled
  <2> QED BY <1>2, <1>6, <2>1 DEF SettledOwn
<1>14. DeliveredWasFed'
  BY <1>2, <1>3, <1>4, <1>5 DEF ClaimInv, DeliveredWasFed
<1>15. Owned'
  <2>1. ASSUME budget["crash"] = MaxCrash, NEW i \in DOMAIN rows', rows'[i].status = "CLAIMED"
        PROVE  claim[Drain] = i \/ \E j \in Sub : RowOf(j)' = i /\ pc'[j] # "off"
    <3>1. CASE i = n
      BY <1>2, <1>4, <1>5, <2>1, <3>1
    <3>2. CASE i \in DOMAIN rows
      <4>1. claim[Drain] = i \/ \E j \in Sub : RowOf(j) = i /\ pc[j] # "off"
        BY <1>2, <2>1, <3>2 DEF ClaimInv, Owned, Claimed
      <4> QED BY <1>4, <1>5, <4>1, Tasks
    <3> QED BY <1>2, <3>1, <3>2
  <2> QED BY <1>3, <2>1 DEF Owned, Claimed
<1> QED BY <1>8, <1>9, <1>10, <1>11, <1>12, <1>13, <1>14, <1>15 DEF ClaimInv

\* The end of an executor's turn, aborted or joined: its own row settles.
LEMMA SettlingKeeps ==
  ASSUME Here, FedInv, ClaimInv, NEW e \in Exec, pc[e] \in {"aborted", "joined"},
         NEW st \in {"DELIVERED", "VOIDED"}, st = "DELIVERED" => pc[e] = "joined",
         IF claim[e] # 0 /\ Active(claim[e])
           THEN MarkTerminal(claim[e], st) ELSE UNCHANGED store_vars,
         UNCHANGED <<sub, claim, fed, budget, pend>>, active' = Released(e),
         pc' = [pc EXCEPT ![e] = "defer"] \/ pc' = Kicked(e)
  PROVE  ClaimInv'
<1> DEFINE i == Own(e)
<1>1. /\ i \in DOMAIN rows /\ claim[e] = i /\ i # 0 /\ StoreTypeOK
      /\ pc[e] = "joined" => WasFed(i)
      /\ \A d \in Exec : pc[d] \in Held => Own(d) # i \/ d = e
      /\ e \in Task
  <2>1. /\ i \in DOMAIN rows /\ claim[e] = i
        /\ \A d \in Exec : pc[d] \in Held => Own(d) # i \/ d = e
    BY OwnRows DEF Streamed
  <2>2. i # 0 /\ StoreTypeOK
    BY <2>1 DEF Here
  <2>3. pc[e] = "joined" => WasFed(i)
    BY DEF ClaimInv, StreamedOwn, Streamed
  <2> QED BY <2>1, <2>2, <2>3, Tasks
<1> HIDE DEF i
<1>2. /\ RowsSettle /\ RowsAs({i}) /\ rows'[i].status \notin ActiveStatus
      /\ rows'[i].status = "DELIVERED" => rows[i].status = "DELIVERED" \/ WasFed(i)
  <2>1. IF Active(i) THEN MarkTerminal(i, st) ELSE UNCHANGED store_vars
    BY <1>1
  <2>2. /\ RowsSettle /\ RowsAs({i}) /\ (Active(i) => rows'[i].status = st)
        /\ ~Active(i) => rows'[i].status = rows[i].status
    BY <1>1, <2>1, MarkWrites
  <2> QED BY <1>1, <2>2 DEF Active, ActiveStatus
<1>3. PICK l \in {"defer", "final", "off"} :
        /\ pc'[e] = l /\ (e = Drain => l # "off") /\ (e \in Sub => l # "final")
        /\ \A u \in Task \ {e} :
             pc'[u] = pc[u] \/ (u = Drain /\ pc[u] = "off" /\ pc'[u] = "check")
  BY <1>1, Tasks DEF Here, Kicked, AfterFinish
<1>4. /\ active' # e /\ active' \in {active, None}
      /\ \A d \in Exec : pc'[d] \in Held => Own(d) \notin {i}
      /\ pc[e] # "voiding" /\ pc[e] \notin {"off", "slot", "resolve"}
  <2>1. \A d \in Exec : pc'[d] \in Held => d # e /\ pc[d] \in Held
    BY <1>3, Tasks DEF Held, Before
  <2> QED BY <1>1, <2>1, Tasks DEF Released
<1>5. e \in Sub => RowOf(e) = i
  BY Tasks DEF Own, i
<1>6. Moves(e, l, {i})
  <2>1. Own(e) = i
    BY DEF i
  <2> QED BY <1>1, <1>2, <1>3, <1>4, <1>5, <2>1, Tasks
          DEF Moves, Held, Before, Streamed, Settled, Idle, ActiveStatus
<1> QED BY <1>1, <1>6, MovesKeep

\* An executor resolves the CLAIMED row it finds: with no other one, its own.
LEMMA ResolvingKeeps ==
  ASSUME Here, FedInv, ClaimInv, OneClaim, NEW k \in Sub, Resolve(k)
  PROVE  ClaimInv'
<1>1. /\ k \in Exec /\ k \in Task /\ k # Drain /\ pc[k] = "resolve"
      /\ RowOf(k) \in DOMAIN rows /\ Claimed(RowOf(k))
  BY OwnRows, Tasks DEF Resolve, ClaimInv, HolderHasClaim, Own, Held, Before
<1>2. ClaimedRows(sess) = {RowOf(k)}
  <2>1. RowOf(k) \in ClaimedRows(sess)
    BY <1>1 DEF ClaimedRows, ActiveRows, FedInv, RowsLive, Active, ActiveStatus, Claimed
  <2> QED BY <2>1 DEF OneClaim
<1>3. First({RowOf(k)}) = RowOf(k)
  BY DEF First
<1>4. claim' = [claim EXCEPT ![k] = RowOf(k)]
  BY <1>2, <1>3 DEF Resolve
<1>5. /\ pc' = [pc EXCEPT ![k] = "drive"]
      /\ UNCHANGED <<rows, sub, pend, active, fed, budget>>
  BY DEF Resolve, GoTo, store_vars
<1>6. /\ claim'[Drain] = claim[Drain] /\ claim'[k] = RowOf(k)
      /\ \A j \in Sub \ {k} : claim'[j] = claim[j]
      /\ pc'[k] = "drive" /\ \A u \in Task \ {k} : pc'[u] = pc[u]
  BY <1>1, <1>4, <1>5, Tasks DEF Here
<1>7. HolderHasClaim'
  BY <1>1, <1>5, <1>6, Tasks DEF ClaimInv, HolderHasClaim, Own, RowOf, Claimed, Held, Before
<1>8. SubmissionHasRow'
  BY <1>1, <1>5, <1>6, Tasks DEF ClaimInv, SubmissionHasRow, RowOf, Queued
<1>9. IdleDrain' /\ ActiveStarted'
  BY <1>1, <1>5, <1>6, Tasks DEF ClaimInv, IdleDrain, ActiveStarted, Registered
<1>10. MarksOwn'
  BY <1>1, <1>5, <1>6, Tasks DEF ClaimInv, MarksOwn, Own, RowOf
<1>11. StreamedOwn'
  BY <1>1, <1>5, <1>6, Tasks DEF ClaimInv, StreamedOwn, WasFed, Own, RowOf, Streamed
<1>12. SettledOwn'
  BY <1>1, <1>5, <1>6, Tasks DEF ClaimInv, SettledOwn, Own, RowOf, Settled
<1>13. DeliveredWasFed' /\ Owned'
  BY <1>1, <1>5, <1>6, Tasks DEF ClaimInv, DeliveredWasFed, Owned, RowOf, Claimed
<1> QED BY <1>7, <1>8, <1>9, <1>10, <1>11, <1>12, <1>13 DEF ClaimInv

\* execute_batch.
LEMMA ExecutingKeeps ==
  ASSUME Here, FedInv, ClaimInv, OneClaim, NEW e \in Exec,
         \/ Execute(e)
         \/ e \in Sub /\ (LaneSlot(e) \/ Resolve(e))
  PROVE  ClaimInv'
<1>1. e \in Task /\ (e \in Sub \/ e = Drain)
  BY Tasks
<1>2. ASSUME NEW l, l \in {"resolve", "adopt", "spawned"}, pc' = [pc EXCEPT ![e] = l],
             Path(pc[e], l), UNCHANGED <<store_vars, sub, claim, fed, budget, pend, active>>
      PROVE  ClaimInv'
  <2>1. pc[e] # "voiding" /\ l \notin {"voiding", "marker"} /\ active' # e
    BY <1>2 DEF Path, ClaimInv, ActiveStarted, Registered
  <2>2. Moves(e, l, {})
    BY <1>1, <1>2, <2>1, RowsAlone, WalkMoves
  <2> QED BY <1>1, <2>2, MovesKeep
<1>3. CASE e \in Sub /\ LaneSlot(e)
  BY <1>2, <1>3 DEF LaneSlot, GoTo, Path
<1>4. CASE Drive(e) \/ Adopted(e)
  BY <1>2, <1>4 DEF Drive, Launch, Adopted, GoTo, Path
<1>5. CASE Aborted(e)
  BY <1>5, SettlingKeeps DEF Aborted, GoTo
<1>6. CASE Joined(e)
  BY <1>6, SettlingKeeps DEF Joined
<1>7. CASE e \in Sub /\ Resolve(e)
  BY <1>7, ResolvingKeeps
<1> QED BY <1>3, <1>4, <1>5, <1>6, <1>7 DEF Execute

\* A turn feeds its own row's message.
LEMMA FeedingOwns ==
  ASSUME Here, FedInv, ClaimInv, NEW e \in Exec, NEW k \in Sub, Feeds(e, k),
         UNCHANGED <<pend, active>>
  PROVE  ClaimInv'
<1>1. /\ e \in Task /\ pc[e] = "prepare" /\ RowOf(k) = Own(e)
      /\ pc'[e] = "stream" /\ \A u \in Task \ {e} : pc'[u] = pc[u]
      /\ UNCHANGED <<rows, sub, claim, budget, pend, active>>
  BY Tasks DEF Feeds, Own, Here, store_vars
<1>2. /\ \A n \in DOMAIN fed : n \in DOMAIN fed' /\ fed'[n] = fed[n]
      /\ \E n \in DOMAIN fed' : fed'[n].msg = k
  <2>1. /\ fed \in Seq([msg : Sub, left : 0 .. MaxCrash])
        /\ fed' = Append(fed, [msg |-> k, left |-> budget["crash"]])
        /\ DOMAIN fed = 1 .. Len(fed) /\ Len(fed) \in Nat
    BY FedTyped DEF Here, Feeds
  <2>2. /\ DOMAIN fed' = 1 .. Len(fed) + 1
        /\ \A n \in 1 .. Len(fed) : fed'[n] = fed[n]
        /\ fed'[Len(fed) + 1] = [msg |-> k, left |-> budget["crash"]]
    BY <2>1
  <2> QED BY <2>1, <2>2
<1>3. \A i : (WasFed(i) => WasFed(i)') /\ (i = Own(e) => WasFed(i)')
  BY <1>1, <1>2 DEF WasFed, RowOf
<1>4. HolderHasClaim'
  BY <1>1, Tasks DEF ClaimInv, HolderHasClaim, Own, RowOf, Claimed, Held, Before
<1>5. SubmissionHasRow'
  BY <1>1, Tasks DEF ClaimInv, SubmissionHasRow, RowOf, Queued
<1>6. IdleDrain' /\ ActiveStarted'
  BY <1>1, Tasks DEF ClaimInv, IdleDrain, ActiveStarted, Registered, Idle
<1>7. MarksOwn'
  BY <1>1, Tasks DEF ClaimInv, MarksOwn, Own, RowOf
<1>8. StreamedOwn'
  <2>1. \A d \in Exec : Own(d)' = Own(d)
    BY <1>1 DEF Own, RowOf
  <2>2. \A d \in Exec : pc'[d] \in Streamed => d = e \/ pc[d] \in Streamed
    BY <1>1, Tasks
  <2>3. \A d \in Exec : pc'[d] \in Streamed =>
          \E n \in DOMAIN fed' : sub'[fed'[n].msg].row = Own(d)
    BY <1>3, <2>2 DEF ClaimInv, StreamedOwn, WasFed, RowOf
  <2> QED BY <2>1, <2>3 DEF StreamedOwn, WasFed, RowOf, Own
<1>9. SettledOwn'
  BY <1>1, Tasks DEF ClaimInv, SettledOwn, Own, RowOf, Settled
<1>10. DeliveredWasFed'
  BY <1>1, <1>2 DEF ClaimInv, DeliveredWasFed, RowOf
<1>11. Owned'
  BY <1>1, Tasks DEF ClaimInv, Owned, RowOf, Claimed
<1> QED BY <1>4, <1>5, <1>6, <1>7, <1>8, <1>9, <1>10, <1>11 DEF ClaimInv

\* write_interrupted_marker lists the CLAIMED rows: with no other one, its own.
LEMMA MarkingKeeps ==
  ASSUME Here, FedInv, ClaimInv, Orderly, NEW t \in Task, ListMarked(t)
  PROVE  ClaimInv'
<1>1. CASE t = AutoTurn
  <2>1. /\ pend' = [pend EXCEPT ![t] = {}] /\ pc' = [pc EXCEPT ![t] = "voiding"]
        /\ UNCHANGED <<store_vars, sub, claim, active, fed, budget>> /\ pc[t] = "marker"
    BY <1>1 DEF ListMarked, GoTo, Orderly, AutoCutAlone
  <2>2. Moves(t, "voiding", {})
    BY <1>1, <2>1, RowsAlone, WalkMoves, Tasks
  <2> QED BY <2>2, MovesKeep, Zenon
<1>2. CASE t # AutoTurn
  <2>1. t \in Exec /\ pc[t] = "marker" /\ Own(t) \in DOMAIN rows /\ Claimed(Own(t))
    <3>1. t \in Exec /\ pc[t] = "marker"
      BY <1>2, Tasks DEF ListMarked, ClaimInv, MarksOwn
    <3> QED BY <3>1, OwnRows DEF ClaimInv, HolderHasClaim, Held
  <2>2. ClaimedRows(sess) = {Own(t)}
    <3>1. Own(t) \in ClaimedRows(sess)
      BY <2>1 DEF ClaimedRows, ActiveRows, FedInv, RowsLive, Active, ActiveStatus, Claimed
    <3> QED BY <3>1 DEF Orderly, OneClaim
  <2>3. /\ pend'[t] = {Own(t)} /\ \A u \in Task \ {t} : pend'[u] = pend[u]
        /\ pc'[t] = "voiding" /\ \A u \in Task \ {t} : pc'[u] = pc[u]
        /\ UNCHANGED <<rows, sub, claim, active, fed, budget>>
    BY <2>2 DEF ListMarked, GoTo, Here, store_vars
  <2>4. HolderHasClaim'
    BY <2>1, <2>3, Tasks DEF ClaimInv, HolderHasClaim, Own, RowOf, Claimed, Held, Before
  <2>5. SubmissionHasRow'
    BY <2>1, <2>3, Tasks DEF ClaimInv, SubmissionHasRow, RowOf, Queued
  <2>6. IdleDrain' /\ ActiveStarted'
    BY <2>1, <2>3, Tasks DEF ClaimInv, IdleDrain, ActiveStarted, Registered, Idle
  <2>7. MarksOwn'
    <3>1. \A e \in Exec : Own(e)' = Own(e)
      BY <2>3 DEF Own, RowOf
    <3> QED BY <2>1, <2>3, <3>1, Tasks DEF ClaimInv, MarksOwn
  <2>8. StreamedOwn'
    BY <2>1, <2>3, Tasks DEF ClaimInv, StreamedOwn, WasFed, Own, RowOf, Streamed
  <2>9. SettledOwn'
    BY <2>1, <2>3, Tasks DEF ClaimInv, SettledOwn, Own, RowOf, Settled
  <2>10. DeliveredWasFed' /\ Owned'
    BY <2>1, <2>3, Tasks DEF ClaimInv, DeliveredWasFed, Owned, RowOf, Claimed
  <2> QED BY <2>4, <2>5, <2>6, <2>7, <2>8, <2>9, <2>10 DEF ClaimInv
<1> QED BY <1>1, <1>2

\* The marker voids a row, its own turn's.
LEMMA VoidingKeeps ==
  ASSUME Here, FedInv, ClaimInv, NEW t \in Task, VoidMarked(t)
  PROVE  ClaimInv'
<1>1. /\ pc[t] = "voiding" /\ (pend[t] # {} => t \in Exec) /\ t # Resume
      /\ UNCHANGED <<sub, claim, active, fed, budget>>
  BY Tasks DEF VoidMarked, ClaimInv, MarksOwn
<1>2. CASE pend[t] = {} /\ GoTo(t, "wrapup") /\ UNCHANGED <<store_vars, pend>>
  <2>1. Moves(t, "wrapup", {})
    BY <1>1, <1>2, Tasks, RowsAlone, WalkMoves DEF GoTo, Path, Registered, Here
  <2> QED BY <2>1, MovesKeep
<1>3. ASSUME NEW i \in pend[t], pend' = [pend EXCEPT ![t] = @ \ {i}], UNCHANGED pc,
             IF Active(i) THEN MarkTerminal(i, "VOIDED") ELSE UNCHANGED store_vars
      PROVE  ClaimInv'
  <2>1. i = Own(t) /\ i \in DOMAIN rows /\ StoreTypeOK
    BY <1>1 DEF ClaimInv, MarksOwn, Here
  <2>2. /\ RowsSettle /\ RowsAs({i})
        /\ rows'[i].status = "DELIVERED" => rows[i].status = "DELIVERED"
    BY <1>3, <2>1, MarkWrites
  <2>3. \A e \in Exec : pc[e] \in Held => Own(e) # i
    <3>1. \A e \in Exec : pc[e] \in Held => Own(e) # Own(t) \/ e = t
      BY <1>1, OwnRows DEF Streamed
    <3> QED BY <1>1, <2>1, <3>1 DEF Held, Before
  <2>4. \A u \in Task : pend'[u] \subseteq pend[u]
    BY <1>3 DEF Here
  <2> QED BY <1>1, <1>3, <2>2, <2>3, <2>4, StayingKeeps
<1> QED BY <1>2, <1>3 DEF VoidMarked

\* The stream of a task.
LEMMA StreamingKeeps ==
  ASSUME Here, FedInv, ClaimInv, Orderly, NEW t \in Task, Stream(t)
  PROVE  ClaimInv'
<1>1. ASSUME NEW l, pc' = [pc EXCEPT ![t] = l],
             l \in {"prepare", "stream", "marker", "wrapup", "joined", "defer"},
             Path(pc[t], l) \/ t \in {Resume, AutoTurn}, pc[t] # "voiding",
             t = Resume => l # "marker",
             UNCHANGED <<store_vars, sub, claim, fed, pend>>, budget'["crash"] = budget["crash"],
             active' \in {active, None, t}
      PROVE  ClaimInv'
  <2>1. Moves(t, l, {})
    BY <1>1, Tasks, RowsAlone, WalkMoves DEF Path, Registered
  <2> QED BY <2>1, MovesKeep
<1>2. CASE StartChild(t)
  BY <1>1, <1>2 DEF StartChild, GoTo, Path
<1>3. CASE BeginStream(t)
  <2>1. CASE Turnless(t)
    BY <1>1, <1>3, <2>1 DEF BeginStream, Turnless, GoTo
  <2>2. CASE ~Turnless(t)
    <3>1. UNCHANGED <<pend, active>>
      BY <1>3 DEF BeginStream
    <3>2. \/ TurnGoesOn
          \/ \E e \in Exec, k \in Sub : Feeds(e, k)
      BY <1>3, StreamKind DEF Stream
    <3>3. ~TurnGoesOn
      <4>1. fed' = Append(fed, [msg |-> IF t = Drain THEN MsgOf(claim[t]) ELSE t,
                                left |-> budget.crash])
        BY <1>3, <2>2 DEF BeginStream
      <4>2. Len(fed') = Len(fed) + 1 /\ Len(fed) \in Nat
        BY <4>1, FedTyped DEF Here
      <4> QED BY <4>2 DEF TurnGoesOn
    <3> QED BY <3>1, <3>2, <3>3, FeedingOwns
  <2> QED BY <2>1, <2>2
<1>4. CASE StreamEnds(t)
  <2>1. budget'["crash"] = budget["crash"]
    BY <1>4 DEF StreamEnds, Spend, Here
  <2> QED BY <1>1, <1>4, <2>1 DEF StreamEnds, EndOf, Turnless, FreeSlot, Released, GoTo, Path
<1>5. CASE StreamCut(t)
  BY <1>1, <1>5 DEF StreamCut, GoTo, Path
<1>6. CASE ListMarked(t)
  BY <1>6, MarkingKeeps
<1>7. CASE VoidMarked(t)
  BY <1>7, VoidingKeeps
<1>8. CASE WrapUp(t)
  BY <1>1, <1>8 DEF WrapUp, EndOf, Turnless, FreeSlot, Released, GoTo, Path
<1> QED BY <1>2, <1>3, <1>4, <1>5, <1>6, <1>7, <1>8 DEF Stream

\* The drain takes a queued row, which no submission's executor has.
LEMMA TakingOwns ==
  ASSUME Here, FedInv, ClaimInv, DrainClaim, ClaimNext(sess)
  PROVE  ClaimInv'
<1>1. /\ Drain \in Task /\ pc[Drain] = "claim" /\ UNCHANGED <<sub, pend, active, fed, budget>>
      /\ pc'[Drain] \in {"adopt", "spawned"} /\ \A u \in Task \ {Drain} : pc'[u] = pc[u]
  BY Tasks DEF DrainClaim, ClaimNext, Launch, GoTo, Here
<1>2. \A j \in Sub : claim'[j] = claim[j]
  BY Tasks DEF DrainClaim, ClaimNext, Here
<1>3. PICK i \in DOMAIN rows :
        /\ Queued(i) /\ rows'[i].status = "CLAIMED" /\ claim'[Drain] = i
        /\ DOMAIN rows' = DOMAIN rows
        /\ \A j \in DOMAIN rows : j # i => rows'[j].status = rows[j].status
  <2>1. TurnGoesOn \/ DrainTakes
    BY DrainKind DEF DrainLoop
  <2>2. ~TurnGoesOn
    BY <1>1 DEF TurnGoesOn, Before
  <2> QED BY <2>1, <2>2 DEF DrainTakes, RowsAs, Here
<1>4. /\ \A k \in Sub : RowOf(k) # 0 => RowOf(k) \in DOMAIN rows
      /\ i # 0 /\ claim[Drain] = 0
      /\ \A k \in Sub : pc[k] # "off" => RowOf(k) # i
  BY <1>1, <1>3, OwnRows DEF Here, ClaimInv, IdleDrain, Idle, SubmissionHasRow
<1>5. \A e \in Exec : e # Drain => e \in Sub /\ e \in Task
  BY Tasks
<1>6. HolderHasClaim'
  <2>1. ASSUME NEW k \in Sub, pc'[k] \in Held PROVE RowOf(k) # 0 /\ rows'[RowOf(k)].status = "CLAIMED"
    <3>1. pc[k] \in Held /\ pc[k] # "off"
      BY <1>1, <2>1, Tasks DEF Held, Before
    <3>2. RowOf(k) # 0 /\ Claimed(RowOf(k)) /\ RowOf(k) # i
      BY <1>4, <3>1, Tasks DEF ClaimInv, HolderHasClaim, Own
    <3> QED BY <1>3, <1>4, <3>2 DEF Claimed
  <2> QED BY <1>1, <1>3, <1>4, <1>5, <2>1, Tasks DEF HolderHasClaim, Own, RowOf, Claimed
<1>7. SubmissionHasRow'
  <2>1. ASSUME NEW k \in Sub, pc'[k] # "off"
        PROVE  RowOf(k) # 0 /\ rows'[RowOf(k)].status # "QUEUED" /\ i # RowOf(k)
    <3>1. pc[k] # "off"
      BY <1>1, <2>1, Tasks
    <3> QED BY <1>3, <1>4, <3>1 DEF ClaimInv, SubmissionHasRow, Queued
  <2> QED BY <1>1, <1>2, <1>3, <2>1, Tasks DEF ClaimInv, SubmissionHasRow, RowOf, Queued
<1>8. IdleDrain' /\ ActiveStarted'
  BY <1>1, Tasks DEF ClaimInv, IdleDrain, ActiveStarted, Registered, Idle
<1>9. MarksOwn'
  <2>1. pend[Drain] = {}
    BY <1>1 DEF ClaimInv, MarksOwn
  <2> QED BY <1>1, <1>5, <2>1, Tasks DEF ClaimInv, MarksOwn, Own, RowOf
<1>10. StreamedOwn'
  <2>1. \A e \in Exec : pc'[e] \in Streamed => e \in Sub /\ pc[e] \in Streamed
    BY <1>1, <1>5 DEF Streamed
  <2> QED BY <1>1, <2>1, Tasks DEF ClaimInv, StreamedOwn, WasFed, Own, RowOf
<1>11. SettledOwn'
  <2>1. ASSUME NEW e \in Exec, pc'[e] \in Settled
        PROVE  /\ e \in Sub /\ RowOf(e) \in DOMAIN rows
               /\ rows'[RowOf(e)].status \notin ActiveStatus
    <3>1. e \in Sub /\ pc[e] \in Settled /\ pc[e] # "off"
      BY <1>1, <1>5, <2>1 DEF Settled
    <3>2. RowOf(e) # 0 /\ RowOf(e) # i /\ rows[RowOf(e)].status \notin ActiveStatus
      BY <1>4, <3>1, Tasks DEF ClaimInv, SubmissionHasRow, SettledOwn, Own
    <3> QED BY <1>3, <1>4, <3>1, <3>2
  <2> QED BY <1>1, <2>1, Tasks DEF SettledOwn, Own, RowOf
<1>12. DeliveredWasFed'
  BY <1>1, <1>3, <1>4 DEF ClaimInv, DeliveredWasFed, RowOf
<1>13. Owned'
  <2>1. ASSUME budget["crash"] = MaxCrash, NEW j \in DOMAIN rows, rows'[j].status = "CLAIMED"
        PROVE  i = j \/ \E k \in Sub : RowOf(k) = j /\ pc'[k] # "off"
    <3>1. CASE i # j
      <4>1. Claimed(j) /\ j # 0
        BY <1>3, <2>1, <3>1 DEF Claimed, Here
      <4>2. PICK k \in Sub : RowOf(k) = j /\ pc[k] # "off"
        BY <1>4, <2>1, <4>1 DEF ClaimInv, Owned
      <4> QED BY <1>1, <4>2, Tasks
    <3> QED BY <3>1
  <2> QED BY <1>1, <1>3, <2>1 DEF Owned, Claimed, RowOf
<1> QED BY <1>6, <1>7, <1>8, <1>9, <1>10, <1>11, <1>12, <1>13 DEF ClaimInv

\* The drain lets go of its row, which has settled.
LEMMA FinalizingKeeps ==
  ASSUME Here, FedInv, ClaimInv, Finalize
  PROVE  ClaimInv'
<1>1. /\ Drain \in Exec /\ Drain \in Task /\ pc[Drain] = "final"
      /\ rows[claim[Drain]].status \notin ActiveStatus
  BY Tasks DEF Finalize, ClaimInv, SettledOwn, Own, Settled
<1>2. /\ UNCHANGED <<rows, sub, pend, active, fed, budget>>
      /\ claim' = [claim EXCEPT ![Drain] = 0]
      /\ pc' = [pc EXCEPT ![Drain] = NextRound] /\ NextRound \in {"off", "claim"}
  BY <1>1 DEF Finalize, Active, store_vars, GoTo, NextRound
<1>3. /\ claim'[Drain] = 0 /\ \A k \in Sub : claim'[k] = claim[k]
      /\ pc'[Drain] \in {"off", "claim"} /\ \A u \in Task \ {Drain} : pc'[u] = pc[u]
      /\ \A e \in Exec : e # Drain => e \in Sub /\ e \in Task
  BY <1>1, <1>2, Tasks DEF Here
<1>4. HolderHasClaim' /\ SubmissionHasRow'
  BY <1>2, <1>3, Tasks DEF ClaimInv, HolderHasClaim, SubmissionHasRow, Own, RowOf, Claimed, Queued,
                           Held, Before
<1>5. IdleDrain' /\ ActiveStarted'
  BY <1>1, <1>2, <1>3, Tasks DEF ClaimInv, IdleDrain, ActiveStarted, Registered
<1>6. MarksOwn'
  <2>1. pend[Drain] = {}
    BY <1>1 DEF ClaimInv, MarksOwn
  <2> QED BY <1>1, <1>2, <1>3, <2>1, Tasks DEF ClaimInv, MarksOwn, Own, RowOf
<1>7. StreamedOwn' /\ SettledOwn'
  BY <1>2, <1>3, Tasks DEF ClaimInv, StreamedOwn, SettledOwn, WasFed, Own, RowOf, Streamed, Settled
<1>8. DeliveredWasFed' /\ Owned'
  BY <1>1, <1>2, <1>3, Tasks DEF ClaimInv, DeliveredWasFed, Owned, RowOf, Claimed, ActiveStatus
<1> QED BY <1>4, <1>5, <1>6, <1>7, <1>8 DEF ClaimInv

\* on_turn_finished and the drain loop.
LEMMA DrainingKeeps ==
  ASSUME Here, FedInv, ClaimInv, (\E t \in Task : Finish(t)) \/ DrainLoop
  PROVE  ClaimInv'
<1>1. ASSUME NEW t \in Task, Finish(t) PROVE ClaimInv'
  <2>1. CASE Defer(t) /\ pc' = [pc EXCEPT ![t] = "kick"]
    <3>1. Moves(t, "kick", {})
      BY <2>1, RowsAlone, WalkMoves DEF Defer, Path, ClaimInv, ActiveStarted, Registered
    <3> QED BY <3>1, MovesKeep
  <2>2. CASE \/ Defer(t) /\ pc' = [pc EXCEPT ![t] = AfterFinish(t)]
             \/ Kick(t)
    <3>1. Moves(t, AfterFinish(t), {})
      BY <2>2, EndMoves DEF Defer, Kick, Settled
    <3> QED BY <3>1, MovesKeep
  <2> QED BY <1>1, <2>1, <2>2 DEF Finish, Defer, GoTo
<1>2. ASSUME NEW l \in {"off", "claim"}, pc[Drain] \in {"check", "claim"},
             pc' = [pc EXCEPT ![Drain] = l],
             UNCHANGED <<store_vars, sub, claim, pend, active, fed, budget>>
      PROVE  ClaimInv'
  <2>1. /\ pc'[Drain] = l /\ \A u \in Task \ {Drain} : pc'[u] = pc[u]
        /\ active # Drain /\ pend[Drain] = {}
    BY <1>2, Tasks DEF Here, ClaimInv, ActiveStarted, Registered, MarksOwn
  <2>2. Moves(Drain, l, {})
    BY <1>2, <2>1, RowsAlone, Tasks DEF Moves, Idle, Held, Before, Streamed, Settled, Registered
  <2> QED BY <2>2, MovesKeep, Tasks
<1>3. CASE DrainCheck
  BY <1>2, <1>3 DEF DrainCheck, NextRound, GoTo
<1>4. CASE DrainClaim
  BY <1>2, <1>4, TakingOwns DEF DrainClaim, GoTo
<1>5. CASE Finalize
  BY <1>5, FinalizingKeeps
<1> QED BY <1>1, <1>3, <1>4, <1>5 DEF DrainLoop

\* _cancel_session: the registered task is cancelled, or none is alive.
LEMMA CancelOwns ==
  ASSUME Here, FedInv, ClaimInv, CancelSession, RowsSettle, RowsAs({}),
         UNCHANGED <<sub, claim, fed>>, budget'["crash"] = budget["crash"]
  PROVE  ClaimInv'
<1>1. CASE UNCHANGED <<pc, active, pend>>
  BY <1>1, StayingKeeps, Zenon
<1>2. ASSUME NEW t \in Task, t = active, Streaming(t), CancelTask(t) PROVE ClaimInv'
  <2>1. /\ t # AutoTurn /\ t # None /\ (Turnless(t) <=> t = Resume)
        /\ t \in Exec => pc[t] \in Registered
        /\ t = Resume => pc[t] \notin {"marker", "voiding"}
    BY <1>2, Tasks DEF Here, ClaimInv, ActiveStarted, MarksOwn, Turnless
  <2>2. CASE /\ pc[t] = "stream"
             /\ GoTo(t, IF t = Resume THEN "wrapup" ELSE "marker")
             /\ UNCHANGED <<active, pend>>
    <3>1. PICK l \in {"wrapup", "marker"} :
            pc' = [pc EXCEPT ![t] = l] /\ (t = Resume => l = "wrapup")
      BY <2>2 DEF GoTo
    <3>2. Path(pc[t], l) /\ l \in Registered /\ pc[t] # "voiding"
      BY <2>2, <3>1 DEF Path, Registered
    <3>3. /\ UNCHANGED pend /\ active' \in {active, None, t}
          /\ (active' = t => t \notin Exec \/ l \in Registered)
          /\ (pc[t] = "voiding" => pend[t] = {}) /\ (t = Resume => l # "marker")
      BY <2>2, <3>1, <3>2
    <3>4. Moves(t, l, {})
      BY <3>1, <3>2, <3>3, WalkMoves
    <3> QED BY <3>4, MovesKeep, Zenon
  <2>3. CASE /\ pc[t] \in {"prepare", "stream", "marker", "voiding", "wrapup"}
             /\ GoTo(t, CancelOf(t)) /\ FreeSlot(t) /\ pend' = [pend EXCEPT ![t] = {}]
    <3>1. /\ CancelOf(t) \in {"defer", "aborted"} /\ (t # Resume => CancelOf(t) = "aborted")
          /\ active' \in {active, None} /\ (t = Resume => t \notin Exec)
      BY <2>1, <2>3, Tasks DEF CancelOf, FreeSlot, Released
    <3>2. Path(pc[t], CancelOf(t)) \/ (t \in {Resume, AutoTurn} /\ CancelOf(t) # "voiding")
      BY <2>3, <3>1 DEF Path
    <3>3. active' = t => t \notin Exec \/ CancelOf(t) \in Registered
      BY <3>1 DEF Registered
    <3>4. Moves(t, CancelOf(t), {})
      BY <2>3, <3>1, <3>2, <3>3, WalkMoves DEF GoTo
    <3> QED BY <3>4, MovesKeep, Zenon
  <2>4. CASE pc[t] = "spawned" /\ GoTo(t, "off") /\ UNCHANGED <<active, pend>>
    <3>1. t = Resume /\ t \notin Exec
      BY <1>2, <2>1, <2>4, Tasks DEF Registered
    <3>2. Moves(t, "off", {})
      BY <2>4, <3>1, WalkMoves DEF GoTo
    <3> QED BY <3>2, MovesKeep, Zenon
  <2> QED BY <1>2, <2>2, <2>3, <2>4 DEF CancelTask
<1>3. active \in Task \cup {None}
  BY DEF Here
<1> QED BY <1>1, <1>2, <1>3 DEF CancelSession, Live

\* What the user does: of the rows it touches only a queued one, which nobody
\* carries.
LEMMA UserOwns ==
  ASSUME Here, FedInv, ClaimInv, User \/ TriggerAuto \/ AutoGate
  PROVE  ClaimInv'
<1>1. StoreTypeOK /\ Resume \in Task /\ AutoTurn \in Task /\ Resume \notin Exec
      /\ AutoTurn \notin Exec /\ None \notin Task
  BY Tasks DEF Here
<1>2. ASSUME NEW b \in {"stop", "edit", "auto", "pause", "crash"}, b # "crash", Spend(b)
      PROVE  budget'["crash"] = budget["crash"]
  BY <1>2 DEF Spend, Here
<1>3. CASE Stop
  BY <1>2, <1>3, RowsAlone, CancelOwns DEF Stop
<1>4. ASSUME NEW i \in DOMAIN rows, CancelMessage(i) PROVE ClaimInv'
  <2>1. RowsSettle /\ RowsAs({i}) /\ rows'[i].status = "VOIDED"
    BY <1>1, <1>4, MarkWrites DEF CancelMessage, CancelQueued, MarkTerminal, Active, Queued,
                                  ActiveStatus
  <2>2. \A e \in Exec : pc[e] \in Held => Own(e) \notin {i}
    BY <1>4 DEF ClaimInv, HolderHasClaim, Claimed, CancelMessage, CancelQueued, Queued
  <2>3. /\ UNCHANGED <<sub, claim, fed, pc, active, pend>>
        /\ budget'["crash"] = budget["crash"]
    BY <1>2, <1>4 DEF CancelMessage, mem_vars
  <2>4. \A j \in {i} \cap DOMAIN rows :
          rows'[j].status = "DELIVERED" => rows[j].status = "DELIVERED"
    BY <2>1
  <2> QED BY <2>1, <2>2, <2>3, <2>4, StayingKeeps
<1>5. ASSUME NEW i \in DOMAIN rows, SendNow(i) PROVE ClaimInv'
  BY <1>1, <1>2, <1>5, PriorityWrites, CancelOwns DEF SendNow
<1>6. ASSUME StartResume PROVE ClaimInv'
  <2>1. Moves(Resume, "spawned", {})
    BY <1>1, <1>6, RowsAlone, WalkMoves DEF StartResume, GoTo
  <2> QED BY <1>1, <2>1, MovesKeep, Zenon
<1>7. CASE HitlResponse \/ HitlResume
  BY <1>6, <1>7, RowsAlone, CancelOwns DEF HitlResponse, HitlResume
<1>8. CASE TriggerAuto \/ AutoGate
  <2>1. PICK l \in {"gate", "off", "spawned"} : pc' = [pc EXCEPT ![AutoTurn] = l]
    BY <1>8 DEF TriggerAuto, AutoGate, GoTo
  <2>2. /\ UNCHANGED <<store_vars, sub, claim, fed, pend, active>>
        /\ budget'["crash"] = budget["crash"] /\ pc[AutoTurn] # "voiding"
    BY <1>2, <1>8 DEF TriggerAuto, AutoGate
  <2>3. Moves(AutoTurn, l, {})
    BY <1>1, <2>1, <2>2, RowsAlone, WalkMoves, Tasks
  <2> QED BY <1>1, <2>3, MovesKeep, Zenon
<1> QED BY <1>3, <1>4, <1>5, <1>7, <1>8 DEF User

\* A restart: no turn survives, and delivered rows stay delivered.
LEMMA RestartOwns ==
  ASSUME Here, FedInv, ClaimInv, budget["crash"] <= MaxCrash, NEW covered \in BOOLEAN,
         Restart(covered)
  PROVE  ClaimInv'
<1>1. StartsOver
  BY RestartKind
<1>2. /\ \A t \in Task : pc'[t] = "off" /\ pend'[t] = {}
      /\ \A e \in Exec : claim'[e] = 0
      /\ active' = None /\ UNCHANGED fed
  BY <1>1 DEF Restart, StartsOver
<1>3. /\ Exec \subseteq Task /\ Sub \subseteq Exec /\ Drain \in Exec /\ None \notin Exec
      /\ AutoTurn \in Task /\ Resume \in Task
  BY Tasks
<1>4. HolderHasClaim' /\ SubmissionHasRow' /\ IdleDrain' /\ StreamedOwn' /\ SettledOwn'
  BY <1>2, <1>3 DEF HolderHasClaim, SubmissionHasRow, IdleDrain, StreamedOwn, SettledOwn,
                    Held, Before, Streamed, Settled
<1>5. MarksOwn' /\ ActiveStarted'
  BY <1>2, <1>3 DEF MarksOwn, ActiveStarted
<1>6. DeliveredWasFed'
  <2>1. ASSUME NEW k \in Sub, RowOf(k) # 0, rows'[RowOf(k)].status = "DELIVERED"
        PROVE  \E n \in DOMAIN fed : fed[n].msg = k
    <3>1. RowOf(k) \in DOMAIN rows
      BY <2>1, OwnRows
    <3>2. rows[RowOf(k)].status = "DELIVERED"
      BY <1>1, <2>1, <3>1 DEF StartsOver
    <3> QED BY <2>1, <3>2 DEF ClaimInv, DeliveredWasFed
  <2>2. \A k \in Sub : sub'[k].row = sub[k].row
    BY <1>1 DEF StartsOver
  <2> QED BY <1>2, <2>1, <2>2 DEF DeliveredWasFed, RowOf
<1>7. Owned'
  <2>1. budget'["crash"] # MaxCrash
    BY <1>1, Tasks DEF StartsOver, Here
  <2> QED BY <2>1 DEF Owned
<1> QED BY <1>4, <1>5, <1>6, <1>7 DEF ClaimInv

\* The invariant holds before the first submission.
LEMMA InitHasClaimInv ==
  ASSUME Init
  PROVE  ClaimInv
<1>1. /\ rows = <<>> /\ fed = <<>> /\ DOMAIN rows = {} /\ active = None
      /\ \A t \in Task : pc[t] = "off" /\ pend[t] = {}
      /\ \A k \in Sub : RowOf(k) = 0
      /\ \A e \in Exec : claim[e] = 0
  BY DEF Init, StoreInit, RowOf
<1> QED BY <1>1, Tasks DEF ClaimInv, HolderHasClaim, SubmissionHasRow, IdleDrain, MarksOwn,
                           ActiveStarted, StreamedOwn, SettledOwn, DeliveredWasFed, Owned, Held,
                           Before, Streamed, Settled

\* Every step from an orderly state keeps it.
LEMMA StepKeepsClaimInv ==
  ASSUME TurnInv, FedInv, ClaimInv, Orderly, [Next]_vars
  PROVE  ClaimInv'
<1>1. Here /\ budget["crash"] <= MaxCrash /\ OneClaim
  BY TurnInvIsHere DEF TurnInv, BudgetOK, Orderly
<1>2. CASE UNCHANGED vars
  <2>1. /\ UNCHANGED <<store_vars, sub, claim, fed, pc, active, pend, budget>>
        /\ \A e \in Exec : pc[e] \in Held => Own(e) \notin {}
    BY <1>2 DEF vars, turn_vars, mem_vars
  <2> QED BY <1>1, <2>1, RowsAlone, StayingKeeps
<1>3. CASE Next
  <2>1. ASSUME NEW k \in Sub, Submit(k) PROVE ClaimInv'
    BY <1>1, <2>1, SubmitKind, SubmitStays, WritingOwns
  <2>2. ASSUME NEW k \in Sub, LaneSlot(k) \/ Resolve(k) PROVE ClaimInv'
    BY <1>1, <2>2, ExecutingKeeps, Tasks
  <2>3. ASSUME NEW e \in Exec, Execute(e) PROVE ClaimInv'
    BY <1>1, <2>3, ExecutingKeeps
  <2>4. ASSUME NEW t \in Task, Stream(t) PROVE ClaimInv'
    BY <1>1, <2>4, StreamingKeeps
  <2>5. CASE (\E t \in Task : Finish(t)) \/ DrainLoop
    BY <1>1, <2>5, DrainingKeeps
  <2>6. CASE User \/ TriggerAuto \/ AutoGate
    BY <1>1, <2>6, UserOwns
  <2>7. ASSUME NEW covered \in BOOLEAN, Restart(covered) PROVE ClaimInv'
    BY <1>1, <2>7, RestartOwns
  <2> QED BY <1>3, <2>1, <2>2, <2>3, <2>4, <2>5, <2>6, <2>7 DEF Next
<1> QED BY <1>2, <1>3

\* In an orderly session every turn keeps to the row of the message it was
\* started for: through adoption, stops, markers, errors and restarts.
THEOREM ClaimInvariant == Spec => ([]Orderly => []ClaimInv)
<1>1. Init => ClaimInv
  BY InitHasClaimInv
<1>2. TurnInv /\ FedInv /\ Orderly /\ ClaimInv /\ [Next]_vars => ClaimInv'
  BY StepKeepsClaimInv
<1> QED BY <1>1, <1>2, TurnInvariant, FedInvariant, PTL DEF Spec

\* A row of an orderly session says DELIVERED only if its message was fed to
\* the graph, by whichever turn and across whichever crash: nothing is
\* acknowledged and lost.
THEOREM DeliveredMeansFed == Spec => ([]Orderly => []DeliveredWasFed)
<1>1. ClaimInv => DeliveredWasFed
  BY DEF ClaimInv
<1> QED BY <1>1, ClaimInvariant, PTL

\* Until the process crashes, a CLAIMED row of an orderly session belongs to a
\* task that is still on its way to finalize it: the session does not stay
\* busy for a turn that nobody runs.
THEOREM ClaimsOwned ==
  Spec => ([]Orderly => [](budget["crash"] = MaxCrash => ClaimHasOwner))
<1>1. TurnInv /\ FedInv /\ ClaimInv => (budget["crash"] = MaxCrash => ClaimHasOwner)
  <2> SUFFICES ASSUME Here, FedInv, ClaimInv, budget["crash"] = MaxCrash,
                      NEW i \in DOMAIN rows, Claimed(i)
               PROVE  (pc[Drain] # "off" /\ claim[Drain] = i) \/ pc[MsgOf(i)] # "off"
    BY TurnInvIsHere DEF ClaimHasOwner
  <2>1. i # 0
    BY DEF Here
  <2>2. CASE claim[Drain] = i
    BY <2>1, <2>2 DEF ClaimInv, IdleDrain, Idle
  <2>3. ASSUME NEW k \in Sub, RowOf(k) = i, pc[k] # "off" PROVE pc[MsgOf(i)] # "off"
    <3>1. MsgOf(i) \in Sub /\ RowOf(MsgOf(i)) = i
      BY <2>3 DEF MsgOf
    <3>2. MsgOf(i) = k
      BY <2>1, <2>3, <3>1 DEF FedInv, RowsNamed
    <3> QED BY <2>3, <3>2
  <2> QED BY <2>2, <2>3 DEF ClaimInv, Owned
<1> QED BY <1>1, TurnInvariant, FedInvariant, ClaimInvariant, PTL

\* No two turns of messages stream at a time.
MessagesAlone == \A d, e \in Exec : pc[d] = "stream" /\ pc[e] = "stream" => d = e

\* In an orderly session no message enters the graph beside another's turn
\* ("never two concurrent streams per session", for the turns that own a row).
THEOREM MessagesStreamAlone == Spec => ([]Orderly => []MessagesAlone)
<1>1. TurnInv /\ FedInv /\ ClaimInv /\ Orderly => MessagesAlone
  <2> SUFFICES ASSUME Here, FedInv, ClaimInv, OneClaim, NEW d \in Exec, NEW e \in Exec,
                      pc[d] = "stream", pc[e] = "stream"
               PROVE  d = e
    BY TurnInvIsHere DEF MessagesAlone, Orderly
  <2>1. pc[d] \in Held /\ pc[e] \in Held
    BY DEF Held
  <2>2. /\ Own(d) \in DOMAIN rows /\ Claimed(Own(d))
        /\ Own(e) \in DOMAIN rows /\ Claimed(Own(e))
    BY <2>1, OwnRows DEF ClaimInv, HolderHasClaim
  <2>3. Own(d) \in ClaimedRows(sess) /\ Own(e) \in ClaimedRows(sess)
    BY <2>2 DEF ClaimedRows, ActiveRows, Active, ActiveStatus, Claimed, FedInv, RowsLive
  <2>4. Own(d) = Own(e)
    BY <2>3 DEF OneClaim
  <2> QED BY <2>1, <2>4, OwnRows
<1> QED BY <1>1, TurnInvariant, FedInvariant, ClaimInvariant, PTL
---------------------------------------------------------------------------
(* FedInOrder *)

\* The two ways a message gets ahead of an earlier one in an orderly session: it
\* is sent ahead, or it starts a turn of its own while the drain that was woken
\* for the queue has not claimed yet.
NoneSentAhead == \A i \in DOMAIN rows : rows[i].priority = 0
IdleFindsNone == \A k \in Sub : sub[k].pc = "write" /\ ~sub[k].busy =>
                   \A i \in DOMAIN rows : ~Queued(i)
InLine == Orderly /\ NoneSentAhead /\ IdleFindsNone

\* Whoever is ahead of a row that has left the queue for a turn has left it too,
\* and is done once that turn has begun.
OrderInv ==
  budget["crash"] = MaxCrash =>
    /\ \A i, j \in DOMAIN rows : j < i /\ (Claimed(i) \/ WasFed(i)) => ~Queued(j)
    /\ \A i, j \in DOMAIN rows : j < i /\ WasFed(i) => ~Active(j)
    /\ FedInOrder

\* Nothing is fed and no row comes or leaves the queue for a turn.
LEMMA SettlingOrders ==
  ASSUME Here, OrderInv, RowsSettle, UNCHANGED fed, budget'["crash"] = budget["crash"],
         \A k \in Sub : sub'[k].row = sub[k].row
  PROVE  OrderInv'
<1>1. /\ DOMAIN rows' = DOMAIN rows
      /\ \A i \in DOMAIN rows :
           \/ rows'[i].status = rows[i].status
           \/ Active(i) /\ rows'[i].status \in {"DELIVERED", "VOIDED"}
  BY DEF RowsSettle, RowsAs, Here
<1>2. \A n \in DOMAIN fed : sub'[fed[n].msg].row = sub[fed[n].msg].row
  BY FedTyped
<1>3. \A i \in DOMAIN rows : (\E n \in DOMAIN fed' : sub'[fed'[n].msg].row = i) <=> WasFed(i)
  BY <1>2 DEF WasFed, RowOf
<1>4. FedInOrder => FedInOrder'
  BY <1>2 DEF FedInOrder, RowOf
<1>5. \A i \in DOMAIN rows :
        /\ rows'[i].status = "QUEUED" => Queued(i)
        /\ rows'[i].status = "CLAIMED" => Claimed(i)
        /\ rows'[i].status \in ActiveStatus => Active(i)
  BY <1>1 DEF Queued, Claimed, Active, ActiveStatus
<1> QED BY <1>1, <1>3, <1>4, <1>5 DEF OrderInv, WasFed, RowOf, Claimed, Queued, Active

\* A submission's row is the last; it starts a turn only if none is queued.
LEMMA WritingOrders ==
  ASSUME Here, FedInv, IdleFindsNone, OrderInv, NEW k \in Sub, Submit(k), SubmitWrites(k)
  PROVE  OrderInv'
<1> DEFINE n == Len(rows) + 1
<1>1. /\ sub[k].pc = "write" /\ UNCHANGED <<fed, budget>> /\ sub'[k].row = n
      /\ \A j \in Sub \ {k} : sub'[j] = sub[j]
      /\ DOMAIN rows = 1 .. Len(rows) /\ DOMAIN rows' = 1 .. n /\ Len(rows) \in Nat
      /\ \A i \in DOMAIN rows : rows'[i] = rows[i]
      /\ RowOf(k) = 0
  BY DEF SubmitWrites, Here, RowsAccepted, RowOf
<1>2. rows'[n].status = "CLAIMED" => \A i \in DOMAIN rows : ~Queued(i)
  <2>1. CASE sub[k].busy
    <3>1. SubmitBusy(k)
      BY <1>1, <2>1 DEF Submit, AcquireLock, FindActive, FindDelivered, DetectState,
                        PlaceholderCheck, ReadInterrupt, SubmitIdle, SubStep, SubReturn
    <3>2. Enqueue(sess, KeyOf[k])
      BY <1>1, <3>1 DEF SubmitBusy, store_vars
    <3>3. rows' = Append(rows, NewRow(sess, KeyOf[k], "QUEUED"))
      BY <3>2 DEF Enqueue, Insert
    <3>4. NewRow(sess, KeyOf[k], "QUEUED").status = "QUEUED"
      BY DEF NewRow
    <3>5. rows'[n] = NewRow(sess, KeyOf[k], "QUEUED")
      BY <1>1, <3>3 DEF Here
    <3> QED BY <3>4, <3>5
  <2>2. CASE ~sub[k].busy
    BY <1>1, <2>2 DEF IdleFindsNone
  <2> QED BY <2>1, <2>2
<1>3. \A m \in DOMAIN fed : fed[m].msg \in Sub /\ fed[m].msg # k /\ RowOf(fed[m].msg) \in DOMAIN rows
  BY <1>1, FedTyped DEF FedInv, FedDone, Here, RowOf
<1>4. \A m \in DOMAIN fed : sub'[fed[m].msg].row = sub[fed[m].msg].row
  BY <1>1, <1>3
<1>5. /\ \A i \in DOMAIN rows : (\E m \in DOMAIN fed : sub'[fed[m].msg].row = i) <=> WasFed(i)
      /\ ~\E m \in DOMAIN fed : sub'[fed[m].msg].row = n
  BY <1>1, <1>3, <1>4 DEF WasFed, RowOf
<1>6. FedInOrder => FedInOrder'
  BY <1>1, <1>4 DEF FedInOrder, RowOf
<1> HIDE DEF n
<1>7. ASSUME budget["crash"] = MaxCrash, NEW i \in 1 .. n, NEW j \in 1 .. n, j < i
      PROVE  /\ rows'[i].status = "CLAIMED" \/ (\E m \in DOMAIN fed : sub'[fed[m].msg].row = i)
                  => rows'[j].status # "QUEUED"
             /\ (\E m \in DOMAIN fed : sub'[fed[m].msg].row = i)
                  => rows'[j].status \notin ActiveStatus
  <2>1. j \in DOMAIN rows /\ (i \in DOMAIN rows \/ i = n)
    BY <1>1, <1>7 DEF n
  <2>2. CASE i = n
    BY <1>1, <1>2, <1>5, <2>1, <2>2 DEF Queued
  <2>3. CASE i \in DOMAIN rows
    BY <1>1, <1>5, <1>7, <2>1, <2>3 DEF OrderInv, Queued, Claimed, Active
  <2> QED BY <2>1, <2>2, <2>3
<1> QED BY <1>1, <1>6, <1>7 DEF OrderInv, WasFed, RowOf, Claimed, Queued, Active

\* The drain takes the row that has waited longest.
LEMMA TakingOrders ==
  ASSUME TurnInv, FedInv, NoneSentAhead, OrderInv, [Next]_vars, DrainTakes
  PROVE  OrderInv'
<1>1. PICK i \in DOMAIN rows :
        /\ Queued(i) /\ rows'[i].status = "CLAIMED" /\ DOMAIN rows' = DOMAIN rows
        /\ \A j \in DOMAIN rows : j # i => rows'[j].status = rows[j].status
  BY TurnInvIsHere DEF DrainTakes, RowsAs, Here
<1>2. UNCHANGED <<sub, fed, budget>>
  BY DEF DrainTakes
<1>3. StoreTypeOK /\ DOMAIN rows = 1 .. Len(rows) /\ Len(rows) \in Nat
  BY TurnInvIsHere DEF Here
<1>4. MayEnter(i)
  <2>1. Enters(i)
    BY <1>1 DEF Enters, Queued
  <2>2. PICK s \in Session : ClaimNext(s)
    BY <1>3, <2>1, StepIsStoreStep, OnlyClaimEnters
  <2> QED BY <1>3, <2>1, <2>2, ClaimTakesFirst
<1>5. ASSUME NEW j \in DOMAIN rows, j < i PROVE ~Queued(j)
  <2>1. \A m \in DOMAIN rows : rows[m] \in Row
    BY <1>3, RowsAreRows
  <2>2. /\ rows[j].session = rows[i].session /\ rows[j].priority = rows[i].priority
        /\ now = 0 /\ rows[j].created_at \in Nat /\ TTL \in Nat \ {0} /\ j # i /\ ~(i < j)
    BY <1>3, <1>5, <2>1, QueueAssumption DEF FedInv, RowsLive, NoneSentAhead, Row
  <2>3. now < rows[j].created_at + TTL
    BY <2>2
  <2>4. ~(rows[j].priority < rows[i].priority)
    BY <1>5, <2>2 DEF NoneSentAhead
  <2> QED BY <1>4, <2>2, <2>3, <2>4 DEF MayEnter, Queued
<1>6. FedInOrder => FedInOrder'
  BY <1>2 DEF FedInOrder, RowOf
<1>7. ASSUME budget["crash"] = MaxCrash, NEW h \in DOMAIN rows, NEW j \in DOMAIN rows, j < h
      PROVE  /\ rows'[h].status = "CLAIMED" \/ WasFed(h) => rows'[j].status # "QUEUED"
             /\ WasFed(h) => rows'[j].status \notin ActiveStatus
  BY <1>1, <1>5, <1>7 DEF OrderInv, Queued, Claimed, Active, ActiveStatus
<1> QED BY <1>1, <1>2, <1>6, <1>7 DEF OrderInv, WasFed, RowOf, Claimed, Queued, Active

\* What enters the graph is claimed, and what is done does not come back.
LEMMA FeedingOrders ==
  ASSUME Here, FedInv, ClaimInv, OneClaim, OrderInv, NEW e \in Exec, NEW k \in Sub, Feeds(e, k)
  PROVE  OrderInv'
<1> DEFINE r == RowOf(k)
<1>1. /\ UNCHANGED <<rows, sub, budget>> /\ r = Own(e) /\ pc[e] \in Held
  BY Tasks DEF Feeds, Own, Held, Before, store_vars
<1>2. /\ r \in DOMAIN rows /\ Claimed(r) /\ DOMAIN rows = 1 .. Len(rows) /\ Len(rows) \in Nat
  BY <1>1, OwnRows DEF ClaimInv, HolderHasClaim, Here
<1>3. ASSUME NEW j \in DOMAIN rows, Claimed(j) PROVE j = r
  BY <1>2, <1>3 DEF OneClaim, ClaimedRows, ActiveRows, Active, ActiveStatus, Claimed, FedInv,
                    RowsLive
<1>4. /\ DOMAIN fed = 1 .. Len(fed) /\ Len(fed) \in Nat
      /\ \A m \in DOMAIN fed : RowOf(fed[m].msg) \in DOMAIN rows
  BY FedTyped DEF FedInv, FedDone, Here, RowOf
<1>5. /\ DOMAIN fed' = 1 .. Len(fed) + 1
      /\ \A m \in 1 .. Len(fed) : fed'[m] = fed[m]
      /\ fed'[Len(fed) + 1].msg = k
  <2>1. /\ fed \in Seq([msg : Sub, left : 0 .. MaxCrash])
        /\ fed' = Append(fed, [msg |-> k, left |-> budget["crash"]])
    BY DEF Here, Feeds
  <2>2. /\ DOMAIN fed' = 1 .. Len(fed) + 1
        /\ \A m \in 1 .. Len(fed) : fed'[m] = fed[m]
        /\ fed'[Len(fed) + 1] = [msg |-> k, left |-> budget["crash"]]
    BY <1>4, <2>1
  <2> QED BY <2>2
<1>6. \A i : (\E m \in DOMAIN fed' : sub[fed'[m].msg].row = i) <=> WasFed(i) \/ i = r
  BY <1>4, <1>5 DEF WasFed, RowOf
<1> HIDE DEF r
<1>7. ASSUME budget["crash"] = MaxCrash, NEW i \in DOMAIN rows, NEW j \in DOMAIN rows, j < i
      PROVE  /\ Claimed(i) \/ WasFed(i) \/ i = r => ~Queued(j)
             /\ WasFed(i) \/ i = r => ~Active(j)
  <2>1. i = r => ~Queued(j) /\ ~Claimed(j)
    BY <1>2, <1>3, <1>7 DEF OrderInv
  <2>2. Active(j) <=> Queued(j) \/ Claimed(j)
    BY DEF Active, ActiveStatus, Queued, Claimed
  <2> QED BY <1>7, <2>1, <2>2 DEF OrderInv
<1>8. ASSUME budget["crash"] = MaxCrash PROVE FedInOrder'
  <2>1. ASSUME NEW m \in DOMAIN fed PROVE RowOf(fed[m].msg) <= r
    <3>1. WasFed(RowOf(fed[m].msg))
      BY <2>1 DEF WasFed
    <3>2. Active(r)
      BY <1>2 DEF Active, ActiveStatus, Claimed
    <3>3. ~(r < RowOf(fed[m].msg))
      BY <1>2, <1>4, <1>8, <3>1, <3>2 DEF OrderInv
    <3> QED BY <1>2, <1>4, <3>3
  <2>2. ASSUME NEW m \in DOMAIN fed', NEW h \in DOMAIN fed', m < h
        PROVE  RowOf(fed'[m].msg) <= RowOf(fed'[h].msg)
    <3>1. m \in DOMAIN fed /\ fed'[m] = fed[m]
      BY <1>4, <1>5, <2>2
    <3>2. CASE h \in DOMAIN fed
      BY <1>4, <1>5, <1>8, <2>2, <3>1, <3>2 DEF OrderInv, FedInOrder
    <3>3. CASE h = Len(fed) + 1
      BY <1>5, <2>1, <3>1, <3>3 DEF r
    <3> QED BY <1>4, <1>5, <3>2, <3>3
  <2> QED BY <1>1, <2>2 DEF FedInOrder, RowOf
<1> QED BY <1>1, <1>6, <1>7, <1>8 DEF OrderInv, WasFed, RowOf, Claimed, Queued, Active

\* Every step from such a state keeps the order.
LEMMA StepKeepsOrderInv ==
  ASSUME TurnInv, FedInv, ClaimInv, InLine, OrderInv, [Next]_vars
  PROVE  OrderInv'
<1>1. Here /\ OneClaim /\ IdleFindsNone /\ NoneSentAhead
  BY TurnInvIsHere DEF InLine, Orderly
<1>2. CASE TurnGoesOn
  BY <1>1, <1>2, SettlingOrders DEF TurnGoesOn
<1>3. ASSUME NEW k \in Sub, SubmitGoesOn(k) PROVE OrderInv'
  <2>1. UNCHANGED store_vars
    BY <1>3 DEF SubmitGoesOn, store_vars
  <2> QED BY <1>1, <1>3, <2>1, RowsAlone, SettlingOrders DEF SubmitGoesOn
<1>4. CASE StartsOver
  <2>1. budget'["crash"] # MaxCrash
    BY <1>1, <1>4, Tasks DEF TurnInv, BudgetOK, StartsOver, Here
  <2> QED BY <2>1 DEF OrderInv
<1>5. CASE DrainTakes
  BY <1>1, <1>5, TakingOrders
<1>6. ASSUME NEW e \in Exec, NEW k \in Sub, Feeds(e, k) PROVE OrderInv'
  BY <1>1, <1>6, FeedingOrders
<1>7. CASE UNCHANGED vars
  <2>1. /\ UNCHANGED store_vars /\ UNCHANGED <<sub, fed, budget>>
    BY <1>7 DEF vars, turn_vars
  <2> QED BY <1>1, <2>1, RowsAlone, SettlingOrders
<1>8. CASE Next
  <2>1. ASSUME NEW k \in Sub, Submit(k) PROVE OrderInv'
    BY <1>1, <1>3, <2>1, SubmitKind, WritingOrders
  <2>2. ASSUME NEW k \in Sub, LaneSlot(k) \/ Resolve(k) PROVE TurnGoesOn
    BY <1>1, <2>2, ExecuteKind, Tasks
  <2>3. ASSUME NEW covered \in BOOLEAN, Restart(covered) PROVE StartsOver
    BY <1>1, <2>3, RestartKind
  <2> QED BY <1>1, <1>2, <1>4, <1>5, <1>6, <1>8, <2>1, <2>2, <2>3, ExecuteKind, StreamKind,
             DrainKind, UserKind DEF Next
<1> QED BY <1>7, <1>8

\* Messages enter the graph in the order in which they were accepted, as long
\* as none is sent ahead and no idle submission overtakes the queue: the drain
\* keeps them in line through stops, cancels, pauses and auto turns, until the
\* process crashes.
THEOREM FedInAcceptedOrder ==
  Spec => ([]InLine => [](budget["crash"] = MaxCrash => FedInOrder))
<1>1. Init => OrderInv
  BY DEF Init, StoreInit, OrderInv, FedInOrder
<1>2. TurnInv /\ FedInv /\ ClaimInv /\ InLine /\ OrderInv /\ [Next]_vars => OrderInv'
  BY StepKeepsOrderInv
<1>3. InLine => Orderly
  BY DEF InLine
<1>4. OrderInv => (budget["crash"] = MaxCrash => FedInOrder)
  BY DEF OrderInv
<1> QED BY <1>1, <1>2, <1>3, <1>4, TurnInvariant, FedInvariant, ClaimInvariant, PTL DEF Spec

---------------------------------------------------------------------------
(* Where a second claim comes from *)

\* What makes a row one of the claimed ones, before and after a step.
LEMMA ClaimedMeans ==
  ASSUME TurnInv, [Next]_vars
  PROVE  /\ Here /\ DOMAIN rows' = 1 .. Len(rows') /\ Len(rows') \in Nat
         /\ \A i \in DOMAIN rows :
              rows[i].session = sess /\ rows[i].status = "CLAIMED" => i \in ClaimedRows(sess)
         /\ \A i \in ClaimedRows(sess)' :
              /\ i \in 1 .. Len(rows')
              /\ rows'[i].session = sess /\ rows'[i].status = "CLAIMED"
<1>1. Here
  BY TurnInvIsHere
<1>2. StoreTypeOK'
  BY StepKeepsTurnInv DEF TurnInv
<1>3. DOMAIN rows' = 1 .. Len(rows') /\ Len(rows') \in Nat
  BY <1>2 DEF StoreTypeOK
<1> QED BY <1>1, <1>3 DEF ClaimedRows, ActiveRows, Active, ActiveStatus, Claimed

\* Where rows settle, or go back to the queue, no claim is new.
LEMMA FewerClaims ==
  ASSUME TurnInv, [Next]_vars, RowsSettle \/ StartsOver \/ UNCHANGED rows
  PROVE  ClaimedRows(sess)' \subseteq ClaimedRows(sess)
<1>1. ASSUME NEW i \in ClaimedRows(sess)' PROVE i \in ClaimedRows(sess)
  <2>1. /\ DOMAIN rows = 1 .. Len(rows) /\ i \in 1 .. Len(rows')
        /\ rows'[i].session = sess /\ rows'[i].status = "CLAIMED"
    BY ClaimedMeans DEF Here
  <2>2. i \in DOMAIN rows /\ rows[i].session = sess
    BY <2>1 DEF RowsSettle, StartsOver, RowsAs
  <2>3. rows[i].status = "CLAIMED"
    BY <2>1, <2>2 DEF RowsSettle, StartsOver
  <2> QED BY <2>2, <2>3, ClaimedMeans
<1> QED BY <1>1

\* A step adds one claim at most.
LEMMA OneClaimAtATime ==
  ASSUME TurnInv, [Next]_vars
  PROVE  \E x : ClaimedRows(sess)' \subseteq ClaimedRows(sess) \cup {x}
<1>1. Here /\ DOMAIN rows = 1 .. Len(rows) /\ Len(rows) \in Nat
  BY ClaimedMeans DEF Here
<1>2. CASE DrainTakes
  <2>1. PICK x \in DOMAIN rows : RowsAs({x})
    BY <1>2 DEF DrainTakes
  <2>2. ASSUME NEW i \in ClaimedRows(sess)', i # x PROVE i \in ClaimedRows(sess)
    <3>1. /\ i \in 1 .. Len(rows')
          /\ rows'[i].session = sess /\ rows'[i].status = "CLAIMED"
      BY ClaimedMeans
    <3>2. i \in DOMAIN rows /\ rows[i].session = sess /\ rows[i].status = "CLAIMED"
      BY <1>1, <2>1, <2>2, <3>1 DEF RowsAs
    <3> QED BY <3>2, ClaimedMeans
  <2> QED BY <2>2
<1>3. ASSUME NEW k \in Sub, SubmitWrites(k)
      PROVE  ClaimedRows(sess)' \subseteq ClaimedRows(sess) \cup {Len(rows) + 1}
  <2>1. ASSUME NEW i \in ClaimedRows(sess)', i # Len(rows) + 1 PROVE i \in ClaimedRows(sess)
    <3>1. /\ i \in 1 .. Len(rows')
          /\ rows'[i].session = sess /\ rows'[i].status = "CLAIMED"
      BY ClaimedMeans
    <3>2. i \in DOMAIN rows /\ rows'[i] = rows[i]
      BY <1>1, <1>3, <2>1, <3>1 DEF SubmitWrites
    <3> QED BY <3>1, <3>2, ClaimedMeans
  <2> QED BY <2>1
<1>4. RowsSettle \/ StartsOver \/ UNCHANGED rows =>
        ClaimedRows(sess)' \subseteq ClaimedRows(sess)
  BY FewerClaims
<1>5. \/ RowsSettle \/ StartsOver \/ UNCHANGED rows \/ DrainTakes
      \/ \E k \in Sub : SubmitWrites(k)
  BY <1>1, StepHasKind DEF StepKind, TurnGoesOn, SubmitGoesOn, Feeds, store_vars
<1>6. CASE ClaimedRows(sess)' \subseteq ClaimedRows(sess)
  BY <1>6
<1> QED BY <1>2, <1>3, <1>4, <1>5, <1>6

\* And only an idle submission and the drain add one.
LEMMA NoOtherClaim ==
  ASSUME TurnInv, [Next]_vars, ~DrainClaim, \A k \in Sub : ~SubmitIdle(k)
  PROVE  ClaimedRows(sess)' \subseteq ClaimedRows(sess)
<1>1. Here /\ DOMAIN rows = 1 .. Len(rows) /\ Len(rows) \in Nat
  BY ClaimedMeans DEF Here
<1>2. ASSUME NEW k \in Sub, Enqueue(sess, KeyOf[k])
      PROVE  ClaimedRows(sess)' \subseteq ClaimedRows(sess)
  <2>1. rows' = Append(rows, NewRow(sess, KeyOf[k], "QUEUED"))
    BY <1>2 DEF Enqueue, Insert
  <2>2. NewRow(sess, KeyOf[k], "QUEUED").status = "QUEUED"
    BY DEF NewRow
  <2>3. ASSUME NEW i \in ClaimedRows(sess)' PROVE i \in ClaimedRows(sess)
    <3>1. /\ i \in 1 .. Len(rows')
          /\ rows'[i].session = sess /\ rows'[i].status = "CLAIMED"
      BY ClaimedMeans
    <3>2. i \in DOMAIN rows /\ rows'[i] = rows[i]
      BY <1>1, <2>1, <2>2, <3>1
    <3> QED BY <3>1, <3>2, ClaimedMeans
  <2> QED BY <2>3
<1>3. ASSUME NEW k \in Sub, Submit(k)
      PROVE  Enqueue(sess, KeyOf[k]) \/ UNCHANGED rows
  BY <1>3 DEF Submit, AcquireLock, FindActive, FindDelivered, DetectState, PlaceholderCheck,
              ReadInterrupt, SubmitBusy, store_vars
<1>4. CASE TurnGoesOn \/ \E e \in Exec, k \in Sub : Feeds(e, k)
  BY <1>4, FewerClaims DEF TurnGoesOn, Feeds, store_vars
<1>5. ASSUME DrainLoop PROVE UNCHANGED rows \/ TurnGoesOn
  <2>1. CASE Finalize
    <3>1. claim'[Drain] = 0
      BY <1>1, <2>1, Tasks DEF Finalize, Here
    <3>2. ~DrainTakes
      <4>1. \A i \in DOMAIN rows : i # 0
        BY <1>1
      <4> QED BY <3>1, <4>1, Zenon DEF DrainTakes
    <3> QED BY <1>1, <1>5, <3>2, DrainKind
  <2>2. CASE DrainCheck
    BY <2>2 DEF DrainCheck, store_vars
  <2> QED BY <1>5, <2>1, <2>2 DEF DrainLoop
<1>6. CASE UNCHANGED vars
  BY <1>6, FewerClaims DEF vars, store_vars
<1>7. CASE Next
  <2>1. ASSUME NEW k \in Sub, LaneSlot(k) \/ Resolve(k) PROVE UNCHANGED rows
    BY <2>1 DEF LaneSlot, Resolve, store_vars
  <2>2. ASSUME NEW t \in Task, Finish(t) PROVE UNCHANGED rows
    BY <2>2 DEF Finish, Defer, Kick, store_vars
  <2>3. ASSUME NEW covered \in BOOLEAN, Restart(covered) PROVE StartsOver
    BY <1>1, <2>3, RestartKind
  <2> QED BY <1>1, <1>2, <1>3, <1>4, <1>5, <1>7, <2>1, <2>2, <2>3, FewerClaims, ExecuteKind,
             StreamKind, UserKind DEF Next
<1> QED BY <1>6, <1>7

\* A second CLAIMED row comes from one of two places only, and each time from a
\* stale view of the session: an idle submission that writes its placeholder,
\* or the drain that takes a row, beside a claim it did not see.  Turns, stops,
\* markers, resumes and restarts never make one.
SecondClaimIsStale ==
  [][OneClaim /\ ~OneClaim' =>
       /\ ClaimedRows(sess) # {}
       /\ DrainClaim \/ \E k \in Sub : SubmitIdle(k)]_vars

\* Every loss of OneClaim is one of those two steps.
THEOREM SecondClaimsAreStale == Spec => SecondClaimIsStale
<1>1. TurnInv /\ [Next]_vars =>
        [OneClaim /\ ~OneClaim' =>
           /\ ClaimedRows(sess) # {}
           /\ DrainClaim \/ \E k \in Sub : SubmitIdle(k)]_vars
  <2> SUFFICES ASSUME TurnInv, [Next]_vars, OneClaim, ~OneClaim'
               PROVE  /\ ClaimedRows(sess) # {}
                      /\ DrainClaim \/ \E k \in Sub : SubmitIdle(k)
    OBVIOUS
  <2>1. ClaimedRows(sess) # {}
    BY OneClaimAtATime DEF OneClaim
  <2>2. ~(ClaimedRows(sess)' \subseteq ClaimedRows(sess))
    BY DEF OneClaim
  <2> QED BY <2>1, <2>2, NoOtherClaim
<1> QED BY <1>1, TurnInvariant, PTL DEF Spec, SecondClaimIsStale

---------------------------------------------------------------------------
(* A queue of one place *)

\* The auto turn stays away from a session that never triggers it.
AutoOff == pc[AutoTurn] = "off" /\ budget["auto"] = 0

\* Spending from another budget leaves that of the auto turn.
LEMMA SpendLeavesAuto ==
  ASSUME Here, NEW b \in {"stop", "edit", "auto", "pause", "crash"}, b # "auto", Spend(b)
  PROVE  budget'["auto"] = budget["auto"]
BY DEF Spend, Here

\* Nobody else moves the auto turn out of "off".
LEMMA StepKeepsAutoOff ==
  ASSUME Here, AutoOff, [Next]_vars
  PROVE  AutoOff'
<1>1. AutoTurn \in Task /\ AutoTurn \notin Sub /\ AutoTurn # Drain /\ AutoTurn # Resume
      /\ AutoTurn # None /\ active # AutoTurn /\ AutoTurn \notin Exec /\ pc[AutoTurn] = "off"
  BY Tasks DEF Here, AutoOff
<1>2. ASSUME NEW t \in Task, t # AutoTurn, NEW l,
             pc' = [pc EXCEPT ![t] = l] \/ pc' = Kicked(t) \/ UNCHANGED pc,
             budget'["auto"] = budget["auto"]
      PROVE  AutoOff'
  BY <1>1, <1>2 DEF AutoOff, Kicked, Here
<1>3. CASE UNCHANGED vars
  BY <1>3 DEF vars, turn_vars, mem_vars, AutoOff
<1>4. ASSUME NEW k \in Sub, Submit(k) PROVE AutoOff'
  <2>1. UNCHANGED budget /\ (pc' = [pc EXCEPT ![k] = "slot"] \/ UNCHANGED pc)
    BY <1>4 DEF Submit, AcquireLock, FindActive, FindDelivered, DetectState, PlaceholderCheck,
                ReadInterrupt, SubmitBusy, SubmitIdle, GoTo, turn_vars, mem_vars
  <2> QED BY <1>1, <1>2, <2>1, Tasks
<1>5. ASSUME NEW e \in Exec, Execute(e) \/ (e \in Sub /\ (LaneSlot(e) \/ Resolve(e)))
      PROVE  AutoOff'
  <2>1. /\ UNCHANGED budget
        /\ pc' = Kicked(e) \/ \E l : pc' = [pc EXCEPT ![e] = l]
    BY <1>5 DEF Execute, Drive, Launch, Adopted, Aborted, Joined, LaneSlot, Resolve, GoTo
  <2> QED BY <1>1, <1>2, <2>1, Tasks
<1>6. ASSUME NEW t \in Task, Stream(t) \/ Finish(t) PROVE AutoOff'
  <2>1. t # AutoTurn
    BY <1>1, <1>6 DEF Stream, StartChild, BeginStream, StreamEnds, StreamCut, ListMarked,
                      VoidMarked, WrapUp, Finish, Defer, Kick
  <2>2. \/ pc' = Kicked(t) \/ UNCHANGED pc
        \/ \E l : pc' = [pc EXCEPT ![t] = l]
    BY <1>6 DEF Stream, StartChild, BeginStream, StreamEnds, StreamCut, ListMarked, VoidMarked,
                WrapUp, Finish, Defer, Kick, GoTo
  <2>3. budget'["auto"] = budget["auto"]
    BY <1>6, SpendLeavesAuto DEF Stream, StartChild, BeginStream, StreamEnds, StreamCut,
                                 ListMarked, VoidMarked, WrapUp, Finish, Defer, Kick
  <2> QED BY <1>2, <2>1, <2>2, <2>3
<1>7. CASE DrainLoop
  <2>1. UNCHANGED budget /\ \E l : pc' = [pc EXCEPT ![Drain] = l]
    BY <1>7 DEF DrainLoop, DrainCheck, DrainClaim, Finalize, Launch, GoTo
  <2> QED BY <1>1, <1>2, <2>1, Tasks
<1>8. ASSUME CancelSession, budget'["auto"] = budget["auto"] PROVE AutoOff'
  <2>1. CASE UNCHANGED pc
    BY <1>8, <2>1 DEF AutoOff
  <2>2. CASE active \in Task /\ CancelTask(active)
    BY <1>1, <1>2, <1>8, <2>2 DEF CancelTask, GoTo
  <2> QED BY <1>8, <2>1, <2>2 DEF CancelSession, Live, Here
<1>9. ASSUME StartResume PROVE AutoOff'
  BY <1>1, <1>2, <1>9, Tasks DEF StartResume, GoTo
<1>10. CASE User
  <2>1. ASSUME Stop PROVE AutoOff'
    BY <1>8, <2>1, SpendLeavesAuto DEF Stop
  <2>2. ASSUME NEW i \in DOMAIN rows, CancelMessage(i) PROVE AutoOff'
    BY <2>2, SpendLeavesAuto DEF CancelMessage, mem_vars, AutoOff
  <2>3. ASSUME NEW i \in DOMAIN rows, SendNow(i) PROVE AutoOff'
    BY <1>8, <2>3, SpendLeavesAuto DEF SendNow
  <2>4. ASSUME HitlResponse \/ HitlResume PROVE AutoOff'
    BY <1>8, <1>9, <2>4 DEF HitlResponse, HitlResume
  <2> QED BY <1>10, <2>1, <2>2, <2>3, <2>4 DEF User
<1>11. ~TriggerAuto /\ ~AutoGate
  BY <1>1 DEF TriggerAuto, AutoGate, Spend, AutoOff
<1>12. ASSUME NEW covered \in BOOLEAN, Restart(covered) PROVE AutoOff'
  BY <1>1, <1>12, SpendLeavesAuto DEF Restart, AutoOff
<1> QED BY <1>3, <1>4, <1>5, <1>6, <1>7, <1>10, <1>11, <1>12, Tasks DEF Next

\* A queue with one place admits one active row, so no second claim: without
\* auto turns such a session is orderly, whatever its messages, stops, pauses
\* and crashes.
THEOREM OneSlotIsOrderly ==
  ASSUME Cap = 1, MaxAuto = 0
  PROVE  Spec => []Orderly
<1>1. Init => AutoOff
  BY Tasks DEF Init, AutoOff
<1>2. TurnInv /\ AutoOff /\ [Next]_vars => AutoOff'
  BY TurnInvIsHere, StepKeepsAutoOff
<1>3. TurnInv /\ AutoOff /\ CapRespected => Orderly
  <2> SUFFICES ASSUME Here, AutoOff, CapRespected PROVE Orderly
    BY TurnInvIsHere
  <2>1. IsFiniteSet(ActiveRows(sess)) /\ Cardinality(ActiveRows(sess)) <= 1
    <3>1. IsFiniteSet(1 .. Len(rows)) /\ ActiveRows(sess) \subseteq 1 .. Len(rows)
      BY FS_Interval DEF ActiveRows, Here
    <3> QED BY <3>1, FS_Subset, TurnAssumption DEF CapRespected
  <2>2. ASSUME NEW i \in ClaimedRows(sess) PROVE ActiveRows(sess) = {i}
    <3>1. {i} \in SUBSET ActiveRows(sess) /\ Cardinality({i}) = 1
      BY FS_Singleton DEF ClaimedRows
    <3>2. Cardinality({i}) <= Cardinality(ActiveRows(sess))
      BY <2>1, <3>1, FS_Subset
    <3>3. Cardinality(ActiveRows(sess)) \in Nat
      BY <2>1, FS_CardinalityType
    <3>4. Cardinality({i}) = Cardinality(ActiveRows(sess))
      BY <2>1, <3>1, <3>2, <3>3
    <3> QED BY <2>1, <3>1, <3>4, FS_Subset
  <2>3. \A i, j \in ClaimedRows(sess) : i = j
    BY <2>2
  <2> QED BY <2>3 DEF Orderly, OneClaim, AutoCutAlone, AutoOff
<1> QED BY <1>1, <1>2, <1>3, TurnInvariant, TurnsKeepKeysAndCap, PTL DEF Spec

\* So there no row is delivered without its message, and no two messages'
\* turns stream at a time.
THEOREM OneSlotSafe ==
  ASSUME Cap = 1, MaxAuto = 0
  PROVE  Spec => [](DeliveredWasFed /\ MessagesAlone)
BY OneSlotIsOrderly, DeliveredMeansFed, MessagesStreamAlone, PTL

---------------------------------------------------------------------------
(* A session of messages only *)

\* Nothing was ever paused, so nothing is resumed.
ResumeOff == /\ pc[Resume] = "off" /\ answered = None /\ ~parked /\ ~hitl
             /\ budget["pause"] = 0

\* Without a pause the graph is never parked, and nobody starts a resume.
LEMMA StepKeepsResumeOff ==
  ASSUME Here, ResumeOff, [Next]_vars
  PROVE  ResumeOff'
<1>1. /\ Resume \in Task /\ Resume \notin Sub /\ Resume # Drain /\ Resume # AutoTurn
      /\ Resume # None /\ Resume \notin Exec /\ AutoTurn \in Task /\ Drain \in Task
      /\ Sub \subseteq Task /\ Exec \subseteq Task
  BY Tasks
<1>2. ASSUME NEW b \in {"stop", "edit", "auto", "pause", "crash"}, b # "pause", Spend(b)
      PROVE  budget'["pause"] = budget["pause"]
  BY <1>2 DEF Spend, Here
<1>3. ASSUME NEW t \in Task, t # Resume, NEW l,
             pc' = [pc EXCEPT ![t] = l] \/ pc' = Kicked(t) \/ UNCHANGED pc
      PROVE  pc'[Resume] = "off"
  BY <1>1, <1>3 DEF ResumeOff, Kicked, Here
<1>4. CASE UNCHANGED vars
  BY <1>4 DEF vars, turn_vars, mem_vars, ResumeOff
<1>5. ASSUME NEW k \in Sub, Submit(k) PROVE ResumeOff'
  <2>1. /\ UNCHANGED <<answered, parked, hitl, budget>>
        /\ pc' = [pc EXCEPT ![k] = "slot"] \/ UNCHANGED pc
    BY <1>5 DEF Submit, AcquireLock, FindActive, FindDelivered, DetectState, PlaceholderCheck,
                ReadInterrupt, SubmitBusy, SubmitIdle, GoTo, turn_vars, mem_vars
  <2>2. pc'[Resume] = "off"
    BY <1>1, <1>3, <2>1
  <2> QED BY <2>1, <2>2 DEF ResumeOff
<1>6. ASSUME NEW e \in Exec, Execute(e) \/ (e \in Sub /\ (LaneSlot(e) \/ Resolve(e)))
      PROVE  ResumeOff'
  <2>1. /\ UNCHANGED <<answered, parked, hitl, budget>>
        /\ pc' = Kicked(e) \/ \E l : pc' = [pc EXCEPT ![e] = l]
    BY <1>6 DEF Execute, Drive, Launch, Adopted, Aborted, Joined, LaneSlot, Resolve, GoTo
  <2>2. pc'[Resume] = "off"
    BY <1>1, <1>3, <2>1
  <2> QED BY <2>1, <2>2 DEF ResumeOff
<1>7. ASSUME NEW t \in Task, Stream(t) \/ Finish(t) PROVE ResumeOff'
  <2>1. t # Resume
    BY <1>7 DEF ResumeOff, Stream, StartChild, BeginStream, StreamEnds, StreamCut, ListMarked,
                VoidMarked, WrapUp, Finish, Defer, Kick
  <2>2. \/ pc' = Kicked(t) \/ UNCHANGED pc
        \/ \E l : pc' = [pc EXCEPT ![t] = l]
    BY <1>7 DEF Stream, StartChild, BeginStream, StreamEnds, StreamCut, ListMarked, VoidMarked,
                WrapUp, Finish, Defer, Kick, GoTo
  <2>3. pc'[Resume] = "off"
    BY <1>3, <2>1, <2>2
  <2>4. ~Spend("pause")
    BY DEF Spend, ResumeOff
  <2>5. UNCHANGED <<answered, budget>> /\ ~parked' /\ ~hitl'
    <3>1. CASE WrapUp(t)
      <4>1. hitl' = (hitl \/ parked) /\ UNCHANGED <<answered, parked, budget>>
        BY <3>1 DEF WrapUp
      <4>2. ~parked /\ ~hitl
        BY DEF ResumeOff
      <4>3. ~hitl'
        BY <4>1, <4>2, Zenon
      <4> QED BY <4>1, <4>2, <4>3
    <3>2. CASE ~WrapUp(t)
      BY <1>7, <2>4, <3>2 DEF ResumeOff, Stream, StartChild, BeginStream, StreamEnds, StreamCut,
                              ListMarked, VoidMarked, Finish, Defer, Kick
    <3> QED BY <3>1, <3>2
  <2> QED BY <2>3, <2>5 DEF ResumeOff
<1>8. CASE DrainLoop
  <2>1. /\ UNCHANGED <<answered, parked, hitl, budget>>
        /\ \E l : pc' = [pc EXCEPT ![Drain] = l]
    BY <1>8 DEF DrainLoop, DrainCheck, DrainClaim, Finalize, Launch, GoTo
  <2>2. pc'[Resume] = "off"
    BY <1>1, <1>3, <2>1
  <2> QED BY <2>1, <2>2 DEF ResumeOff
<1>9. ASSUME CancelSession PROVE pc'[Resume] = "off"
  <2>1. CASE UNCHANGED pc
    BY <2>1 DEF ResumeOff
  <2>2. CASE active \in Task /\ CancelTask(active)
    BY <1>1, <1>3, <2>2 DEF CancelTask, GoTo, ResumeOff
  <2> QED BY <1>9, <2>1, <2>2 DEF CancelSession, Live, Here
<1>10. CASE User
  <2>1. ASSUME Stop PROVE ResumeOff'
    BY <1>2, <1>9, <2>1 DEF Stop, ResumeOff
  <2>2. ASSUME NEW i \in DOMAIN rows, CancelMessage(i) PROVE ResumeOff'
    BY <1>2, <2>2 DEF CancelMessage, mem_vars, ResumeOff
  <2>3. ASSUME NEW i \in DOMAIN rows, SendNow(i) PROVE ResumeOff'
    BY <1>2, <1>9, <2>3 DEF SendNow, ResumeOff
  <2>4. ~HitlResponse /\ ~HitlResume
    BY DEF HitlResponse, HitlResume, Asked, ResumeOff
  <2> QED BY <1>10, <2>1, <2>2, <2>3, <2>4 DEF User
<1>11. CASE TriggerAuto \/ AutoGate
  <2>1. /\ UNCHANGED <<answered, parked, hitl>> /\ budget'["pause"] = budget["pause"]
        /\ \E l : pc' = [pc EXCEPT ![AutoTurn] = l]
    BY <1>2, <1>11 DEF TriggerAuto, AutoGate, GoTo
  <2>2. pc'[Resume] = "off"
    BY <1>1, <1>3, <2>1
  <2> QED BY <2>1, <2>2 DEF ResumeOff
<1>12. ASSUME NEW covered \in BOOLEAN, Restart(covered) PROVE ResumeOff'
  BY <1>1, <1>2, <1>12 DEF Restart, ResumeOff
<1> QED BY <1>4, <1>5, <1>6, <1>7, <1>8, <1>10, <1>11, <1>12, Tasks DEF Next

\* Where no HITL pause and no auto turn comes in, a second CLAIMED row is the
\* only way to two streams in a session: stops, send-nows, resends and crashes
\* alone never make one.
THEOREM OneClaimOneStream ==
  ASSUME MaxAuto = 0, MaxPause = 0
  PROVE  Spec => ([]OneClaim => []OneStream)
<1>1. Init => AutoOff /\ ResumeOff
  BY Tasks DEF Init, AutoOff, ResumeOff
<1>2. TurnInv /\ AutoOff /\ ResumeOff /\ [Next]_vars => AutoOff' /\ ResumeOff'
  BY TurnInvIsHere, StepKeepsAutoOff, StepKeepsResumeOff
<1>3. AutoOff /\ OneClaim => Orderly
  BY DEF AutoOff, Orderly, AutoCutAlone
<1>4. AutoOff /\ ResumeOff /\ MessagesAlone => OneStream
  BY Tasks DEF AutoOff, ResumeOff, MessagesAlone, OneStream
<1> QED BY <1>1, <1>2, <1>3, <1>4, TurnInvariant, MessagesStreamAlone, PTL DEF Spec

\* With a queue of one place there is none.
THEOREM OneSlotOneStream ==
  ASSUME Cap = 1, MaxAuto = 0, MaxPause = 0
  PROVE  Spec => []OneStream
<1>1. Orderly => OneClaim
  BY DEF Orderly
<1> QED BY <1>1, OneSlotIsOrderly, OneClaimOneStream, PTL
===========================================================================
