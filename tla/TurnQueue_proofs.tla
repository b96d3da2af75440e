------------------------- MODULE TurnQueue_proofs -------------------------
(***************************************************************************)
(* Proofs about the turn machinery, for any number of submissions, any     *)
(* assignment of keys and any bounds: it implements the queue's            *)
(* specification, so that what is proved of the queue holds of every turn. *)
(***************************************************************************)
EXTENDS TurnQueue, InputQueue_proofs

\* The type invariant, the table's part aside, when row numbers go up to n.
MemoryAt(n) ==
  /\ sub \in [Sub -> [pc : SubPc, busy : BOOLEAN, row : 0 .. n, result : Result]]
  /\ lock \in Sub \cup {None}
  /\ pc \in [Task -> TaskPc]
  /\ claim \in [Exec -> 0 .. n]
  /\ wait \in [Exec -> Task \cup {None}]
  /\ pend \in [Task -> SUBSET (1 .. n)]
  /\ active \in (Task \ {AutoTurn}) \cup {None}
  /\ cancelling \subseteq Task /\ answered \in Task \cup {None}
  /\ answering \in BOOLEAN /\ hitl \in BOOLEAN /\ parked \in BOOLEAN
  /\ fed \in Seq([msg : Sub, left : 0 .. MaxCrash])
  /\ budget \in [{"stop", "edit", "auto", "pause", "crash"} -> Nat]

MemoryOK == MemoryAt(Len(rows))

\* Crashes only use the budget up.
BudgetOK == budget["crash"] <= MaxCrash

\* A submission that has not returned has no row yet, and every row is the
\* answer to a submission.
RowsAccepted == /\ \A k \in Sub : sub[k].pc # "done" => sub[k].row = 0
                /\ \A i \in 1 .. Len(rows) : \E k \in Sub : sub[k].row = i

\* A drain past its claim knows the row it took.
DrainHasRow == pc[Drain] \notin {"off", "check", "claim"} => claim[Drain] # 0

\* The inductive invariant.
TurnInv == StoreTypeOK /\ MemoryOK /\ BudgetOK /\ RowsAccepted /\ DrainHasRow

---------------------------------------------------------------------------
(* Every step on the table is one of the queue's *)

\* A terminal mark on a row that exists is a step of the queue, or none if the
\* row is not active.
LEMMA MarkIsStoreStep ==
  ASSUME NEW i \in DOMAIN rows, NEW st \in TerminalStatus,
         IF Active(i) THEN MarkTerminal(i, st) ELSE UNCHANGED store_vars
  PROVE  [StoreNext]_store_vars
  BY DEF StoreNext

\* A step of the turn machinery is a step of the queue or leaves it alone.
LEMMA StepIsStoreStep ==
  ASSUME TurnInv, [Next]_vars
  PROVE  [StoreNext]_store_vars
<1>1. /\ DOMAIN rows = 1 .. Len(rows) /\ Len(rows) \in Nat
      /\ claim \in [Exec -> 0 .. Len(rows)] /\ pend \in [Task -> SUBSET (1 .. Len(rows))]
      /\ sess \in Session /\ Drain \in Exec
      /\ \A k \in Sub : KeyOf[k] \in Key \cup {NoKey}
      /\ {"VOIDED", "DELIVERED"} \subseteq TerminalStatus
  BY RowsAreRows, TurnAssumption DEF TurnInv, MemoryOK, MemoryAt, Exec, TerminalStatus
<1>2. CASE UNCHANGED vars
  BY <1>2 DEF vars
<1>3. ASSUME NEW k \in Sub, Submit(k) PROVE [StoreNext]_store_vars
  <2>1. CASE SubmitBusy(k) \/ SubmitIdle(k)
    BY <1>1, <2>1 DEF SubmitBusy, SubmitIdle, StoreNext
  <2>2. CASE \/ AcquireLock(k) \/ FindActive(k) \/ FindDelivered(k) \/ DetectState(k)
             \/ PlaceholderCheck(k) \/ ReadInterrupt(k)
    BY <2>2 DEF AcquireLock, FindActive, FindDelivered, DetectState, PlaceholderCheck,
                ReadInterrupt
  <2> QED BY <1>3, <2>1, <2>2 DEF Submit
<1>4. ASSUME NEW k \in Sub, LaneSlot(k) \/ Resolve(k) PROVE [StoreNext]_store_vars
  BY <1>4 DEF LaneSlot, Resolve
<1>5. ASSUME NEW e \in Exec, Execute(e) PROVE [StoreNext]_store_vars
  <2>1. claim[e] # 0 => claim[e] \in DOMAIN rows
    BY <1>1
  <2>2. CASE Aborted(e)
    BY <1>1, <2>1, <2>2, MarkIsStoreStep DEF Aborted
  <2>3. CASE Joined(e)
    BY <1>1, <2>1, <2>3, MarkIsStoreStep DEF Joined
  <2>4. CASE Drive(e) \/ Adopted(e)
    BY <2>4 DEF Drive, Adopted
  <2> QED BY <1>5, <2>2, <2>3, <2>4 DEF Execute
<1>6. ASSUME NEW t \in Task, Stream(t) PROVE [StoreNext]_store_vars
  <2>1. CASE VoidMarked(t)
    <3>1. \A i \in pend[t] : i \in DOMAIN rows
      BY <1>1
    <3> QED BY <1>1, <2>1, <3>1, MarkIsStoreStep DEF VoidMarked
  <2>2. CASE \/ StartChild(t) \/ BeginStream(t) \/ StreamEnds(t) \/ StreamCut(t)
             \/ ListMarked(t) \/ WrapUp(t)
    BY <2>2 DEF StartChild, BeginStream, StreamEnds, StreamCut, ListMarked, WrapUp
  <2> QED BY <1>6, <2>1, <2>2 DEF Stream
<1>7. ASSUME NEW t \in Task, Finish(t) PROVE [StoreNext]_store_vars
  BY <1>7 DEF Finish, Defer, Kick
<1>8. CASE DrainLoop
  <2>1. CASE DrainCheck
    BY <2>1 DEF DrainCheck
  <2>2. CASE DrainClaim
    BY <1>1, <2>2 DEF DrainClaim, StoreNext
  <2>3. CASE Finalize
    <3>1. claim[Drain] \in DOMAIN rows
      BY <1>1, <2>3 DEF Finalize, TurnInv, DrainHasRow
    <3> QED BY <1>1, <2>3, <3>1, MarkIsStoreStep DEF Finalize
  <2> QED BY <1>8, <2>1, <2>2, <2>3 DEF DrainLoop
<1>9. CASE User
  <2>1. CASE Stop \/ HitlResponse \/ HitlResume
    BY <2>1 DEF Stop, HitlResponse, HitlResume, StartResume
  <2>2. ASSUME NEW i \in DOMAIN rows, CancelMessage(i) \/ SendNow(i)
        PROVE  [StoreNext]_store_vars
    BY <1>1, <2>2 DEF CancelMessage, SendNow, StoreNext
  <2> QED BY <1>9, <2>1, <2>2 DEF User
<1>10. CASE TriggerAuto \/ AutoGate
  BY <1>10 DEF TriggerAuto, AutoGate
<1>11. ASSUME NEW covered \in BOOLEAN, Restart(covered) PROVE [StoreNext]_store_vars
  BY <1>1, <1>11 DEF Restart, StoreNext
<1> QED BY <1>2, <1>3, <1>4, <1>5, <1>6, <1>7, <1>8, <1>9, <1>10, <1>11 DEF Next

\* The table keeps its rows and its type; it only ever gets longer.
LEMMA TableGrows ==
  ASSUME TurnInv, [Next]_vars
  PROVE  /\ StoreTypeOK' /\ Len(rows) \in Nat /\ Len(rows') \in Nat
         /\ Len(rows) <= Len(rows')
         /\ DOMAIN rows = 1 .. Len(rows) /\ DOMAIN rows' = 1 .. Len(rows')
<1>1. StoreTypeOK /\ [StoreNext]_store_vars
  BY StepIsStoreStep DEF TurnInv
<1>2. Len(rows) \in Nat /\ DOMAIN rows = 1 .. Len(rows)
  BY <1>1, RowsAreRows
<1>3. rows' \in Seq(Row) /\ Len(rows') \in {Len(rows), Len(rows) + 1}
  BY <1>1, StepShape, AddsAppends DEF Rewrites
<1>4. StoreTypeOK'
  BY <1>1, <1>3, StepShape DEF StoreTypeOK
<1>5. DOMAIN rows' = 1 .. Len(rows')
  BY <1>3, LenProperties
<1>6. Len(rows') \in Nat /\ Len(rows) <= Len(rows')
  BY <1>2, <1>3
<1> QED BY <1>2, <1>4, <1>5, <1>6

---------------------------------------------------------------------------
(* The memory of the process keeps its shape *)

\* The names of the tasks differ.
LEMMA Tasks ==
  /\ Exec = Sub \cup {Drain} /\ Task = Sub \cup {Drain, Resume, AutoTurn}
  /\ Drain # Resume /\ Drain # AutoTurn /\ Resume # AutoTurn
  /\ None \notin Task /\ Drain \notin Sub /\ Resume \notin Sub /\ AutoTurn \notin Sub
  /\ MaxCrash \in Nat
  BY TurnAssumption DEF Exec, Task

\* More rows, more row numbers.
LEMMA MemoryGrows ==
  ASSUME NEW m \in Nat, NEW n \in Nat, m <= n, MemoryAt(m)
  PROVE  MemoryAt(n)
<1>1. 0 .. m \subseteq 0 .. n /\ 1 .. m \subseteq 1 .. n
  OBVIOUS
<1>2. /\ claim \in [Exec -> 0 .. n] /\ pend \in [Task -> SUBSET (1 .. n)]
      /\ sub \in [Sub -> [pc : SubPc, busy : BOOLEAN, row : 0 .. n, result : Result]]
  BY <1>1 DEF MemoryAt
<1> QED BY <1>2 DEF MemoryAt

\* What a step knows of the state it starts in, n being the rows it ends with,
\* and the part of the invariant that each action is shown to keep.
Begins(n) == /\ StoreTypeOK /\ n \in Nat /\ n = Len(rows') /\ DOMAIN rows \subseteq 1 .. n
             /\ MemoryAt(n) /\ BudgetOK /\ DrainHasRow
Kept(n)   == MemoryAt(n)' /\ BudgetOK' /\ DrainHasRow'

\* submit_user_input: one submission's record, the lock, and the task that an
\* idle submission starts.
LEMMA SubmitKeeps ==
  ASSUME NEW n, Begins(n), NEW k \in Sub, Submit(k)
  PROVE  Kept(n)
<1> DEFINE SubType == [pc : SubPc, busy : BOOLEAN, row : 0 .. n, result : Result]
<1>1. /\ n \in Nat /\ n = Len(rows') /\ sub \in [Sub -> SubType]
      /\ lock \in Sub \cup {None}
  BY DEF Begins, MemoryAt
<1>2. sub[k] \in SubType /\ n \in 0 .. n
  BY <1>1
<1>3. \E r \in SubType : sub' = [sub EXCEPT ![k] = r]
  <2>1. CASE AcquireLock(k)
    BY <1>2, <2>1 DEF AcquireLock, SubStep, SubPc
  <2>2. CASE FindActive(k) \/ FindDelivered(k)
    BY <1>2, <2>2 DEF FindActive, FindDelivered, SubStep, SubReturn, SubPc, Result
  <2>3. CASE DetectState(k)
    <3>1. Busy \in BOOLEAN
      BY DEF Busy, SelfBusy, Live, Begins, MemoryAt
    <3> QED BY <1>2, <2>3, <3>1 DEF DetectState, SubPc
  <2>4. CASE PlaceholderCheck(k)
    BY <1>2, <2>4 DEF PlaceholderCheck, SubPc
  <2>5. CASE ReadInterrupt(k)
    BY <1>2, <2>5 DEF ReadInterrupt, SubPc, Begins, MemoryAt
  <2>6. CASE SubmitBusy(k) \/ SubmitIdle(k)
    BY <1>1, <1>2, <2>6 DEF SubmitBusy, SubmitIdle, SubReturn, SubPc, Result
  <2> QED BY <2>1, <2>2, <2>3, <2>4, <2>5, <2>6 DEF Submit
<1>4. sub' \in [Sub -> SubType]
  BY <1>1, <1>3
<1>5. lock' \in Sub \cup {None}
  BY <1>1 DEF Submit, AcquireLock, FindActive, FindDelivered, DetectState, PlaceholderCheck,
              ReadInterrupt, SubmitBusy, SubmitIdle, SubReturn
<1>6. pc' \in [Task -> TaskPc] /\ pc'[Drain] = pc[Drain]
  <2>1. pc' = pc \/ pc' = [pc EXCEPT ![k] = "slot"]
    BY DEF Submit, AcquireLock, FindActive, FindDelivered, DetectState, PlaceholderCheck,
           ReadInterrupt, SubmitBusy, SubmitIdle, GoTo, turn_vars, mem_vars
  <2> QED BY <2>1, Tasks DEF Begins, MemoryAt, TaskPc
<1>7. UNCHANGED <<claim, wait, pend, active, answering, cancelling, answered, hitl, parked,
                  fed, budget>>
  BY DEF Submit, AcquireLock, FindActive, FindDelivered, DetectState, PlaceholderCheck,
         ReadInterrupt, SubmitBusy, SubmitIdle, turn_vars, mem_vars
<1> HIDE DEF SubType
<1> QED
  BY <1>4, <1>5, <1>6, <1>7 DEF Begins, Kept, MemoryAt, BudgetOK, DrainHasRow, SubType

\* WsTurnExecutor.execute_batch.
LEMMA ExecuteKeeps ==
  ASSUME NEW n, Begins(n), NEW e \in Exec,
         \/ Execute(e)
         \/ e \in Sub /\ (LaneSlot(e) \/ Resolve(e))
  PROVE  Kept(n)
<1>1. /\ e \in Task /\ pc \in [Task -> TaskPc] /\ claim \in [Exec -> 0 .. n]
      /\ wait \in [Exec -> Task \cup {None}] /\ active \in (Task \ {AutoTurn}) \cup {None}
      /\ None \notin Task /\ Drain \in Task /\ Resume # Drain
  BY Tasks DEF Begins, MemoryAt
<1>2. CASE LaneSlot(e) \/ Drive(e) \/ Adopted(e)
  BY <1>1, <1>2 DEF LaneSlot, Drive, Launch, Adopted, GoTo, TaskPc,
                    Begins, Kept, MemoryAt, BudgetOK, DrainHasRow
<1>3. CASE e \in Sub /\ Resolve(e)
  <2>1. ClaimedRows(sess) # {} => First(ClaimedRows(sess)) \in 0 .. n
    <3>1. ClaimedRows(sess) \in SUBSET (1 .. Len(rows)) /\ StoreTypeOK
      BY RowsAreRows DEF Begins, ClaimedRows, ActiveRows
    <3> QED BY <3>1, FirstIsAhead, RowsAreRows DEF Begins
  <2>2. claim' \in [Exec -> 0 .. n] /\ (e # Drain => claim'[Drain] = claim[Drain])
    BY <1>1, <1>3, <2>1 DEF Resolve, Exec, Begins
  <2> QED BY <1>1, <1>3, <2>2, Tasks DEF Resolve, GoTo, TaskPc,
             Begins, Kept, MemoryAt, BudgetOK, DrainHasRow
<1>4. CASE Aborted(e)
  BY <1>1, <1>4 DEF Aborted, Released, GoTo, TaskPc,
                    Begins, Kept, MemoryAt, BudgetOK, DrainHasRow
<1>5. CASE Joined(e)
  BY <1>1, <1>5 DEF Joined, Released, Kicked, AfterFinish, TaskPc,
                    Begins, Kept, MemoryAt, BudgetOK, DrainHasRow
<1> QED BY <1>2, <1>3, <1>4, <1>5 DEF Execute

\* on_turn_finished, and the drain loop.
LEMMA DrainKeeps ==
  ASSUME NEW n, Begins(n), (\E t \in Task : Finish(t)) \/ DrainLoop
  PROVE  Kept(n)
<1>1. /\ pc \in [Task -> TaskPc] /\ claim \in [Exec -> 0 .. n]
      /\ wait \in [Exec -> Task \cup {None}] /\ active \in (Task \ {AutoTurn}) \cup {None}
      /\ None \notin Task /\ Drain \in Task /\ Drain \in Exec
  BY Tasks DEF Begins, MemoryAt
<1>2. ASSUME NEW t \in Task, Finish(t) PROVE Kept(n)
  BY <1>1, <1>2 DEF Finish, Defer, Kick, Kicked, AfterFinish, GoTo, TaskPc,
                    Begins, Kept, MemoryAt, BudgetOK, DrainHasRow
<1>3. CASE DrainCheck
  BY <1>1, <1>3 DEF DrainCheck, NextRound, GoTo, TaskPc,
                    Begins, Kept, MemoryAt, BudgetOK, DrainHasRow
<1>4. CASE DrainClaim
  <2>1. CASE Claimable(sess) = {}
    <3>1. UNCHANGED claim /\ UNCHANGED wait /\ pc' = [pc EXCEPT ![Drain] = "off"]
      BY <1>4, <2>1 DEF DrainClaim, ClaimNext, GoTo
    <3> QED BY <1>1, <1>4, <3>1 DEF DrainClaim, TaskPc,
                    Begins, Kept, MemoryAt, BudgetOK, DrainHasRow
  <2>2. CASE Claimable(sess) # {}
    <3>1. First(Claimable(sess)) \in 1 .. n
      <4>1. Claimable(sess) \in SUBSET (1 .. Len(rows)) /\ StoreTypeOK
        BY RowsAreRows DEF Begins, Claimable, ActiveRows
      <4> QED BY <2>2, <4>1, FirstIsAhead, RowsAreRows DEF Begins
    <3>2. claim' \in [Exec -> 0 .. n] /\ claim'[Drain] # 0
      BY <1>1, <1>4, <2>2, <3>1 DEF DrainClaim, Begins
    <3>3. Launch(Drain)
      BY <1>4, <2>2 DEF DrainClaim
    <3>4. pc' \in [Task -> TaskPc] /\ wait' \in [Exec -> Task \cup {None}]
      BY <1>1, <3>3 DEF Launch, Live, GoTo, TaskPc
    <3>5. UNCHANGED <<sub, lock, pend, active, answering, cancelling, answered, hitl, parked,
                      fed, budget>>
      BY <1>4 DEF DrainClaim
    <3> QED BY <3>2, <3>4, <3>5 DEF Begins, Kept, MemoryAt, BudgetOK, DrainHasRow
  <2> QED BY <2>1, <2>2
<1>5. CASE Finalize
  BY <1>1, <1>5 DEF Finalize, NextRound, GoTo, TaskPc,
                    Begins, Kept, MemoryAt, BudgetOK, DrainHasRow
<1> QED BY <1>2, <1>3, <1>4, <1>5 DEF DrainLoop

\* The stream of any task.
LEMMA StreamKeeps ==
  ASSUME NEW n, Begins(n), RowsAccepted, NEW t \in Task, Stream(t)
  PROVE  Kept(n)
<1>1. /\ pc \in [Task -> TaskPc] /\ claim \in [Exec -> 0 .. n]
      /\ pend \in [Task -> SUBSET (1 .. n)] /\ active \in (Task \ {AutoTurn}) \cup {None}
      /\ None \notin Task /\ Drain \in Task /\ Drain \in Exec
      /\ cancelling \subseteq Task
      /\ budget \in [{"stop", "edit", "auto", "pause", "crash"} -> Nat]
  BY Tasks DEF Begins, MemoryAt
<1>2. CASE StartChild(t)
  BY <1>1, <1>2 DEF StartChild, GoTo, TaskPc,
                    Begins, Kept, MemoryAt, BudgetOK, DrainHasRow
<1>3. CASE BeginStream(t)
  <2>1. Turnless(t) \/ (IF t = Drain THEN MsgOf(claim[t]) ELSE t) \in Sub
    <3>1. CASE t = Drain
      <4>1. claim[Drain] \in 1 .. n /\ pc[Drain] = "prepare"
        BY <1>1, <1>3, <3>1 DEF BeginStream, Begins, DrainHasRow
      <4>2. n = Len(rows)
        BY <1>3 DEF BeginStream, Begins, store_vars
      <4>3. \E k \in Sub : sub[k].row = claim[Drain]
        BY <4>1, <4>2 DEF RowsAccepted
      <4> QED BY <3>1, <4>3 DEF MsgOf, RowOf
    <3>2. CASE t # Drain
      BY <3>2, Tasks DEF Turnless
    <3> QED BY <3>1, <3>2
  <2>2. budget.crash \in 0 .. MaxCrash
    BY <1>1, Tasks DEF Begins, BudgetOK
  <2>3. fed' \in Seq([msg : Sub, left : 0 .. MaxCrash])
    BY <1>3, <2>1, <2>2, AppendProperties DEF BeginStream, Begins, MemoryAt
  <2> QED BY <1>1, <1>3, <2>3 DEF BeginStream, GoTo, TaskPc,
             Begins, Kept, MemoryAt, BudgetOK, DrainHasRow
<1>4. CASE StreamEnds(t)
  <2>1. pc' \in [Task -> TaskPc] /\ (t # Drain => pc'[Drain] = pc[Drain])
    BY <1>1, <1>4 DEF StreamEnds, EndOf, Turnless, GoTo, TaskPc
  <2>2. active' \in (Task \ {AutoTurn}) \cup {None}
    BY <1>1, <1>4 DEF StreamEnds, FreeSlot, Released
  <2>3. budget' = budget \/ Spend("pause")
    BY <1>4 DEF StreamEnds
  <2>4. /\ budget' \in [{"stop", "edit", "auto", "pause", "crash"} -> Nat]
        /\ budget'["crash"] = budget["crash"]
    BY <1>1, <2>3 DEF Spend
  <2>5. /\ UNCHANGED <<sub, lock, claim, wait, pend, cancelling, answered, hitl, fed>>
        /\ answering' \in BOOLEAN /\ parked' \in BOOLEAN
        /\ pc[t] = "stream"
    BY <1>4 DEF StreamEnds, Begins, MemoryAt
  <2> QED BY <2>1, <2>2, <2>4, <2>5 DEF Begins, Kept, MemoryAt, BudgetOK, DrainHasRow
<1>5. CASE StreamCut(t)
  BY <1>1, <1>5 DEF StreamCut, GoTo, TaskPc,
                    Begins, Kept, MemoryAt, BudgetOK, DrainHasRow
<1>6. CASE ListMarked(t)
  <2>1. ClaimedRows(sess) \subseteq 1 .. n
    BY DEF Begins, ClaimedRows, ActiveRows
  <2> QED BY <1>1, <1>6, <2>1 DEF ListMarked, GoTo, TaskPc,
             Begins, Kept, MemoryAt, BudgetOK, DrainHasRow
<1>7. CASE VoidMarked(t)
  <2>1. pend' \in [Task -> SUBSET (1 .. n)]
    BY <1>1, <1>7 DEF VoidMarked
  <2> QED BY <1>1, <1>7, <2>1 DEF VoidMarked, GoTo, TaskPc,
             Begins, Kept, MemoryAt, BudgetOK, DrainHasRow
<1>8. CASE WrapUp(t)
  BY <1>1, <1>8 DEF WrapUp, EndOf, Turnless, FreeSlot, Released, GoTo, TaskPc,
                    Begins, Kept, MemoryAt, BudgetOK, DrainHasRow
<1> QED BY <1>2, <1>3, <1>4, <1>5, <1>6, <1>7, <1>8 DEF Stream

---------------------------------------------------------------------------
(* The user, the auto turn, the restart *)

\* _cancel_session touches the task, its slot and its pending rows, and lets
\* the drain reach no point past a claim that it was not past already.
LEMMA CancelKeeps ==
  ASSUME NEW n, Begins(n), CancelSession
  PROVE  /\ pc' \in [Task -> TaskPc]
         /\ pend' \in [Task -> SUBSET (1 .. n)]
         /\ active' \in (Task \ {AutoTurn}) \cup {None}
         /\ cancelling' \subseteq Task /\ answering' \in BOOLEAN
         /\ \/ pc'[Drain] = pc[Drain]
            \/ pc[Drain] \notin {"off", "check", "claim"}
<1>1. /\ pc \in [Task -> TaskPc] /\ pend \in [Task -> SUBSET (1 .. n)]
      /\ active \in (Task \ {AutoTurn}) \cup {None} /\ answering \in BOOLEAN
      /\ cancelling \subseteq Task /\ None \notin Task /\ Drain \in Task
  BY Tasks DEF Begins, MemoryAt
<1>2. CASE ~Live(active) /\ UNCHANGED <<pc, active, pend, cancelling>> /\ answering' = FALSE
  BY <1>1, <1>2
<1>3. CASE Live(active) /\ CancelTask(active)
  <2>1. PICK t \in Task : t = active
    BY <1>1, <1>3 DEF Live
  <2>2. CancelTask(t)
    BY <1>3, <2>1
  <2>3. \/ pc' = [pc EXCEPT ![t] = "wrapup"] /\ pc[t] = "stream"
        \/ pc' = [pc EXCEPT ![t] = "marker"] /\ pc[t] = "stream"
        \/ /\ pc' = [pc EXCEPT ![t] = CancelOf(t)]
           /\ pc[t] \in {"prepare", "stream", "marker", "voiding", "wrapup"}
        \/ pc' = [pc EXCEPT ![t] = "off"] /\ pc[t] = "spawned"
    BY <2>2 DEF CancelTask, GoTo
  <2>4. pc' \in [Task -> TaskPc] /\ (t # Drain => pc'[Drain] = pc[Drain])
    BY <1>1, <2>3 DEF CancelOf, TaskPc
  <2>5. t = Drain => pc[Drain] \notin {"off", "check", "claim"}
    BY <2>3
  <2>6. active' \in (Task \ {AutoTurn}) \cup {None} /\ pend' \in [Task -> SUBSET (1 .. n)]
    BY <1>1, <2>2 DEF CancelTask, FreeSlot, Released
  <2>7. answering' \in BOOLEAN /\ cancelling' \subseteq Task
    BY <1>1, <2>2 DEF CancelTask
  <2> QED BY <2>4, <2>5, <2>6, <2>7
<1> QED BY <1>2, <1>3 DEF CancelSession

\* Spending the budget leaves it a budget; only a crash costs a crash.
LEMMA SpendKeeps ==
  ASSUME NEW n, Begins(n), NEW b \in {"stop", "edit", "auto", "pause", "crash"}, Spend(b)
  PROVE  /\ budget' \in [{"stop", "edit", "auto", "pause", "crash"} -> Nat] /\ BudgetOK'
<1>1. /\ budget \in [{"stop", "edit", "auto", "pause", "crash"} -> Nat]
      /\ budget["crash"] <= MaxCrash /\ MaxCrash \in Nat
  BY Tasks DEF Begins, MemoryAt, BudgetOK
<1>2. budget[b] \in Nat \ {0} /\ budget' = [budget EXCEPT ![b] = budget[b] - 1]
  BY <1>1 DEF Spend
<1>3. budget' \in [{"stop", "edit", "auto", "pause", "crash"} -> Nat]
  BY <1>1, <1>2
<1>4. budget'["crash"] \in {budget["crash"], budget["crash"] - 1}
  BY <1>1, <1>2
<1> QED BY <1>1, <1>3, <1>4 DEF BudgetOK

\* The resume task starts; the drain's place is left alone.
LEMMA ResumeKeeps ==
  ASSUME NEW n, Begins(n), StartResume, answering' \in BOOLEAN
  PROVE  Kept(n)
<1>1. /\ pc \in [Task -> TaskPc] /\ Drain \in Task /\ Resume \in Task
      /\ Resume # Drain /\ Resume # AutoTurn
  BY Tasks DEF Begins, MemoryAt
<1>2. pc' \in [Task -> TaskPc] /\ pc'[Drain] = pc[Drain]
  BY <1>1 DEF StartResume, GoTo, TaskPc
<1>3. active' \in (Task \ {AutoTurn}) \cup {None} /\ hitl' \in BOOLEAN
      /\ answered' \in Task \cup {None}
  BY <1>1 DEF StartResume
<1>4. UNCHANGED <<sub, lock, claim, wait, pend, cancelling, parked, fed, budget>>
  BY DEF StartResume
<1> QED BY <1>2, <1>3, <1>4 DEF Begins, Kept, MemoryAt, BudgetOK, DrainHasRow

\* stop, cancel_queued, send_now, hitl_response.
LEMMA UserKeeps ==
  ASSUME NEW n, Begins(n), User
  PROVE  Kept(n)
<1>1. ASSUME CancelSession, BudgetOK', answered' \in Task \cup {None},
             budget' \in [{"stop", "edit", "auto", "pause", "crash"} -> Nat],
             UNCHANGED <<sub, lock, claim, wait, hitl, parked, fed>>
      PROVE  Kept(n)
  BY <1>1, CancelKeeps DEF Begins, Kept, MemoryAt, DrainHasRow
<1>2. answered \in Task \cup {None} /\ active \in Task \cup {None}
  BY DEF Begins, MemoryAt
<1>3. CASE Stop
  BY <1>1, <1>2, <1>3, SpendKeeps DEF Stop
<1>4. CASE \E i \in DOMAIN rows : CancelMessage(i)
  BY <1>4, SpendKeeps DEF CancelMessage, mem_vars, Begins, Kept, MemoryAt, DrainHasRow
<1>5. CASE \E i \in DOMAIN rows : SendNow(i)
  BY <1>1, <1>2, <1>5, SpendKeeps DEF SendNow
<1>6. CASE HitlResponse
  <2>1. CASE StartResume /\ answering' = FALSE
    BY <2>1, ResumeKeeps
  <2>2. CASE /\ CancelSession /\ answered' = active
             /\ UNCHANGED <<store_vars, sub, lock, claim, wait, hitl, parked, fed, budget>>
    BY <1>1, <1>2, <2>2 DEF Begins, MemoryAt, BudgetOK
  <2> QED BY <1>6, <2>1, <2>2 DEF HitlResponse
<1>7. CASE HitlResume
  BY <1>7, ResumeKeeps DEF HitlResume, Begins, MemoryAt
<1> QED BY <1>3, <1>4, <1>5, <1>6, <1>7 DEF User

\* The auto turn's trigger and gate.
LEMMA AutoKeeps ==
  ASSUME NEW n, Begins(n), TriggerAuto \/ AutoGate
  PROVE  Kept(n)
<1>1. /\ pc \in [Task -> TaskPc] /\ Drain \in Task /\ AutoTurn \in Task
      /\ Drain # AutoTurn
  BY Tasks DEF Begins, MemoryAt
<1>2. pc' \in [Task -> TaskPc] /\ pc'[Drain] = pc[Drain]
  BY <1>1 DEF TriggerAuto, AutoGate, GoTo, TaskPc
<1>3. budget' \in [{"stop", "edit", "auto", "pause", "crash"} -> Nat] /\ BudgetOK'
  BY SpendKeeps DEF TriggerAuto, AutoGate, Begins, MemoryAt, BudgetOK
<1>4. UNCHANGED <<sub, lock, claim, wait, pend, active, answering, cancelling, answered,
                  hitl, parked, fed>>
  BY DEF TriggerAuto, AutoGate
<1> QED BY <1>2, <1>3, <1>4 DEF Begins, Kept, MemoryAt, DrainHasRow

\* A restart forgets the process.
LEMMA RestartKeeps ==
  ASSUME NEW n, Begins(n), NEW covered \in BOOLEAN, Restart(covered)
  PROVE  Kept(n)
<1>1. /\ n \in Nat /\ parked \in BOOLEAN /\ Drain \in Task
      /\ sub \in [Sub -> [pc : SubPc, busy : BOOLEAN, row : 0 .. n, result : Result]]
  BY Tasks DEF Begins, MemoryAt
<1>2. sub' \in [Sub -> [pc : SubPc, busy : BOOLEAN, row : 0 .. n, result : Result]]
  BY <1>1 DEF Restart, SubPc, Result
<1>3. /\ pc' \in [Task -> TaskPc] /\ pc'[Drain] = "off"
      /\ claim' \in [Exec -> 0 .. n] /\ wait' \in [Exec -> Task \cup {None}]
      /\ pend' \in [Task -> SUBSET (1 .. n)]
  <2>1. /\ pc' = [t \in Task |-> "off"] /\ claim' = [e \in Exec |-> 0]
        /\ wait' = [e \in Exec |-> None] /\ pend' = [t \in Task |-> {}]
    BY DEF Restart
  <2>2. pc' \in [Task -> TaskPc] /\ pc'[Drain] = "off"
    BY <1>1, <2>1 DEF TaskPc
  <2>3. claim' \in [Exec -> 0 .. n]
    BY <1>1, <2>1
  <2>4. wait' \in [Exec -> Task \cup {None}] /\ pend' \in [Task -> SUBSET (1 .. n)]
    BY <2>1
  <2> QED BY <2>2, <2>3, <2>4
<1>4. budget' \in [{"stop", "edit", "auto", "pause", "crash"} -> Nat] /\ BudgetOK'
  BY SpendKeeps DEF Restart
<1>5. /\ lock' = None /\ active' = None /\ answered' = None /\ cancelling' = {}
      /\ answering' \in BOOLEAN /\ hitl' \in BOOLEAN /\ parked' \in BOOLEAN
      /\ UNCHANGED fed
  BY <1>1 DEF Restart
<1> QED BY <1>2, <1>3, <1>4, <1>5 DEF Begins, Kept, MemoryAt, DrainHasRow

---------------------------------------------------------------------------
(* Every row answers a submission *)

\* A step that adds no row and gives none away keeps the rows' submissions.
LEMMA RowsStay ==
  ASSUME RowsAccepted, Len(rows') = Len(rows),
         \A k \in Sub : sub'[k].row = sub[k].row /\ (sub'[k].pc # "done" => sub[k].pc # "done")
  PROVE  RowsAccepted'
BY DEF RowsAccepted

\* The two submission steps that insert give the new row to a submission that
\* had none; no other step inserts.
LEMMA RowsAcceptedKept ==
  ASSUME TurnInv, [Next]_vars
  PROVE  RowsAccepted'
<1>1. /\ Len(rows) \in Nat /\ DOMAIN rows = 1 .. Len(rows) /\ rows \in Seq(Row)
      /\ RowsAccepted
      /\ sub \in [Sub -> [pc : SubPc, busy : BOOLEAN, row : 0 .. Len(rows), result : Result]]
      /\ StoreTypeOK /\ {"QUEUED", "CLAIMED", "VOIDED", "DELIVERED"} \subseteq RowStatus
  BY TableGrows DEF TurnInv, StoreTypeOK, MemoryOK, MemoryAt, RowStatus, ActiveStatus,
                    TerminalStatus
<1>2. ASSUME UNCHANGED sub, Len(rows') = Len(rows) PROVE RowsAccepted'
  BY <1>1, <1>2 DEF RowsAccepted
<1>3. ASSUME NEW R, NEW st \in RowStatus, SetStatus(R, st) PROVE Len(rows') = Len(rows)
  BY <1>1, <1>3, SetStatusWrites
<1>4. ASSUME NEW i, NEW st \in RowStatus,
             IF Active(i) THEN MarkTerminal(i, st) ELSE UNCHANGED store_vars
      PROVE  Len(rows') = Len(rows)
  BY <1>3, <1>4 DEF MarkTerminal, store_vars
<1>5. CASE UNCHANGED vars
  BY <1>2, <1>5 DEF vars, store_vars
<1>6. ASSUME NEW k \in Sub, Submit(k) PROVE RowsAccepted'
  <2>1. CASE SubmitBusy(k) \/ SubmitIdle(k)
    <3>1. CASE UNCHANGED store_vars /\ SubReturn(k, "write", "QUEUE_FULL")
      <4>1. /\ UNCHANGED rows
            /\ sub' = [sub EXCEPT ![k] = [sub[k] EXCEPT !.pc = "done", !.result = "QUEUE_FULL"]]
        BY <3>1 DEF SubReturn, store_vars
      <4> QED BY <1>1, <4>1 DEF RowsAccepted
    <3>2. CASE \E st : Insert(sess, KeyOf[k], st) /\ sub[k].pc = "write"
                  /\ \E r : sub' = [sub EXCEPT ![k] = [sub[k] EXCEPT !.pc = "done",
                                                  !.result = r, !.row = Len(rows')]]
      <4>1. Len(rows') = Len(rows) + 1
        BY <1>1, <3>2 DEF Insert
      <4>2. /\ sub'[k].row = Len(rows) + 1 /\ sub'[k].pc = "done"
            /\ sub[k].row = 0
            /\ \A j \in Sub \ {k} : sub'[j] = sub[j]
        BY <1>1, <3>2, <4>1 DEF RowsAccepted
      <4>3. \A i \in 1 .. Len(rows) + 1 : \E j \in Sub : sub'[j].row = i
        <5>1. SUFFICES ASSUME NEW i \in 1 .. Len(rows) + 1 PROVE \E j \in Sub : sub'[j].row = i
          OBVIOUS
        <5>2. CASE i = Len(rows) + 1
          BY <4>2, <5>2
        <5>3. CASE i # Len(rows) + 1
          <6>1. i \in 1 .. Len(rows)
            BY <1>1, <5>3
          <6>2. PICK j \in Sub : sub[j].row = i
            BY <1>1, <6>1 DEF RowsAccepted
          <6>3. j # k
            BY <4>2, <6>1, <6>2
          <6> QED BY <4>2, <6>2, <6>3
        <5> QED BY <5>2, <5>3
      <4> QED BY <1>1, <4>1, <4>2, <4>3 DEF RowsAccepted
    <3> QED BY <2>1, <3>1, <3>2 DEF SubmitBusy, SubmitIdle, Enqueue, InsertClaimed
  <2>2. CASE \/ AcquireLock(k) \/ FindActive(k) \/ FindDelivered(k) \/ DetectState(k)
             \/ PlaceholderCheck(k) \/ ReadInterrupt(k)
    <3>1. UNCHANGED rows /\ sub[k].pc # "done"
      BY <2>2 DEF AcquireLock, FindActive, FindDelivered, DetectState, PlaceholderCheck,
                  ReadInterrupt, SubStep, SubReturn, store_vars
    <3>2. \A j \in Sub : sub'[j].row = sub[j].row /\ (j # k => sub'[j] = sub[j])
      <4>1. CASE AcquireLock(k)
        BY <1>1, <4>1 DEF AcquireLock, SubStep
      <4>2. CASE FindActive(k) \/ FindDelivered(k)
        BY <1>1, <4>2 DEF FindActive, FindDelivered, SubStep, SubReturn
      <4>3. CASE DetectState(k)
        BY <1>1, <4>3 DEF DetectState
      <4>4. CASE PlaceholderCheck(k)
        BY <1>1, <4>4 DEF PlaceholderCheck
      <4>5. CASE ReadInterrupt(k)
        BY <1>1, <4>5 DEF ReadInterrupt
      <4> QED BY <2>2, <4>1, <4>2, <4>3, <4>4, <4>5
    <3> QED BY <1>1, <3>1, <3>2, RowsStay
  <2> QED BY <1>6, <2>1, <2>2 DEF Submit
<1>7. ASSUME NEW k \in Sub, LaneSlot(k) \/ Resolve(k) PROVE RowsAccepted'
  BY <1>2, <1>7 DEF LaneSlot, Resolve, store_vars
<1>8. ASSUME NEW e \in Exec, Execute(e) PROVE RowsAccepted'
  BY <1>1, <1>2, <1>4, <1>8 DEF Execute, Drive, Adopted, Aborted, Joined, store_vars
<1>9. ASSUME NEW t \in Task, Stream(t) \/ Finish(t) PROVE RowsAccepted'
  BY <1>1, <1>2, <1>4, <1>9 DEF Stream, StartChild, BeginStream, StreamEnds, StreamCut, ListMarked,
                          VoidMarked, WrapUp, Finish, Defer, Kick, store_vars
<1>10. CASE DrainLoop
  BY <1>1, <1>2, <1>3, <1>4, <1>10 DEF DrainLoop, DrainCheck, DrainClaim, Finalize, ClaimNext,
                                 store_vars
<1>11. CASE User
  <2>1. ASSUME NEW i, Prioritize(sess, i) PROVE Len(rows') = Len(rows)
    BY <1>1, <2>1 DEF Prioritize
  <2> QED BY <1>1, <1>2, <1>3, <1>11, <2>1 DEF User, Stop, HitlResponse, HitlResume, StartResume,
             CancelMessage, CancelQueued, SendNow, store_vars
<1>12. CASE TriggerAuto \/ AutoGate
  BY <1>2, <1>12 DEF TriggerAuto, AutoGate, store_vars
<1>13. ASSUME NEW covered \in BOOLEAN, Restart(covered) PROVE RowsAccepted'
  <2>1. Len(rows') = Len(rows)
    BY <1>1, <1>3, <1>13 DEF Restart, RequeueClaimed, store_vars
  <2>2. \A k \in Sub : /\ sub'[k].row = sub[k].row
                       /\ sub'[k].pc # "done" => sub[k].pc # "done"
    BY <1>1, <1>13 DEF Restart
  <2> QED BY <1>1, <2>1, <2>2, RowsStay
<1> QED BY <1>5, <1>6, <1>7, <1>8, <1>9, <1>10, <1>11, <1>12, <1>13 DEF Next

---------------------------------------------------------------------------
(* The theorems *)

\* An empty table and an idle process.
LEMMA InitHasTurnInv ==
  ASSUME Init
  PROVE  TurnInv
<1>1. StoreTypeOK /\ rows = <<>> /\ Len(rows) = 0
  BY QueueAssumption DEF Init, StoreInit, StoreTypeOK
<1>2. sub \in [Sub -> [pc : SubPc, busy : BOOLEAN, row : 0 .. 0, result : Result]]
  BY DEF Init, SubPc, Result
<1>3. /\ pc \in [Task -> TaskPc] /\ pc[Drain] = "off" /\ claim \in [Exec -> 0 .. 0]
  BY Tasks DEF Init, TaskPc
<1>4. wait \in [Exec -> Task \cup {None}] /\ pend \in [Task -> SUBSET (1 .. 0)]
  BY DEF Init
<1>5. /\ budget \in [{"stop", "edit", "auto", "pause", "crash"} -> Nat]
      /\ budget["crash"] <= MaxCrash
  BY TurnAssumption DEF Init
<1>6. fed \in Seq([msg : Sub, left : 0 .. MaxCrash])
  BY DEF Init
<1>7. MemoryOK
  BY <1>1, <1>2, <1>3, <1>4, <1>5, <1>6 DEF Init, MemoryOK, MemoryAt
<1>8. RowsAccepted
  BY <1>1 DEF Init, RowsAccepted
<1> QED BY <1>1, <1>3, <1>5, <1>7, <1>8 DEF TurnInv, BudgetOK, DrainHasRow

\* Every step keeps the invariant: each part has its own lemma above.
LEMMA StepKeepsTurnInv ==
  ASSUME TurnInv, [Next]_vars
  PROVE  TurnInv'
<1>1. PICK n : n = Len(rows')
  OBVIOUS
<1>2. Begins(n)
  BY <1>1, TableGrows, MemoryGrows DEF TurnInv, MemoryOK, Begins
<1>3. StoreTypeOK' /\ RowsAccepted' /\ RowsAccepted
  BY TableGrows, RowsAcceptedKept DEF TurnInv
<1>4. CASE UNCHANGED vars
  BY <1>4 DEF vars, store_vars, turn_vars, mem_vars, TurnInv, StoreTypeOK, MemoryOK,
              MemoryAt, BudgetOK, RowsAccepted, DrainHasRow
<1>5. CASE Next
  <2>1. Kept(n)
    <3>1. ASSUME NEW k \in Sub, Submit(k) \/ LaneSlot(k) \/ Resolve(k) PROVE Kept(n)
      BY <1>2, <3>1, SubmitKeeps, ExecuteKeeps, Tasks
    <3>2. ASSUME NEW e \in Exec, Execute(e) PROVE Kept(n)
      BY <1>2, <3>2, ExecuteKeeps
    <3>3. ASSUME NEW t \in Task, Stream(t) \/ Finish(t) PROVE Kept(n)
      BY <1>2, <1>3, <3>3, StreamKeeps, DrainKeeps
    <3>4. CASE DrainLoop
      BY <1>2, <3>4, DrainKeeps
    <3>5. CASE User \/ TriggerAuto \/ AutoGate
      BY <1>2, <3>5, UserKeeps, AutoKeeps
    <3>6. ASSUME NEW covered \in BOOLEAN, Restart(covered) PROVE Kept(n)
      BY <1>2, <3>6, RestartKeeps
    <3> QED BY <1>5, <3>1, <3>2, <3>3, <3>4, <3>5, <3>6 DEF Next
  <2>2. MemoryAt(Len(rows))'
    BY <1>1, <2>1 DEF Kept, MemoryAt
  <2> QED BY <1>3, <2>1, <2>2 DEF Kept, TurnInv, MemoryOK
<1> QED BY <1>4, <1>5

\* The inductive invariant of the turn machinery.
THEOREM TurnInvariant == Spec => []TurnInv
<1>1. Init => TurnInv
  BY InitHasTurnInv
<1>2. TurnInv /\ [Next]_vars => TurnInv'
  BY StepKeepsTurnInv
<1> QED BY <1>1, <1>2, PTL DEF Spec

\* Every variable of the session keeps its shape, and in particular every row
\* number that a submission, an executor or the interrupt marker holds is one
\* of the table's.
THEOREM TurnTypeCorrect == Spec => []TypeOK
<1>1. TurnInv => TypeOK
  BY RowsAreRows DEF TurnInv, MemoryOK, MemoryAt, TypeOK
<1> QED BY <1>1, TurnInvariant, PTL

\* Submissions, turns, stops, HITL answers, auto turns and restarts do to the
\* table only what one transaction of the queue does.
THEOREM TurnImplementsQueue == Spec => StoreSpec
<1>1. Init => StoreInit
  BY DEF Init
<1>2. TurnInv /\ [Next]_vars => [StoreNext]_store_vars
  BY StepIsStoreStep
<1> QED BY <1>1, <1>2, TurnInvariant, PTL DEF Spec, StoreSpec

\* What holds of every client of the queue holds of the turns: a client
\* message has one active row at most, and a session never more than its cap.
THEOREM TurnsKeepKeysAndCap == Spec => [](ActiveKeyUnique /\ CapRespected)
BY TurnImplementsQueue, KeysStayUnique, CapHolds, PTL

\* No turn, stop or restart revives a terminal row, and none claims a row out
\* of order or too late.
THEOREM TurnsKeepFinality == Spec => TerminalFinal /\ ClaimInOrder
BY TurnImplementsQueue, TerminalStaysFinal, ClaimsInOrder
===========================================================================
