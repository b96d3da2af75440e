----------------------------- MODULE TurnQueue -----------------------------
(***************************************************************************)
(* How one session turns submitted messages into agent turns: the submit   *)
(* path (server/service/input_queue_service.py), the idle-branch executors *)
(* and the drain loop (server/service/turn_runner.py), the stream they     *)
(* drive (stream_driver.py, stream_dispatch.py), the user's stop, cancel,  *)
(* send-now and HITL answers (server/trigger/ws/messages.py), the auto     *)
(* turn (auto_turn.py) and the repair of a restart (boot_recovery.py).     *)
(* All of it runs on one asyncio loop: a step is the code between two      *)
(* awaits.  Writers of the queue hold its lock up to the step in which the *)
(* transaction returns, so a transaction and the code behind it are one    *)
(* step; a plain read is a step of its own.                                *)
(***************************************************************************)
EXTENDS InputQueue

CONSTANTS
  sess,       \* the session
  Sub,        \* submissions, in flight or to come; a resend is one more
  KeyOf,      \* the client_msg_id each submission carries
  Drain, Resume, AutoTurn,   \* the drain loop, the HITL resume turn, the auto turn
  None,
  MaxStop, MaxEdit, MaxAuto, MaxPause, MaxCrash   \* bounds on the environment

Exec == Sub \cup {Drain}            \* who runs WsTurnExecutor.execute_batch
Task == Exec \cup {Resume, AutoTurn}

ASSUME TurnAssumption ==
  /\ sess \in Session
  /\ KeyOf \in [Sub -> Key \cup {NoKey}]
  /\ Drain # Resume /\ Drain # AutoTurn /\ Resume # AutoTurn
  /\ None \notin Sub \cup {Drain, Resume, AutoTurn}
  /\ {Drain, Resume, AutoTurn} \cap Sub = {}
  /\ MaxStop \in Nat /\ MaxEdit \in Nat /\ MaxAuto \in Nat
  /\ MaxPause \in Nat /\ MaxCrash \in Nat

VARIABLES
  sub,        \* progress of submit_user_input, per submission
  lock,       \* holder of the per-session asyncio.Lock
  pc,         \* where each task is
  claim,      \* claim_row_id its turn carries (0: none)
  wait,       \* the live task an executor adopted
  pend,       \* rows the interrupt marker still has to void
  active,     \* _active_tasks[session]
  answering,  \* StateKey.ANSWERING
  cancelling, \* live tasks that task.cancel() was called on
  answered,   \* a hitl_response waits for the task it cancelled
  hitl,       \* session in _HITL_PENDING
  parked,     \* the checkpoint holds a pending interrupt
  fed,        \* messages fed to the graph, in order
  budget      \* what is left of the environment's bounds
mem_vars  == <<pc, claim, wait, pend, active, answering, cancelling, answered, hitl>>
turn_vars == <<mem_vars, parked, fed, budget>>
vars == <<store_vars, sub, lock, turn_vars>>

SubPc == {"new", "active", "delivered", "state", "claimed", "probe", "write", "done"}
TaskPc == {"off", "slot", "resolve", "drive", "adopt", "spawned", "prepare", "stream",
           "marker", "voiding", "wrapup", "joined", "aborted", "defer", "kick",
           "final", "check", "claim", "gate"}
Result == {None, "STARTED", "QUEUED", "QUEUE_FULL", "DEDUPED", "LOST"}

RowOf(k) == sub[k].row
MsgOf(i) == CHOOSE k \in Sub : RowOf(k) = i

\* A task that is not done(): the child of an executor up to its last frame,
\* the resume turn up to the end of on_turn_finished.
Streaming(t) == pc[t] \in {"spawned", "prepare", "stream", "marker", "voiding", "wrapup"}
Live(t) == t # None /\ (Streaming(t) \/ (t = Resume /\ pc[t] \in {"defer", "kick"}))

\* detect_state: ws_task, answering, hitl_pending, auto_turn_inflight.
SelfBusy == Live(active) \/ answering
Busy     == SelfBusy \/ hitl \/ pc[AutoTurn] # "off"

GoTo(t, l) == pc' = [pc EXCEPT ![t] = l]
Spend(b)   == budget[b] > 0 /\ budget' = [budget EXCEPT ![b] = @ - 1]
Released(t) == IF active = t THEN None ELSE active

---------------------------------------------------------------------------
(* submit_user_input *)

SubStep(k, from, to) == /\ sub[k].pc = from
                        /\ sub' = [sub EXCEPT ![k].pc = to]
SubReturn(k, from, r) == /\ sub[k].pc = from
                         /\ sub' = [sub EXCEPT ![k].pc = "done", ![k].result = r]
                         /\ lock' = None

AcquireLock(k) ==
  /\ lock = None /\ lock' = k
  /\ SubStep(k, "new", IF KeyOf[k] = NoKey THEN "state" ELSE "active")
  /\ UNCHANGED <<store_vars, turn_vars>>

\* Mutant: a resend of a delivered message is not recognised.
FindDelivered_Forgets(k) ==
  /\ SubStep(k, "delivered", "state") /\ UNCHANGED lock
  /\ UNCHANGED <<store_vars, turn_vars>>

\* Dedup, first against active rows, then against delivered ones.
FindActive(k) ==
  /\ IF ActiveByKey(KeyOf[k]) # {}
       THEN SubReturn(k, "active", "DEDUPED")
       ELSE SubStep(k, "active", "delivered") /\ UNCHANGED lock
  /\ UNCHANGED <<store_vars, turn_vars>>

FindDelivered(k) ==
  /\ IF DeliveredByKey(KeyOf[k]) # {}
       THEN SubReturn(k, "delivered", "DEDUPED")
       ELSE SubStep(k, "delivered", "state") /\ UNCHANGED lock
  /\ UNCHANGED <<store_vars, turn_vars>>

DetectState(k) ==
  /\ sub[k].pc = "state"
  /\ sub' = [sub EXCEPT ![k].pc = "claimed", ![k].busy = Busy]
  /\ UNCHANGED <<store_vars, lock, turn_vars>>

\* Mutant: the CLAIMED placeholder of a turn about to start is overlooked.
PlaceholderCheck_Ignored(k) ==
  /\ sub[k].pc = "claimed"
  /\ SubStep(k, "claimed", IF sub[k].busy THEN "write" ELSE "probe")
  /\ UNCHANGED <<store_vars, lock, turn_vars>>

\* A CLAIMED row of the session: a turn is about to start, though no task is
\* registered yet.
PlaceholderCheck(k) ==
  /\ sub[k].pc = "claimed"
  /\ LET b == sub[k].busy \/ ClaimedRows(sess) # {}
     IN  sub' = [sub EXCEPT ![k].pc = IF b THEN "write" ELSE "probe", ![k].busy = b]
  /\ UNCHANGED <<store_vars, lock, turn_vars>>

\* Mutant: the checkpoint is not probed.
ReadInterrupt_Skipped(k) ==
  /\ SubStep(k, "probe", "write")
  /\ UNCHANGED <<store_vars, lock, turn_vars>>

\* The last resort of detect_state: is the graph parked on an interrupt that
\* memory knows nothing of?
ReadInterrupt(k) ==
  /\ sub[k].pc = "probe"
  /\ sub' = [sub EXCEPT ![k].pc = "write", ![k].busy = parked]
  /\ UNCHANGED <<store_vars, lock, turn_vars>>

SubmitBusy(k) ==
  /\ sub[k].pc = "write" /\ sub[k].busy
  /\ \/ /\ Enqueue(sess, KeyOf[k])
        /\ sub' = [sub EXCEPT ![k] = [@ EXCEPT !.pc = "done", !.result = "QUEUED",
                                               !.row = Len(rows')]]
        /\ lock' = None
     \/ /\ ~HasRoom(sess)
        /\ SubReturn(k, "write", "QUEUE_FULL")
        /\ UNCHANGED store_vars
  /\ UNCHANGED turn_vars

\* The placeholder is written under the lock; the executor task is created
\* after its release, in the same step.
SubmitIdle(k) ==
  /\ sub[k].pc = "write" /\ ~sub[k].busy
  /\ \/ /\ InsertClaimed(sess, KeyOf[k])
        /\ sub' = [sub EXCEPT ![k] = [@ EXCEPT !.pc = "done", !.result = "STARTED",
                                               !.row = Len(rows')]]
        /\ lock' = None
        /\ GoTo(k, "slot")
     \/ /\ ~HasRoom(sess)
        /\ SubReturn(k, "write", "QUEUE_FULL")
        /\ UNCHANGED <<store_vars, pc>>
  /\ UNCHANGED <<claim, wait, pend, active, answering, cancelling, answered, hitl,
                 parked, fed, budget>>

Submit(k) == \/ AcquireLock(k) \/ FindActive(k) \/ FindDelivered(k) \/ DetectState(k)
             \/ PlaceholderCheck(k) \/ ReadInterrupt(k) \/ SubmitBusy(k) \/ SubmitIdle(k)

---------------------------------------------------------------------------
(* kick_drain, the end of on_turn_finished *)

\* What a task does after on_turn_finished: the drain finalizes its row, the
\* others end.
AfterFinish(t) == IF t = Drain THEN "final" ELSE "off"

\* Mutant: the end of a turn wakes nobody.
Kicked_Nobody(t) == [pc EXCEPT ![t] = AfterFinish(t)]

\* Start the drain task of the session unless one is alive.
Kicked(t) == [pc EXCEPT ![t] = AfterFinish(t),
                        ![Drain] = IF t = Drain THEN "final"
                                   ELSE IF @ = "off" THEN "check" ELSE @]

---------------------------------------------------------------------------
(* WsTurnExecutor.execute_batch *)

\* _run_executor got its MAIN lane slot.
LaneSlot(k) ==
  /\ pc[k] = "slot" /\ GoTo(k, "resolve")
  /\ UNCHANGED <<store_vars, sub, lock, claim, wait, pend, active, answering,
                 cancelling, answered, hitl, parked, fed, budget>>

\* _resolve_claim_rows: an idle-branch executor takes the first CLAIMED row
\* of list_active; the row of a drained turn is known.
Resolve(k) ==
  /\ pc[k] = "resolve" /\ GoTo(k, "drive")
  /\ claim' = [claim EXCEPT ![k] = IF ClaimedRows(sess) = {} THEN 0
                                   ELSE First(ClaimedRows(sess))]
  /\ UNCHANGED <<store_vars, sub, lock, wait, pend, active, answering, cancelling,
                 answered, hitl, parked, fed, budget>>

\* Adopt the registered live task, unless it is being cancelled, or create the
\* child.
Launch(e) ==
  IF Live(active) /\ active \notin cancelling
    THEN GoTo(e, "adopt") /\ wait' = [wait EXCEPT ![e] = active]
    ELSE GoTo(e, "spawned") /\ UNCHANGED wait

Drive(k) ==
  /\ pc[k] = "drive" /\ Launch(k)
  /\ UNCHANGED <<store_vars, sub, lock, claim, pend, active, answering, cancelling,
                 answered, hitl, parked, fed, budget>>

Adopted(e) ==
  /\ pc[e] = "adopt" /\ ~Live(wait[e])
  /\ GoTo(e, "spawned")
  /\ wait' = [wait EXCEPT ![e] = None]
  /\ UNCHANGED <<store_vars, sub, lock, claim, pend, active, answering, cancelling,
                 answered, hitl, parked, fed, budget>>

\* Mutants: the aborted turn leaves its row, or marks it as if it had run.
Aborted_KeepsRow(e) ==
  /\ pc[e] = "aborted" /\ answered # e
  /\ active' = Released(e)
  /\ GoTo(e, "defer")
  /\ UNCHANGED <<store_vars, sub, lock, claim, wait, pend, answering, cancelling,
                 answered, hitl, parked, fed, budget>>
Aborted_Delivers(e) ==
  /\ pc[e] = "aborted" /\ answered # e
  /\ IF claim[e] # 0 /\ Active(claim[e])
       THEN MarkTerminal(claim[e], "DELIVERED") ELSE UNCHANGED store_vars
  /\ active' = Released(e)
  /\ GoTo(e, "defer")
  /\ UNCHANGED <<sub, lock, claim, wait, pend, answering, cancelling, answered, hitl,
                 parked, fed, budget>>

\* The child was cancelled: void its row, then finish without attribution.
Aborted(e) ==
  /\ pc[e] = "aborted" /\ answered # e
  /\ IF claim[e] # 0 /\ Active(claim[e])
       THEN MarkTerminal(claim[e], "VOIDED") ELSE UNCHANGED store_vars
  /\ active' = Released(e)
  /\ GoTo(e, "defer")
  /\ UNCHANGED <<sub, lock, claim, wait, pend, answering, cancelling, answered, hitl,
                 parked, fed, budget>>

\* Mutant: the row is marked DELIVERED whatever became of it.
Joined_Blind(e) ==
  /\ pc[e] = "joined" /\ answered # e
  /\ active' = Released(e)
  /\ IF claim[e] # 0 THEN SetStatus({claim[e]}, "DELIVERED") /\ UNCHANGED now
                      ELSE UNCHANGED store_vars
  /\ pc' = IF claim[e] = 0 THEN [pc EXCEPT ![e] = "defer"] ELSE Kicked(e)
  /\ UNCHANGED <<sub, lock, claim, wait, pend, answering, cancelling, answered, hitl,
                 parked, fed, budget>>

\* The child returned: on_turn_finished marks the row DELIVERED and kicks.
Joined(e) ==
  /\ pc[e] = "joined" /\ answered # e
  /\ active' = Released(e)
  /\ IF claim[e] # 0 /\ Active(claim[e])
       THEN MarkTerminal(claim[e], "DELIVERED") ELSE UNCHANGED store_vars
  /\ pc' = IF claim[e] = 0 THEN [pc EXCEPT ![e] = "defer"] ELSE Kicked(e)
  /\ UNCHANGED <<sub, lock, claim, wait, pend, answering, cancelling, answered, hitl,
                 parked, fed, budget>>

---------------------------------------------------------------------------
(* on_turn_finished and the drain loop *)

\* No row to attribute: a foreign CLAIMED row defers the drain.
Defer(t) ==
  /\ pc[t] = "defer"
  /\ GoTo(t, IF ClaimedRows(sess) # {} THEN AfterFinish(t) ELSE "kick")
  /\ UNCHANGED <<store_vars, sub, lock, claim, wait, pend, active, answering,
                 cancelling, answered, hitl, parked, fed, budget>>

Kick(t) ==
  /\ pc[t] = "kick" /\ pc' = Kicked(t)
  /\ UNCHANGED <<store_vars, sub, lock, claim, wait, pend, active, answering,
                 cancelling, answered, hitl, parked, fed, budget>>

\* While the session waits for a HITL answer the loop claims nothing.
NextRound == IF hitl THEN "off" ELSE "claim"

DrainCheck ==
  /\ pc[Drain] = "check" /\ GoTo(Drain, NextRound)
  /\ UNCHANGED <<store_vars, sub, lock, claim, wait, pend, active, answering,
                 cancelling, answered, hitl, parked, fed, budget>>

\* Told None, the loop is left at once and its task is done.
DrainClaim ==
  /\ pc[Drain] = "claim"
  /\ \/ /\ ClaimNext(sess)
        /\ claim' = [claim EXCEPT ![Drain] = First(Claimable(sess))]
        /\ Launch(Drain)
     \/ /\ Claimable(sess) = {}
        /\ GoTo(Drain, "off")
        /\ UNCHANGED <<store_vars, claim, wait>>
  /\ UNCHANGED <<sub, lock, pend, active, answering, cancelling, answered, hitl, parked,
                 fed, budget>>

\* The row must leave CLAIMED; a no-op when the turn already finalized it.
Finalize ==
  /\ pc[Drain] = "final" /\ GoTo(Drain, NextRound)
  /\ IF Active(claim[Drain])
       THEN MarkTerminal(claim[Drain], "DELIVERED") ELSE UNCHANGED store_vars
  /\ claim' = [claim EXCEPT ![Drain] = 0]
  /\ UNCHANGED <<sub, lock, wait, pend, active, answering, cancelling, answered, hitl,
                 parked, fed, budget>>

---------------------------------------------------------------------------
(* StreamDriver.drive over StreamTurn.run, for any task *)

Turnless(t) == t \in {Resume, AutoTurn}       \* owns no queue row
\* Where a task goes when its stream is over, and when it was cancelled.
\* Mutant: the auto turn never reports on_turn_finished.
EndOf_AutoSilent(t) == CASE t = AutoTurn -> "off" [] t = Resume -> "defer"
                         [] OTHER -> "joined"
EndOf(t)    == IF Turnless(t) THEN "defer" ELSE "joined"
CancelOf(t) == IF Turnless(t) THEN "defer" ELSE "aborted"
\* on_finish of the resume driver frees the slot before on_turn_finished.
FreeSlot(t) == IF t = Resume THEN active' = Released(t) ELSE UNCHANGED active

\* Mutant: the auto turn takes the slot of the session's own turn.
StartChild_Registers(t) ==
  /\ pc[t] = "spawned" /\ GoTo(t, "prepare")
  /\ active' = t
  /\ UNCHANGED <<store_vars, sub, lock, claim, wait, pend, answering, cancelling,
                 answered, hitl, parked, fed, budget>>

StartChild(t) ==
  /\ pc[t] = "spawned" /\ GoTo(t, "prepare")
  /\ active' = IF t = AutoTurn THEN active ELSE t
  /\ cancelling' = cancelling \ {t}
  /\ UNCHANGED <<store_vars, sub, lock, claim, wait, pend, answering, answered, hitl,
                 parked, fed, budget>>

\* The input enters the graph; a message entering a parked graph consumes the
\* interrupt as a resume does.
BeginStream(t) ==
  /\ pc[t] = "prepare" /\ GoTo(t, "stream")
  /\ answering' = TRUE
  /\ parked' = FALSE
  /\ fed' = IF Turnless(t) THEN fed
            ELSE Append(fed, [msg  |-> IF t = Drain THEN MsgOf(claim[t]) ELSE t,
                              left |-> budget.crash])
  /\ UNCHANGED <<store_vars, sub, lock, claim, wait, pend, active, cancelling, answered,
                 hitl, budget>>

StreamEnds(t) ==
  /\ pc[t] = "stream" /\ answering
  /\ answering' = FALSE
  /\ \/ GoTo(t, "wrapup") /\ UNCHANGED <<active, parked, budget>>
     \/ GoTo(t, "wrapup") /\ Spend("pause") /\ parked' = TRUE /\ UNCHANGED active
     \/ GoTo(t, EndOf(t)) /\ FreeSlot(t) /\ UNCHANGED <<parked, budget>>  \* error frame
  /\ UNCHANGED <<store_vars, sub, lock, claim, wait, pend, cancelling, answered, hitl,
                 fed>>

\* A chunk read while `answering' is off raises CancelledError in the stream.
StreamCut(t) ==
  /\ pc[t] = "stream" /\ ~answering
  /\ GoTo(t, IF t = Resume THEN "wrapup" ELSE "marker")
  /\ UNCHANGED <<store_vars, sub, lock, claim, wait, pend, active, answering,
                 cancelling, answered, hitl, parked, fed, budget>>

\* write_interrupted_marker voids every CLAIMED row of the session, one
\* transaction each, and the stream then ends as if complete.
ListMarked(t) ==
  /\ pc[t] = "marker" /\ GoTo(t, "voiding")
  /\ pend' = [pend EXCEPT ![t] = ClaimedRows(sess)]
  /\ UNCHANGED <<store_vars, sub, lock, claim, wait, active, answering, cancelling,
                 answered, hitl, parked, fed, budget>>

VoidMarked(t) ==
  /\ pc[t] = "voiding"
  /\ \/ \E i \in pend[t] :
          /\ \A j \in pend[t] \ {i} : Ahead(i, j)
          /\ pend' = [pend EXCEPT ![t] = @ \ {i}]
          /\ IF Active(i) THEN MarkTerminal(i, "VOIDED") ELSE UNCHANGED store_vars
          /\ UNCHANGED <<pc, answering>>
     \/ /\ pend[t] = {}
        /\ GoTo(t, "wrapup") /\ answering' = FALSE
        /\ UNCHANGED <<store_vars, pend>>
  /\ UNCHANGED <<sub, lock, claim, wait, active, cancelling, answered, hitl, parked,
                 fed, budget>>

\* check_interrupt, then the hitl_request or the done frame.
WrapUp(t) ==
  /\ pc[t] = "wrapup" /\ GoTo(t, EndOf(t)) /\ FreeSlot(t)
  /\ hitl' = (hitl \/ parked)
  /\ UNCHANGED <<store_vars, sub, lock, claim, wait, pend, answering, cancelling,
                 answered, parked, fed, budget>>

Stream(t) == \/ StartChild(t) \/ BeginStream(t) \/ StreamEnds(t) \/ StreamCut(t)
             \/ ListMarked(t) \/ VoidMarked(t) \/ WrapUp(t)

---------------------------------------------------------------------------
(* The user: stop, cancel_queued, send_now, hitl_response *)

\* task.cancel(): absorbed by the stream (which then writes the marker), or
\* raised in the driver, whose `stopped' frame ends the child.
CancelTask(t) ==
  /\ cancelling' = cancelling \cup {t}
  /\ \/ /\ pc[t] = "stream"
        /\ GoTo(t, IF t = Resume THEN "wrapup" ELSE "marker")
        /\ answering' = (t # Resume)
        /\ UNCHANGED <<active, pend>>
     \/ /\ pc[t] \in {"prepare", "stream", "marker", "voiding", "wrapup"}
        /\ GoTo(t, CancelOf(t)) /\ FreeSlot(t)
        /\ pend' = [pend EXCEPT ![t] = {}]
        /\ answering' = (answering /\ pc[t] \notin {"stream", "marker", "voiding"})
     \/ /\ pc[t] = "spawned"            \* never ran: no on_finish either
        /\ GoTo(t, "off")
        /\ UNCHANGED <<active, pend, answering>>

\* _cancel_session
CancelSession ==
  \/ Live(active) /\ Streaming(active) /\ CancelTask(active)
  \/ /\ ~Live(active)
     /\ answering' = FALSE
     /\ UNCHANGED <<pc, active, pend, cancelling>>

Stop ==
  /\ Spend("stop") /\ CancelSession
  /\ UNCHANGED <<store_vars, sub, lock, claim, wait, answered, hitl, parked, fed>>

CancelMessage(i) ==
  /\ Spend("edit") /\ CancelQueued(i)
  /\ UNCHANGED <<sub, lock, mem_vars, parked, fed>>

\* _handle_send_now: prioritize first, then cancel the running turn.  One step:
\* the queue's write lock lets no other transaction in between.
SendNow(i) ==
  /\ Spend("edit") /\ Prioritize(sess, i) /\ CancelSession
  /\ UNCHANGED <<sub, lock, claim, wait, answered, hitl, parked, fed>>

\* The hitl_request frame is sent just before the flag is set.
Asked == hitl \/ (parked /\ \E t \in Task : pc[t] = "wrapup")

\* set_hitl_pending(False); the resume task is registered before it runs.
StartResume ==
  /\ pc[Resume] = "off" /\ GoTo(Resume, "spawned")
  /\ hitl' = FALSE /\ active' = Resume /\ answered' = None
  /\ UNCHANGED <<store_vars, sub, lock, claim, wait, pend, cancelling, parked, fed,
                 budget>>

\* _handle_hitl_response resumes at once when nothing runs; else it cancels
\* the live task and waits for its end.
HitlResponse ==
  /\ Asked /\ answered = None
  /\ \/ ~Live(active) /\ answering' = FALSE /\ StartResume
     \/ /\ Live(active) /\ CancelSession
        /\ answered' = active
        /\ UNCHANGED <<store_vars, sub, lock, claim, wait, hitl, parked, fed, budget>>

\* It wakes in the loop iteration in which that task is done, before the
\* executor of the task completes a transaction (`answered' in Joined, Aborted).
HitlResume ==
  /\ answered # None /\ ~Live(answered)
  /\ StartResume /\ UNCHANGED answering

---------------------------------------------------------------------------
(* The auto turn *)

TriggerAuto ==
  /\ pc[AutoTurn] = "off" /\ (SelfBusy \/ ~hitl)
  /\ Spend("auto") /\ GoTo(AutoTurn, "gate")
  /\ UNCHANGED <<store_vars, sub, lock, claim, wait, pend, active, answering,
                 cancelling, answered, hitl, parked, fed>>

\* Idle apart from its own registration: drive.  Busy past the wait: drop.
AutoGate ==
  /\ pc[AutoTurn] = "gate"
  /\ GoTo(AutoTurn, IF SelfBusy \/ hitl THEN "off" ELSE "spawned")
  /\ UNCHANGED <<store_vars, sub, lock, claim, wait, pend, active, answering,
                 cancelling, answered, hitl, parked, fed, budget>>

---------------------------------------------------------------------------
(* A crash, and reconcile_at_boot before the server answers again.          *)
(* `covered': the session is among the candidates, which need a checkpoint. *)

Restart(covered) ==
  /\ covered => fed # <<>>
  /\ Spend("crash")
  /\ IF covered THEN RequeueClaimed(sess) ELSE UNCHANGED store_vars
  /\ hitl' = (covered /\ parked)
  /\ sub' = [k \in Sub |-> IF sub[k].pc \in {"new", "done"} THEN sub[k]
                           ELSE [sub[k] EXCEPT !.pc = "done", !.result = "LOST"]]
  /\ lock' = None
  /\ pc' = [t \in Task |-> "off"] /\ claim' = [e \in Exec |-> 0]
  /\ wait' = [e \in Exec |-> None] /\ pend' = [t \in Task |-> {}]
  /\ active' = None /\ answering' = FALSE /\ cancelling' = {} /\ answered' = None
  /\ UNCHANGED <<parked, fed>>

---------------------------------------------------------------------------
Init ==
  /\ StoreInit
  /\ sub = [k \in Sub |-> [pc |-> "new", busy |-> FALSE, row |-> 0, result |-> None]]
  /\ lock = None
  /\ pc = [t \in Task |-> "off"]
  /\ claim = [e \in Exec |-> 0]
  /\ wait = [e \in Exec |-> None]
  /\ pend = [t \in Task |-> {}]
  /\ active = None /\ answering = FALSE /\ cancelling = {}
  /\ answered = None /\ hitl = FALSE /\ parked = FALSE
  /\ fed = <<>>
  /\ budget = [stop |-> MaxStop, edit |-> MaxEdit, auto |-> MaxAuto,
               pause |-> MaxPause, crash |-> MaxCrash]

Execute(e) == Drive(e) \/ Adopted(e) \/ Aborted(e) \/ Joined(e)
Finish(t)  == Defer(t) \/ Kick(t)
DrainLoop  == DrainCheck \/ DrainClaim \/ Finalize
User       == \/ Stop \/ HitlResponse \/ HitlResume
              \/ \E i \in DOMAIN rows : CancelMessage(i) \/ SendNow(i)

Next ==
  \/ \E k \in Sub : Submit(k) \/ LaneSlot(k) \/ Resolve(k)
  \/ \E e \in Exec : Execute(e)
  \/ \E t \in Task : Stream(t) \/ Finish(t)
  \/ DrainLoop \/ User \/ TriggerAuto \/ AutoGate
  \/ \E covered \in BOOLEAN : Restart(covered)

Spec == Init /\ [][Next]_vars

Fairness ==
  /\ \A k \in Sub : WF_vars(Submit(k)) /\ WF_vars(LaneSlot(k)) /\ WF_vars(Resolve(k))
  /\ \A e \in Exec : WF_vars(Execute(e))
  /\ \A t \in Task : WF_vars(Stream(t)) /\ WF_vars(Finish(t))
  /\ WF_vars(DrainLoop) /\ WF_vars(AutoGate) /\ WF_vars(HitlResume)
FairSpec == Spec /\ Fairness

---------------------------------------------------------------------------
(* Properties *)

\* Type invariant: every variable keeps its shape, and the auto turn never
\* takes the registered-task slot that stop, steer and adoption look at.
TypeOK ==
  /\ StoreTypeOK
  /\ sub \in [Sub -> [pc : SubPc, busy : BOOLEAN, row : 0 .. Len(rows), result : Result]]
  /\ lock \in Sub \cup {None}
  /\ pc \in [Task -> TaskPc]
  /\ claim \in [Exec -> 0 .. Len(rows)]
  /\ wait \in [Exec -> Task \cup {None}]
  /\ pend \in [Task -> SUBSET DOMAIN rows]
  /\ active \in (Task \ {AutoTurn}) \cup {None}
  /\ cancelling \subseteq Task /\ answered \in Task \cup {None}
  /\ answering \in BOOLEAN /\ hitl \in BOOLEAN /\ parked \in BOOLEAN
  /\ fed \in Seq([msg : Sub, left : 0 .. MaxCrash])
  /\ budget \in [{"stop", "edit", "auto", "pause", "crash"} -> Nat]

\* At most one graph stream runs in the session (WsTurnExecutor: "never two
\* concurrent streams per session"), whoever started it: an idle submission,
\* the drain, a HITL resume, the auto turn.
OneStream == \A t, u \in Task : pc[t] = "stream" /\ pc[u] = "stream" => t = u

\* Two submissions are one client message: a submission and itself, or two
\* that carry the same client_msg_id (a message without one is its own).
SameMessage(k, l) == k = l \/ (KeyOf[k] = KeyOf[l] /\ KeyOf[k] # NoKey)

\* A client message enters the graph at most once however often it is resent:
\* a second time is excused only if a stop VOIDED one of the two copies, or if
\* a crash came between the two and requeued the row.
FedOnce ==
  \A m, n \in DOMAIN fed : m < n /\ SameMessage(fed[m].msg, fed[n].msg) =>
    \/ \E i \in {m, n} : rows[RowOf(fed[i].msg)].status = "VOIDED"
    \/ fed[m].msg = fed[n].msg /\ fed[m].left > fed[n].left

\* A row says DELIVERED ("drained into a turn") only if its message really
\* entered the graph: no turn is attributed to another one's row.
DeliveredWasFed ==
  \A k \in Sub : RowOf(k) # 0 /\ rows[RowOf(k)].status = "DELIVERED" =>
    \E n \in DOMAIN fed : fed[n].msg = k

\* Messages enter the graph in the order in which they were accepted (with at
\* most two messages alive at a time no send_now can reorder them).
FedInOrder ==
  \A m, n \in DOMAIN fed : m < n => RowOf(fed[m].msg) <= RowOf(fed[n].msg)

\* Every CLAIMED row belongs to a task that is still on its way to finalize it
\* ("the row MUST leave CLAIMED"): the drain that claimed it, or the executor
\* of the submission that wrote it.  A CLAIMED row without one makes every
\* later submission look busy and defers every drain.
ClaimHasOwner ==
  \A i \in DOMAIN rows : Claimed(i) =>
    \/ pc[Drain] # "off" /\ claim[Drain] = i
    \/ pc[MsgOf(i)] # "off"

\* No user message and no auto turn enters a graph that is parked on a HITL
\* interrupt: only the resume turn does (is_hitl_pending: the drain "never
\* claims/executes while the graph is suspended").
NeverIntoParked ==
  [][\A t \in Task \ {Resume} : pc[t] = "prepare" /\ pc'[t] = "stream" => ~parked]_vars

Waiting(k)  == RowOf(k) # 0 /\ Queued(RowOf(k))
InClaim(k)  == RowOf(k) # 0 /\ Claimed(RowOf(k))
SomeTurn    == \E t \in Task : pc[t] \in {"prepare", "stream"}

\* A message that waits in the queue while a turn runs leaves the queue (is
\* claimed, or cancelled by the user), unless a HITL interrupt puts the session
\* on hold: the drain is woken by the end of every turn, a user's, a resume or
\* an auto turn, stopped and failed ones included.
ServedAfterTurn ==
  \A k \in Sub : SomeTurn /\ Waiting(k) ~> (hitl \/ ~Waiting(k))

\* A CLAIMED row does not stay CLAIMED: its turn delivers it, a stop voids it,
\* whichever task the stop hits and at whichever await.
ClaimSettles ==
  \A k \in Sub : InClaim(k) ~> ~InClaim(k)

Quiet == /\ \A t \in Task : pc[t] = "off"
         /\ \A k \in Sub : sub[k].pc \in {"new", "done"}
\* When the session has come to rest and is not waiting for a HITL answer, no
\* message is left in the queue ("executed FIFO when the current turn
\* finishes").
NoStranded == Quiet /\ ~hitl => \A i \in DOMAIN rows : ~Queued(i)
============================================================================
