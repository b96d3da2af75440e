------------------------ MODULE SteeringQueue_proofs ------------------------
(***************************************************************************)
(* Proofs about the steering queue, for any set of runs and any bounds: a  *)
(* completion that was routed is kept, and the queue implements the mailbox *)
(***************************************************************************)
EXTENDS SteeringQueue, TLAPS

\* Where a message may have gone once it has entered the queue.
Seen == taken \cup shown \cup cut

\* A runner carries a run, which nobody else is routing until it puts it back.
RunnerCarries ==
  /\ auto.st = "off" => auto.run = Parent
  /\ auto.st # "off" => auto.run \in Runs
  /\ auto.st = "gate" => enq[auto.run] = "idle"
  /\ auto.st = "drive" => auto.run \in direct

\* Only what a drain took is marked consumed.
ConsumedSeen == \A r \in Runs : row[r] = "consumed" => r \in Seen

\* Memory comes before the row.
StoredEntered == \A r \in Runs : enq[r] = "store" => r \in mem \cup Seen

\* A row inserted behind the back of a hydration is in memory or was drained.
ReadCovers == hyd.st = "read" => Pending \subseteq hyd.rows \cup mem \cup Seen

\* What the code of the queue keeps, beside the types.
QueueInv == RunnerCarries /\ ConsumedSeen /\ StoredEntered /\ ReadCovers

\* The inductive invariant.
SteerInv == SteerTypeOK /\ QueueInv /\ RoutedKept

---------------------------------------------------------------------------
(* The invariant is inductive *)

\* Every step keeps the type.
LEMMA TypeStep ==
  ASSUME SteerInv, [SteerNext]_vars
  PROVE  SteerTypeOK'
<1> USE SteerAssumption DEF SteerInv, SteerTypeOK, QueueInv, RunnerCarries, queue_vars,
        route_vars, turn_vars, NoHyd, NoRun, Bounds, Spend, Pending
<1>1. ASSUME NEW r \in Runs, Announce(r) PROVE SteerTypeOK'
  BY <1>1 DEF Announce
<1>2. ASSUME NEW r \in Runs, AnnounceFails(r) PROVE SteerTypeOK'
  BY <1>2 DEF AnnounceFails
<1>3. ASSUME NEW r \in Runs, RouteToQueue(r) PROVE SteerTypeOK'
  BY <1>3 DEF RouteToQueue, Enter, Ask, MayPass
<1>4. ASSUME NEW r \in Runs, RouteToBell(r) PROVE SteerTypeOK'
  BY <1>4 DEF RouteToBell
<1>5. ASSUME NEW r \in Runs, RouteToTurn(r) PROVE SteerTypeOK'
  BY <1>5 DEF RouteToTurn
<1>6. ASSUME NEW r \in Runs, Store(r) PROVE SteerTypeOK'
  BY <1>6 DEF Store, Leave
<1>7. ASSUME NEW r \in Runs, StoreFails(r) PROVE SteerTypeOK'
  BY <1>7 DEF StoreFails, Enter, Ask, MayPass, Leave
<1>8. ASSUME NEW r \in Runs, Mark(r) PROVE SteerTypeOK'
  BY <1>8 DEF Mark
<1>9. ASSUME NEW r \in Runs, MarkFails(r) PROVE SteerTypeOK'
  BY <1>9 DEF MarkFails
<1>10. CASE AutoGate
  BY <1>10 DEF AutoGate, Enter, Ask, MayPass
<1>11. CASE TurnBegins
  BY <1>11 DEF TurnBegins
<1>12. CASE BeforeModel
  BY <1>12 DEF BeforeModel, Ask, MayPass, Take
<1>13. CASE Inject
  BY <1>13 DEF Inject
<1>14. CASE TurnEnds
  BY <1>14 DEF TurnEnds
<1>15. CASE Stop
  BY <1>15 DEF Stop
<1>16. CASE HydrateRead
  BY <1>16 DEF HydrateRead
<1>17. CASE Hydrated
  BY <1>17 DEF Hydrated, GoOn, Take
<1>18. CASE HydrateFails
  BY <1>18 DEF HydrateFails, GoOn, Take, Ask
<1>19. ASSUME NEW orderly \in BOOLEAN, Restart(orderly) PROVE SteerTypeOK'
  <2>1. row' \in [Runs -> {"none", "pending", "consumed"}]
    <3>1. row' = row \/ row' = [row EXCEPT ![auto.run] = IF @ = "none" THEN "pending" ELSE @]
      BY <1>19 DEF Restart
    <3> QED BY <3>1
  <2>2. left' \in [Bounds -> Nat]
    BY <1>19 DEF Restart
  <2>3. cut' \subseteq Runs
    BY <1>19 DEF Restart, held
  <2>4. enq' \in [Runs -> {"idle", "route", "load", "store"}]
    BY <1>19 DEF Restart
  <2> QED BY <1>19, <2>1, <2>2, <2>3, <2>4 DEF Restart
<1>20. CASE UNCHANGED vars
  BY <1>20 DEF vars
<1> QED
  BY <1>1, <1>2, <1>3, <1>4, <1>5, <1>6, <1>7, <1>8, <1>9, <1>10, <1>11, <1>12, <1>13,
     <1>14, <1>15, <1>16, <1>17, <1>18, <1>19, <1>20
  DEF SteerNext, Route, Enqueue, Turn, Hydrate

\* Every step keeps the strengthening.  An insert needs StoredEntered for
\* ReadCovers, a hydration the type invariant (its caller holds nothing), a
\* mark that it is of an item taken.
LEMMA QueueStep ==
  ASSUME SteerInv, [SteerNext]_vars
  PROVE  QueueInv'
<1> USE SteerAssumption DEF SteerInv, SteerTypeOK, QueueInv, RunnerCarries,
        ConsumedSeen, StoredEntered, ReadCovers, queue_vars, route_vars, turn_vars,
        NoHyd, NoRun, Pending, Seen, held, Busy
<1>1. ASSUME NEW r \in Runs, Announce(r) PROVE QueueInv'
  BY <1>1 DEF Announce
<1>2. ASSUME NEW r \in Runs, AnnounceFails(r) PROVE QueueInv'
  BY <1>2 DEF AnnounceFails
<1>3. ASSUME NEW r \in Runs, RouteToQueue(r) PROVE QueueInv'
  BY <1>3 DEF RouteToQueue, Enter, Ask, MayPass
<1>4. ASSUME NEW r \in Runs, RouteToBell(r) PROVE QueueInv'
  BY <1>4 DEF RouteToBell
<1>5. ASSUME NEW r \in Runs, RouteToTurn(r) PROVE QueueInv'
  BY <1>5 DEF RouteToTurn
<1>6. ASSUME NEW r \in Runs, Store(r) PROVE QueueInv'
  BY <1>6 DEF Store, Leave
<1>7. ASSUME NEW r \in Runs, StoreFails(r) PROVE QueueInv'
  BY <1>7 DEF StoreFails, Enter, Ask, MayPass, Leave
<1>8. ASSUME NEW r \in Runs, Mark(r) PROVE QueueInv'
  BY <1>8 DEF Mark
<1>9. ASSUME NEW r \in Runs, MarkFails(r) PROVE QueueInv'
  BY <1>9 DEF MarkFails
<1>10. CASE AutoGate
  BY <1>10 DEF AutoGate, Enter, Ask, MayPass
<1>11. CASE TurnBegins
  BY <1>11 DEF TurnBegins
<1>12. CASE BeforeModel
  BY <1>12 DEF BeforeModel, Ask, MayPass, Take
<1>13. CASE Inject
  BY <1>13 DEF Inject
<1>14. CASE TurnEnds
  BY <1>14 DEF TurnEnds
<1>15. CASE Stop
  BY <1>15 DEF Stop
<1>16. CASE HydrateRead
  BY <1>16 DEF HydrateRead
<1>17. CASE Hydrated
  BY <1>17 DEF Hydrated, GoOn, Take
<1>18. CASE HydrateFails
  BY <1>18 DEF HydrateFails, GoOn, Take, Ask
<1>19. ASSUME NEW orderly \in BOOLEAN, Restart(orderly) PROVE QueueInv'
  BY <1>19 DEF Restart
<1>20. CASE UNCHANGED vars
  BY <1>20 DEF vars
<1> QED
  BY <1>1, <1>2, <1>3, <1>4, <1>5, <1>6, <1>7, <1>8, <1>9, <1>10, <1>11, <1>12, <1>13,
     <1>14, <1>15, <1>16, <1>17, <1>18, <1>19, <1>20
  DEF SteerNext, Route, Enqueue, Turn, Hydrate

\* No step loses a routed completion.  Store may take it out of memory only
\* consumed (ConsumedSeen); a hydration stops the table from being owed, and
\* has all of it in memory by then (ReadCovers).
LEMMA RoutedStep ==
  ASSUME SteerInv, [SteerNext]_vars
  PROVE  RoutedKept'
<1> USE SteerAssumption DEF SteerInv, SteerTypeOK, QueueInv, RunnerCarries,
        ConsumedSeen, StoredEntered, ReadCovers, RoutedKept, queue_vars, route_vars,
        turn_vars, NoHyd, NoRun, Pending, Seen, held, Busy
<1>1. ASSUME NEW r \in Runs, Announce(r) PROVE RoutedKept'
  BY <1>1 DEF Announce
<1>2. ASSUME NEW r \in Runs, AnnounceFails(r) PROVE RoutedKept'
  BY <1>2 DEF AnnounceFails
<1>3. ASSUME NEW r \in Runs, RouteToQueue(r) PROVE RoutedKept'
  BY <1>3 DEF RouteToQueue, Enter, Ask, MayPass
<1>4. ASSUME NEW r \in Runs, RouteToBell(r) PROVE RoutedKept'
  BY <1>4 DEF RouteToBell
<1>5. ASSUME NEW r \in Runs, RouteToTurn(r) PROVE RoutedKept'
  BY <1>5 DEF RouteToTurn
<1>6. ASSUME NEW r \in Runs, Store(r) PROVE RoutedKept'
  BY <1>6 DEF Store, Leave
<1>7. ASSUME NEW r \in Runs, StoreFails(r) PROVE RoutedKept'
  BY <1>7 DEF StoreFails, Enter, Ask, MayPass, Leave
<1>8. ASSUME NEW r \in Runs, Mark(r) PROVE RoutedKept'
  BY <1>8 DEF Mark
<1>9. ASSUME NEW r \in Runs, MarkFails(r) PROVE RoutedKept'
  BY <1>9 DEF MarkFails
<1>10. CASE AutoGate
  BY <1>10 DEF AutoGate, Enter, Ask, MayPass
<1>11. CASE TurnBegins
  BY <1>11 DEF TurnBegins
<1>12. CASE BeforeModel
  BY <1>12 DEF BeforeModel, Ask, MayPass, Take
<1>13. CASE Inject
  BY <1>13 DEF Inject
<1>14. CASE TurnEnds
  BY <1>14 DEF TurnEnds
<1>15. CASE Stop
  BY <1>15 DEF Stop
<1>16. CASE HydrateRead
  BY <1>16 DEF HydrateRead
<1>17. CASE Hydrated
  BY <1>17 DEF Hydrated, GoOn, Take
<1>18. CASE HydrateFails
  BY <1>18 DEF HydrateFails, GoOn, Take, Ask
<1>19. ASSUME NEW orderly \in BOOLEAN, Restart(orderly) PROVE RoutedKept'
  BY <1>19 DEF Restart
<1>20. CASE UNCHANGED vars
  BY <1>20 DEF vars
<1> QED
  BY <1>1, <1>2, <1>3, <1>4, <1>5, <1>6, <1>7, <1>8, <1>9, <1>10, <1>11, <1>12, <1>13,
     <1>14, <1>15, <1>16, <1>17, <1>18, <1>19, <1>20
  DEF SteerNext, Route, Enqueue, Turn, Hydrate

\* A step of the queue is a step of the mailbox: Inject is Hand, with what was
\* taken; Stop and Restart are Interrupt, with what was taken and with what the
\* table does not have; all others are Post, or leave the mailbox alone.
LEMMA MailStep ==
  ASSUME SteerInv, [SteerNext]_vars
  PROVE  [M!MailNext]_(M!mail_vars)
<1> USE SteerAssumption DEF SteerInv, SteerTypeOK, QueueInv, RunnerCarries,
        ConsumedSeen, StoredEntered, ReadCovers, queue_vars, route_vars, turn_vars,
        NoHyd, NoRun, Pending, Seen, held, M!MailNext, M!mail_vars, M!Post, M!Hand,
        M!Interrupt, M!Accounted
<1>1. ASSUME NEW r \in Runs, Announce(r) PROVE [M!MailNext]_(M!mail_vars)
  BY <1>1 DEF Announce
<1>2. ASSUME NEW r \in Runs, AnnounceFails(r) PROVE [M!MailNext]_(M!mail_vars)
  BY <1>2 DEF AnnounceFails
<1>3. ASSUME NEW r \in Runs, RouteToQueue(r) PROVE [M!MailNext]_(M!mail_vars)
  BY <1>3 DEF RouteToQueue, Enter, Ask, MayPass
<1>4. ASSUME NEW r \in Runs, RouteToBell(r) PROVE [M!MailNext]_(M!mail_vars)
  BY <1>4 DEF RouteToBell
<1>5. ASSUME NEW r \in Runs, RouteToTurn(r) PROVE [M!MailNext]_(M!mail_vars)
  BY <1>5 DEF RouteToTurn
<1>6. ASSUME NEW r \in Runs, Store(r) PROVE [M!MailNext]_(M!mail_vars)
  BY <1>6 DEF Store, Leave
<1>7. ASSUME NEW r \in Runs, StoreFails(r) PROVE [M!MailNext]_(M!mail_vars)
  BY <1>7 DEF StoreFails, Enter, Ask, MayPass, Leave
<1>8. ASSUME NEW r \in Runs, Mark(r) PROVE [M!MailNext]_(M!mail_vars)
  BY <1>8 DEF Mark
<1>9. ASSUME NEW r \in Runs, MarkFails(r) PROVE [M!MailNext]_(M!mail_vars)
  BY <1>9 DEF MarkFails
<1>10. CASE AutoGate
  BY <1>10 DEF AutoGate, Enter, Ask, MayPass
<1>11. CASE TurnBegins
  BY <1>11 DEF TurnBegins
<1>12. CASE BeforeModel
  BY <1>12 DEF BeforeModel, Ask, MayPass, Take
<1>13. CASE Inject
  BY <1>13 DEF Inject
<1>14. CASE TurnEnds
  BY <1>14 DEF TurnEnds
<1>15. CASE Stop
  BY <1>15 DEF Stop
<1>16. CASE HydrateRead
  BY <1>16 DEF HydrateRead
<1>17. CASE Hydrated
  BY <1>17 DEF Hydrated, GoOn, Take
<1>18. CASE HydrateFails
  BY <1>18 DEF HydrateFails, GoOn, Take, Ask
<1>19. ASSUME NEW orderly \in BOOLEAN, Restart(orderly) PROVE [M!MailNext]_(M!mail_vars)
  BY <1>19 DEF Restart
<1>20. CASE UNCHANGED vars
  BY <1>20 DEF vars
<1> QED
  BY <1>1, <1>2, <1>3, <1>4, <1>5, <1>6, <1>7, <1>8, <1>9, <1>10, <1>11, <1>12, <1>13,
     <1>14, <1>15, <1>16, <1>17, <1>18, <1>19, <1>20
  DEF SteerNext, Route, Enqueue, Turn, Hydrate

---------------------------------------------------------------------------
(* The theorems *)

\* The invariant holds at the start, with the rows of an earlier process PENDING.
LEMMA InvInit == SteerInit => SteerInv
<1> SUFFICES ASSUME SteerInit PROVE SteerInv
  OBVIOUS
<1>1. SteerTypeOK
  <2>1. left \in [Bounds -> Nat]
    BY SteerAssumption DEF SteerInit, Bounds
  <2> QED BY <2>1, SteerAssumption DEF SteerInit, SteerTypeOK, NoHyd, NoRun
<1>2. QueueInv /\ RoutedKept
  BY SteerAssumption DEF SteerInit, QueueInv, RunnerCarries, ConsumedSeen, StoredEntered,
                         ReadCovers, RoutedKept, NoHyd, NoRun
<1> QED BY <1>1, <1>2 DEF SteerInv

\* The invariant holds of every reachable state.
LEMMA SteerInvariant == SteerSpec => []SteerInv
<1>1. SteerInv /\ [SteerNext]_vars => SteerInv'
  BY TypeStep, QueueStep, RoutedStep DEF SteerInv
<1> QED BY InvInit, <1>1, PTL DEF SteerSpec

\* A drain holds items only while it marks them, and no caller sits in a
\* hydration that it did not start (drain, _ensure_hydrated).
THEOREM SteerTypeCorrect == SteerSpec => []SteerTypeOK
<1>1. SteerInv => SteerTypeOK
  BY DEF SteerInv
<1> QED BY SteerInvariant, <1>1, PTL

\* A completion that was routed is in the queue, with a runner, injected, in a
\* turn of its own, left to the bell or cut off: no failed write or mark, failed
\* or stale hydration or lost race for the session drops it.  That holds once
\* the query of _route_completion_injection has answered; when the query fails
\* the completion is not queued at all.
THEOREM CompletionKept == SteerSpec => []RoutedKept
<1>1. SteerInv => RoutedKept
  BY DEF SteerInv
<1> QED BY SteerInvariant, <1>1, PTL

\* The queue in memory over its table implements the mailbox: a message it owes
\* is given to a model call before it is forgotten, unless a stop or a crash
\* cuts it off (enqueue_steering, drain, _ensure_hydrated).
THEOREM QueueIsMailbox == SteerSpec => MailboxSpec
<1>1. SteerInit => M!MailInit
  BY SteerAssumption DEF SteerInit, M!MailInit, held, Pending
<1>2. SteerInv /\ [SteerNext]_vars => [M!MailNext]_(M!mail_vars)
  BY MailStep
<1> QED BY SteerInvariant, <1>1, <1>2, PTL DEF SteerSpec, MailboxSpec, M!MailSpec
=============================================================================
