----------------------------- MODULE EffectLog -----------------------------
(***************************************************************************)
(* The restart-recovery effect queue: the intent table of                  *)
(* runtime/effects/intent_log.py, the worker of runtime/effects/worker.py, *)
(* the callers that enqueue or shadow an effect (auto_turn.py and alike)   *)
(* and the replay of server/service/effects/boot.py.  One row per key,     *)
(* every terminal transition a compare-and-set on the row's generation.    *)
(***************************************************************************)
EXTENDS Integers, FiniteSets

CONSTANTS
  Key,          \* (kind, key) pairs
  Registered,   \* those whose kind has a handler
  Worker,       \* worker tasks sharing the table
  Modes,        \* settings a boot may come up with: "exec", "shadow"
  RestartReplay,  \* effects.restart_replay
  MaxAttempts,  \* effects.max_attempts
  MaxGen,       \* bound: enqueues per key
  MaxCrash      \* bound: restarts

ASSUME EffectAssumption ==
  /\ Registered \subseteq Key
  /\ Modes \subseteq {"exec", "shadow"} /\ Modes # {}
  /\ RestartReplay \in BOOLEAN
  /\ MaxAttempts \in Nat /\ MaxGen \in Nat /\ MaxCrash \in Nat
  /\ IsFiniteSet(Worker) /\ Worker # {}

VARIABLES
  row,      \* the table; generation 0: no such row
  mode,     \* the effects.* flags of this process
  todo,     \* rows of the tick's fetch_pending still to process, per worker
  cur,      \* the row a worker has claimed
  result,   \* the outcome its handler returned
  shadow,   \* generation whose original path runs in shadow mode (0: none)
  runs,     \* history: handler runs per key and generation
  ok,       \* history: generations whose effect took place
  crashes
worker_vars == <<todo, cur, result>>
vars == <<row, mode, todo, cur, result, shadow, runs, ok, crashes>>

Gen     == 1 .. MaxGen
Status  == {"pending", "in_flight", "done", "abandoned"}
Row     == [generation : 0 .. MaxGen, status : Status, attempts : Nat, due : BOOLEAN]
IntentRow == [key : Key, generation : Gen, attempts : Nat]
Nothing == [key |-> "none"]
Outcome == {"none", "done", "abandon", "retry"}

Snapshot(k) == [key |-> k, generation |-> row[k].generation, attempts |-> row[k].attempts]

---------------------------------------------------------------------------
(* intent_log.py: statements on one row *)

Upsert(k) == row' = [row EXCEPT ![k] = [generation |-> @.generation + 1, status |-> "pending",
                                        attempts |-> 0, due |-> TRUE]]

\* Mutant: the generation is not compared.
Cas_AnyGeneration(r, from) == row[r.key].status = from
\* UPDATE ... WHERE id = ? AND generation = ? AND status = `from'
Cas(r, from) == /\ row[r.key].generation = r.generation
                /\ row[r.key].status = from

\* Mutant: the status is not compared.
CanClaim_AnyStatus(r) == row[r.key].generation = r.generation
CanClaim(r) == Cas(r, "pending")

SetRow(k, st, att, due) ==
  row' = [row EXCEPT ![k].status = st, ![k].attempts = att, ![k].due = due]

\* Mutants: a retry does not count, or counts down.
MarkRetry_Down(r) == IF Cas(r, "in_flight")
                       THEN SetRow(r.key, "pending", row[r.key].attempts - 1, FALSE)
                       ELSE UNCHANGED row
MarkRetry_Uncounted(r) == IF Cas(r, "in_flight")
                            THEN SetRow(r.key, "pending", row[r.key].attempts, FALSE)
                            ELSE UNCHANGED row
MarkRetry(r) == IF Cas(r, "in_flight")
                  THEN SetRow(r.key, "pending", row[r.key].attempts + 1, FALSE)
                  ELSE UNCHANGED row
MarkFinal(r, st) == IF Cas(r, "in_flight")
                      THEN SetRow(r.key, st, row[r.key].attempts, row[r.key].due)
                      ELSE UNCHANGED row
\* A lost compare-and-set leaves the row alone.
Mark(r, o) == \/ o = "done"    /\ MarkFinal(r, "done")
              \/ o = "abandon" /\ MarkFinal(r, "abandoned")
              \/ o = "retry"   /\ MarkRetry(r)

\* Mutant: what was in flight is left as it is.
Replayed_Nothing == row
\* replay_pending: what was in flight when the process died is due again.
Replayed == [k \in Key |-> IF row[k].status = "in_flight"
                             THEN [row[k] EXCEPT !.status = "pending", !.due = TRUE]
                             ELSE row[k]]

---------------------------------------------------------------------------
(* The callers *)

\* effects_execution_enabled: the effect is queued instead of performed.
Enqueue(k) ==
  /\ mode = "exec" /\ row[k].generation < MaxGen
  /\ Upsert(k)
  /\ UNCHANGED <<mode, worker_vars, shadow, runs, ok, crashes>>

\* effects_shadow_enabled: record the intent, then perform the effect ...
ShadowStart(k) ==
  /\ mode = "shadow" /\ shadow[k] = 0 /\ row[k].generation < MaxGen
  /\ Upsert(k)
  /\ shadow' = [shadow EXCEPT ![k] = row'[k].generation]
  /\ UNCHANGED <<mode, worker_vars, runs, ok, crashes>>

\* ... and mark the intent with its outcome.
ShadowEnd(k, o) ==
  /\ shadow[k] # 0
  /\ Mark([key |-> k, generation |-> shadow[k]], o)
  /\ ok' = [ok EXCEPT ![k] = IF o = "done" THEN @ \cup {shadow[k]} ELSE @]
  /\ shadow' = [shadow EXCEPT ![k] = 0]
  /\ UNCHANGED <<mode, worker_vars, runs, crashes>>

---------------------------------------------------------------------------
(* EffectWorker._tick *)

Fetch(w) ==
  /\ mode = "exec" /\ todo[w] = {} /\ cur[w] = Nothing
  /\ LET due == {k \in Key : row[k].generation > 0 /\ row[k].status = "pending" /\ row[k].due}
     IN  /\ due # {}
         /\ todo' = [todo EXCEPT ![w] = {Snapshot(k) : k \in due}]
  /\ UNCHANGED <<row, mode, cur, result, shadow, runs, ok, crashes>>

\* One iteration up to the await: skip a row without a handler or one whose
\* claim is lost, abandon a row out of attempts, or start the handler.
Process(w, r) ==
  /\ cur[w] = Nothing /\ r \in todo[w]
  /\ todo' = [todo EXCEPT ![w] = @ \ {r}]
  /\ \/ /\ r.key \notin Registered \/ ~CanClaim(r)
        /\ UNCHANGED <<row, cur, runs>>
     \/ /\ r.key \in Registered /\ CanClaim(r)
        /\ r.attempts >= MaxAttempts
        /\ SetRow(r.key, "abandoned", row[r.key].attempts, row[r.key].due)
        /\ UNCHANGED <<cur, runs>>
     \/ /\ r.key \in Registered /\ CanClaim(r)
        /\ r.attempts < MaxAttempts
        /\ SetRow(r.key, "in_flight", row[r.key].attempts, row[r.key].due)
        /\ cur' = [cur EXCEPT ![w] = r]
        /\ runs' = [runs EXCEPT ![r.key][r.generation] = @ + 1]
  /\ UNCHANGED <<mode, result, shadow, ok, crashes>>

\* The handler is over; its effect took place if it answered done.  An
\* exception counts as a retry.
HandlerReturns(w, o) ==
  /\ cur[w] # Nothing /\ result[w] = "none"
  /\ result' = [result EXCEPT ![w] = o]
  /\ ok' = IF o # "done" THEN ok
           ELSE [ok EXCEPT ![cur[w].key] = @ \cup {cur[w].generation}]
  /\ UNCHANGED <<row, mode, todo, cur, shadow, runs, crashes>>

Record(w) ==
  /\ cur[w] # Nothing /\ result[w] # "none"
  /\ Mark(cur[w], result[w])
  /\ cur' = [cur EXCEPT ![w] = Nothing]
  /\ result' = [result EXCEPT ![w] = "none"]
  /\ UNCHANGED <<mode, todo, shadow, runs, ok, crashes>>

\* due_at passes.
Ripen(k) ==
  /\ row[k].generation > 0 /\ ~row[k].due
  /\ row' = [row EXCEPT ![k].due = TRUE]
  /\ UNCHANGED <<mode, worker_vars, shadow, runs, ok, crashes>>

\* A crash at any point, then run_restart_recovery under the new settings,
\* which replays only if it is told to.
Restart(m) ==
  /\ crashes < MaxCrash /\ crashes' = crashes + 1
  /\ mode' = m /\ row' = IF RestartReplay THEN Replayed ELSE row
  /\ todo' = [w \in Worker |-> {}] /\ cur' = [w \in Worker |-> Nothing]
  /\ result' = [w \in Worker |-> "none"] /\ shadow' = [k \in Key |-> 0]
  /\ UNCHANGED <<runs, ok>>

---------------------------------------------------------------------------
Init ==
  /\ row = [k \in Key |-> [generation |-> 0, status |-> "done", attempts |-> 0, due |-> TRUE]]
  /\ mode \in Modes
  /\ todo = [w \in Worker |-> {}] /\ cur = [w \in Worker |-> Nothing]
  /\ result = [w \in Worker |-> "none"] /\ shadow = [k \in Key |-> 0]
  /\ runs = [k \in Key |-> [g \in Gen |-> 0]]
  /\ ok = [k \in Key |-> {}]
  /\ crashes = 0

Step(w) == \/ Fetch(w)
           \/ \E r \in todo[w] : Process(w, r)
           \/ \E o \in Outcome \ {"none"} : HandlerReturns(w, o)
           \/ Record(w)

Next ==
  \/ \E w \in Worker : Step(w)
  \/ \E k \in Key : \/ Enqueue(k) \/ ShadowStart(k) \/ Ripen(k)
                    \/ \E o \in Outcome \ {"none"} : ShadowEnd(k, o)
  \/ \E m \in Modes : Restart(m)

Spec     == Init /\ [][Next]_vars
FairSpec == Spec /\ (\A w \in Worker : WF_vars(Step(w))) /\ (\A k \in Key : WF_vars(Ripen(k)))

---------------------------------------------------------------------------
(* Properties *)

\* Type invariant.
EffectTypeOK ==
  /\ row \in [Key -> Row] /\ mode \in Modes
  /\ todo \in [Worker -> SUBSET IntentRow]
  /\ cur \in [Worker -> IntentRow \cup {Nothing}]
  /\ result \in [Worker -> Outcome]
  /\ shadow \in [Key -> 0 .. MaxGen]
  /\ runs \in [Key -> [Gen -> Nat]]
  /\ ok \in [Key -> SUBSET Gen]
  /\ crashes \in 0 .. MaxCrash

\* A row is done only if the effect of its current generation took place: a
\* slow handler of an older generation cannot mark the newer one done.
DoneTookPlace ==
  \A k \in Key : row[k].generation > 0 /\ row[k].status = "done" =>
    row[k].generation \in ok[k]

\* Two workers never run the same generation of an intent at a time,
\* though both may hold it in the list they fetched.
OneRunPerGeneration ==
  \A v, w \in Worker : v # w /\ cur[v] # Nothing /\ cur[w] # Nothing =>
    <<cur[v].key, cur[v].generation>> # <<cur[w].key, cur[w].generation>>

\* Without a crash no handler is started for a generation whose effect took
\* place already.
NotRepeated ==
  [][crashes = 0 => \A k \in Key : \A g \in ok[k] : runs'[k][g] = runs[k][g]]_vars

\* A generation is run at most max_attempts times, plus once per restart and
\* once per further worker, whose list may hold an older count: a failing
\* effect is given up, not retried for ever.
RunsBounded ==
  \A k \in Key : \A g \in Gen :
    runs[k][g] <= MaxAttempts + crashes + Cardinality(Worker) - 1

\* With restart replay on, every intent with a handler is eventually done or
\* given up, across crashes at any point between claim, effect and mark, unless
\* the process now runs in shadow mode, where no worker executes.
Settled(k) == row[k].generation = 0 \/ row[k].status \in {"done", "abandoned"}
EffectSettles ==
  RestartReplay => \A k \in Registered : ~Settled(k) ~> (Settled(k) \/ mode = "shadow")

\* An effect that shadow mode performed leaves its intent done ("shadow runs
\* the original and marks done").
ShadowMarksDone ==
  [][\A k \in Key : /\ shadow[k] # 0 /\ shadow[k] \notin ok[k] /\ shadow[k] \in ok'[k]
                    /\ row[k].generation = shadow[k]
                    => row'[k].status = "done"]_vars
============================================================================
