---------------------------- MODULE StrategySweeps ----------------------------
(***************************************************************************)
(* The backtest sweeps of one strategy template: production sweeps started *)
(* by hand or by the scheduler, and walk-forward runs that create a train  *)
(* and a test sweep per fold.  What both write to the template in the end  *)
(* is StrategyVersions.                                                    *)
(*                                                                         *)
(* Sweeps run in detached asyncio tasks; requests and the scheduler change *)
(* the same rows.  A step is what happens between two commits, except that *)
(* a chunk of dates is one step: nothing else reads what it writes.        *)
(* Weights are abstracted to the discussions they may have been fitted to, *)
(* and a discussion to its sweep and its date.                             *)
(***************************************************************************)
EXTENDS Integers, FiniteSets

CONSTANTS
    Sweeps,        \* rows of backtest_sweeps that may be created
    Tasks,         \* detached tasks: sweep workers and walk-forward orchestrators
    Cancels,       \* POST /sweeps/{id}/cancel requests
    NoSweep,       \* no row
    Days,          \* trading days of ohlcv_daily up to the anchor: 1..Days
    TrainWindow, TestWindow, Folds,  \* of a walk-forward request
    Production,    \* the days of a production sweep
    Concurrency,   \* default_concurrency
    MaxProduction, \* bound on production sweeps
    Walks,         \* bound on walk-forward requests
    MaxFaults      \* bound on cancels, deletes, database failures and crashes

ASSUME SweepsAssumption ==
    /\ NoSweep \notin Sweeps
    /\ Days \in Nat /\ Production \subseteq 1..Days
    /\ {TrainWindow, TestWindow, Folds, Concurrency} \subseteq Nat \ {0}
    /\ {MaxProduction, Walks, MaxFaults} \subseteq Nat

VARIABLES
    \* backtest_sweeps: status ("none": no row yet, "deleted": no row any more),
    \* fold_kind, the dates it resolves to, weights_override, whether
    \* cancelled_at is set, and whether the scheduler created it
    status, kind, dates, override, cancelled, auto,
    \* completed_at of test sweeps, and the clock it is taken from
    completedAt, clock,
    \* history: sweeps that were started by hand
    manual,
    \* the discussions of dates that workers have taken up
    discs,
    \* each task: where it is, the sweep it runs, the dates left, the fold (0:
    \* none) and half of it, and the weights it has fitted
    pc, on, todo, fold, half, fit,
    \* the sweep each cancel has read, whether the scheduler has found nothing
    \* active, the sweep it has created since, how many walk-forward requests have
    \* found nothing active, and the bounded counts
    cancel, free, queued, cleared, walks, faults

rowVars  == <<status, kind, dates, override, cancelled, auto, completedAt, clock, manual>>
taskVars == <<pc, on, todo, fold, half, fit>>
reqVars  == <<cancel, free, queued, cleared, walks, faults>>
vars == <<rowVars, discs, taskVars, reqVars>>

Active(s) == status[s] \in {"pending", "running"}
Exists(s) == status[s] \notin {"none", "deleted"}
Records(s, D) == {[sweep |-> s, date |-> d] : d \in D}
OfSweep(s, D) == {x \in D : x.sweep = s}

Init ==
    /\ status = [s \in Sweeps |-> "none"] /\ kind = [s \in Sweeps |-> "production"]
    /\ dates = [s \in Sweeps |-> {}] /\ override = [s \in Sweeps |-> {}]
    /\ cancelled = {} /\ auto = {} /\ manual = {}
    /\ completedAt = [s \in Sweeps |-> 0] /\ clock = 1
    /\ discs = {}
    /\ pc = [t \in Tasks |-> "off"]
    /\ on = [t \in Tasks |-> NoSweep] /\ todo = [t \in Tasks |-> {}]
    /\ fold = [t \in Tasks |-> 0] /\ half = [t \in Tasks |-> "none"]
    /\ fit = [t \in Tasks |-> {}]
    /\ cancel = [c \in Cancels |-> NoSweep]
    /\ free = FALSE /\ queued = NoSweep /\ cleared = 0 /\ walks = 0 /\ faults = 0

-----------------------------------------------------------------------------
(* Days.                                                                   *)

\* _resolve_trading_days: the next `count` days from `anchor`, while they last.
Resolved(anchor, count) == {d \in 1..Days : anchor <= d /\ d < anchor + count}
\* plan_walk_forward: fold Folds ends on the anchor, and every fold right before
\* the next one starts.
FoldSpan == TrainWindow + TestWindow
TrainAnchor(k) == Days - (Folds + 1 - k) * FoldSpan + 1
TestAnchor(k) == TrainAnchor(k) + TrainWindow
TrainDays(k) == Resolved(TrainAnchor(k), TrainWindow)
TestDays(k) == Resolved(TestAnchor(k), TestWindow)

-----------------------------------------------------------------------------
(* Rows.                                                                   *)

Produced == {s \in Sweeps : status[s] # "none" /\ kind[s] = "production"}
\* create_sweep: a pending row.
Create(s, k, D, w) ==
    /\ status[s] = "none"
    /\ k = "production" => Cardinality(Produced) < MaxProduction
    /\ status' = [status EXCEPT ![s] = "pending"]
    /\ kind' = [kind EXCEPT ![s] = k]
    /\ dates' = [dates EXCEPT ![s] = D]
    /\ override' = [override EXCEPT ![s] = w]
    /\ UNCHANGED <<cancelled, completedAt, clock, manual>>
SetStatus(s, v) == /\ status' = [status EXCEPT ![s] = v]
                   /\ UNCHANGED <<kind, dates, override, cancelled, auto, completedAt, clock, manual>>

\* A task is detached at point p, to run sweep s or fold k.
Spawn(t, p, s, k) ==
    /\ pc[t] = "off"
    /\ pc' = [pc EXCEPT ![t] = p]
    /\ on' = [on EXCEPT ![t] = s]
    /\ fold' = [fold EXCEPT ![t] = k]
    /\ UNCHANGED <<todo, half, fit>>
Go(t, p) == pc' = [pc EXCEPT ![t] = p]

\* POST /sweeps.
CreateByHand(s) ==
    /\ Create(s, "production", Production, {}) /\ UNCHANGED auto
    /\ UNCHANGED <<discs, taskVars, reqVars>>

\* POST /sweeps/{id}/start.
Start(t, s) ==
    /\ status[s] = "pending"
    /\ Spawn(t, "resolve", s, 0)
    /\ manual' = manual \cup {s}
    /\ UNCHANGED <<status, kind, dates, override, cancelled, auto, completedAt, clock, discs,
                   reqVars>>

\* POST /sweeps/{id}/cancel reads the row, and writes it if it was not final.
CancelReads(c, s) ==
    /\ cancel[c] = NoSweep /\ Active(s) /\ faults < MaxFaults
    /\ cancel' = [cancel EXCEPT ![c] = s]
    /\ faults' = faults + 1
    /\ UNCHANGED <<rowVars, discs, taskVars, free, queued, cleared, walks>>
CancelWrites(c) ==
    LET s == cancel[c] IN
    /\ s # NoSweep
    /\ IF Exists(s)
       THEN /\ status' = [status EXCEPT ![s] = "cancelled"]
            /\ cancelled' = cancelled \cup {s}
       ELSE UNCHANGED <<status, cancelled>>
    /\ cancel' = [cancel EXCEPT ![c] = NoSweep]
    /\ UNCHANGED <<kind, dates, override, auto, completedAt, clock, manual, discs, taskVars,
                   free, queued, cleared, walks, faults>>

\* DELETE /sweeps/{id}: the discussions stay.
Delete(s) ==
    /\ Exists(s) /\ faults < MaxFaults
    /\ SetStatus(s, "deleted")
    /\ faults' = faults + 1
    /\ UNCHANGED <<discs, taskVars, cancel, free, queued, cleared, walks>>

-----------------------------------------------------------------------------
(* The scheduler: process_due_strategies for this template.                *)

\* _has_active_sweep: nothing is pending or running ...
AutoChecks ==
    /\ ~free /\ queued = NoSweep /\ \A s \in Sweeps : ~Active(s)
    /\ free' = TRUE
    /\ UNCHANGED <<rowVars, discs, taskVars, cancel, queued, cleared, walks, faults>>
\* latest_validated_weights: those of the last completed test sweep, if any; one
\* without weights holds a JSON null, which `is_not(None)` does not leave out.
Validated ==
    LET tests == {s \in Sweeps : kind[s] = "test" /\ status[s] = "completed"}
    IN  UNION {override[s] : s \in {u \in tests :
                                       \A v \in tests : completedAt[v] <= completedAt[u]}}
AutoFree_Unchecked == TRUE                               \* mutant
AutoFree == free
\* ... then a sweep is created, ...
AutoCreates(s) ==
    /\ AutoFree
    /\ Create(s, "production", Production, Validated)
    /\ auto' = auto \cup {s}
    /\ free' = FALSE /\ queued' = s
    /\ UNCHANGED <<discs, taskVars, cancel, cleared, walks, faults>>
\* ... and started.
AutoStarts(t) ==
    /\ queued # NoSweep
    /\ Spawn(t, "resolve", queued, 0)
    /\ queued' = NoSweep
    /\ UNCHANGED <<rowVars, discs, cancel, free, cleared, walks, faults>>

-----------------------------------------------------------------------------
(* run_sweep_worker.                                                       *)

\* The worker returns, to the orchestrator if it was called by one.
AfterHalf(t) == CASE half[t] = "train" -> "fit" [] half[t] = "test" -> "promote"
                  [] OTHER -> "off"
Return(t) ==
    /\ Go(t, AfterHalf(t))
    /\ on' = [on EXCEPT ![t] = IF half[t] = "none" THEN NoSweep ELSE @]
    /\ todo' = [todo EXCEPT ![t] = {}]
\* The row is read: it must be pending.
Resolve(t) ==
    /\ pc[t] = "resolve" /\ status[on[t]] = "pending"
    /\ Go(t, "mark")
    /\ UNCHANGED <<rowVars, discs, on, todo, fold, half, fit, reqVars>>
NotPending(t) ==
    /\ pc[t] = "resolve" /\ status[on[t]] # "pending"
    /\ Return(t)
    /\ UNCHANGED <<rowVars, discs, fold, half, fit, reqVars>>
\* The trading days have been looked up: the row is written, whatever it has
\* become, unless it is gone.
Mark(t) ==
    /\ pc[t] = "mark" /\ Exists(on[t])
    /\ SetStatus(on[t], "running")
    /\ todo' = [todo EXCEPT ![t] = dates[on[t]]]
    /\ Go(t, "loop")
    /\ UNCHANGED <<discs, on, fold, half, fit, reqVars>>
\* No trading days, or the look-up fails.
MarkFailed(t) ==
    /\ pc[t] = "mark" /\ Exists(on[t])
    /\ SetStatus(on[t], "failed")
    /\ Return(t)
    /\ UNCHANGED <<discs, fold, half, fit, reqVars>>

\* The next `concurrency` dates.
Chunk(D) == {d \in D : Cardinality({e \in D : e < d}) < Concurrency}
SeesCancel(t) == status[on[t]] = "cancelled"
\* _is_cancelled, and when it is not, the next chunk: each date gets its
\* discussion (without its row it fails at once), and the progress is written.
RunChunk(t) ==
    /\ pc[t] = "loop" /\ todo[t] # {} /\ ~SeesCancel(t)
    /\ discs' = discs \cup Records(on[t], Chunk(todo[t]))
    /\ todo' = [todo EXCEPT ![t] = @ \ Chunk(@)]
    /\ UNCHANGED <<rowVars, pc, on, fold, half, fit, reqVars>>

\* A cancel that the loop has seen: the row keeps its status.
EndCancelled(t) ==
    /\ pc[t] = "loop" /\ todo[t] # {} /\ SeesCancel(t)
    /\ Return(t)
    /\ UNCHANGED <<rowVars, discs, fold, half, fit, reqVars>>
FinishesEarly(t) == pc[t] = "loop"                        \* mutant
Finishes(t) == pc[t] = "loop" /\ todo[t] = {}
\* Otherwise it is completed, whatever it has become meanwhile, and weights may be
\* learnt.
Complete(t) ==
    LET s == on[t] IN
    /\ Finishes(t)
    /\ IF Exists(s)
       THEN /\ status' = [status EXCEPT ![s] = "completed"]
            /\ IF kind[s] = "test"
               THEN completedAt' = [completedAt EXCEPT ![s] = clock] /\ clock' = clock + 1
               ELSE UNCHANGED <<completedAt, clock>>
       ELSE UNCHANGED <<status, completedAt, clock>>
    /\ Return(t)
    /\ UNCHANGED <<kind, dates, override, cancelled, auto, manual, discs, fold, half,
                   fit, reqVars>>

\* The discussions of the strategy's sweeps that there are.
Pool == {x \in discs : Exists(x.sweep)}

-----------------------------------------------------------------------------
(* Walk-forward.                                                           *)

\* POST /walk-forward: has_active_walk_forward, the archive reaches far enough ...
WalkChecks ==
    /\ walks < Walks /\ Days >= FoldSpan * Folds
    /\ \A s \in Sweeps : kind[s] \in {"train", "test"} => ~Active(s)
    /\ walks' = walks + 1 /\ cleared' = cleared + 1
    /\ UNCHANGED <<rowVars, discs, taskVars, cancel, free, queued, faults>>
\* ... and the orchestrator detached.
WalkStarts(t) ==
    /\ cleared > 0
    /\ Spawn(t, "train", NoSweep, 1)
    /\ cleared' = cleared - 1
    /\ UNCHANGED <<rowVars, discs, cancel, free, queued, walks, faults>>

\* _run_one_fold creates the train sweep and runs it, ...
TrainStarts(t, s) ==
    /\ pc[t] = "train"
    /\ Create(s, "train", TrainDays(fold[t]), {}) /\ UNCHANGED auto
    /\ on' = [on EXCEPT ![t] = s]
    /\ half' = [half EXCEPT ![t] = "train"]
    /\ Go(t, "resolve")
    /\ UNCHANGED <<discs, todo, fold, fit, reqVars>>
Fitted_Strategy(t) == Pool                               \* mutant
Fitted(t) == OfSweep(on[t], Pool)
\* ... has its discussions judged, and fits weights to them, if there are enough;
\* no weights do as well.
Fit(t) ==
    /\ pc[t] = "fit"
    /\ \E D \in {{}, Fitted(t)} : fit' = [fit EXCEPT ![t] = D]
    /\ Go(t, "test")
    /\ UNCHANGED <<rowVars, discs, on, todo, fold, half, reqVars>>
\* The test sweep runs with the frozen weights.
TestStarts(t, s) ==
    /\ pc[t] = "test"
    /\ Create(s, "test", TestDays(fold[t]), fit[t]) /\ UNCHANGED auto
    /\ on' = [on EXCEPT ![t] = s]
    /\ half' = [half EXCEPT ![t] = "test"]
    /\ Go(t, "resolve")
    /\ UNCHANGED <<discs, todo, fold, fit, reqVars>>

\* The next fold, whether this one has failed or not.
NextFold(t) ==
    /\ on' = [on EXCEPT ![t] = NoSweep] /\ half' = [half EXCEPT ![t] = "none"]
    /\ fit' = [fit EXCEPT ![t] = {}] /\ todo' = [todo EXCEPT ![t] = {}]
    /\ IF fold[t] < Folds
       THEN Go(t, "train") /\ fold' = [fold EXCEPT ![t] = @ + 1]
       ELSE Go(t, "off") /\ fold' = [fold EXCEPT ![t] = 0]
\* evaluate_walk_forward_for_promotion: the test is judged, and its weights may be
\* promoted.
Judge(t) ==
    /\ pc[t] = "promote"
    /\ NextFold(t)
    /\ UNCHANGED <<rowVars, discs, reqVars>>

-----------------------------------------------------------------------------
(* Faults.                                                                 *)

\* The task raises: a sweep stays as it is, an orchestrator goes to its next fold.
Raises(t) ==
    IF half[t] = "none"
    THEN /\ Go(t, "off") /\ on' = [on EXCEPT ![t] = NoSweep]
         /\ todo' = [todo EXCEPT ![t] = {}] /\ UNCHANGED <<fold, half, fit>>
    ELSE NextFold(t)
\* The row is gone when it is marked as running.
MarkRaises(t) ==
    /\ pc[t] = "mark" /\ ~Exists(on[t])
    /\ Raises(t)
    /\ UNCHANGED <<rowVars, discs, reqVars>>
\* A database failure between two dates.
LoopRaises(t) ==
    /\ pc[t] = "loop" /\ faults < MaxFaults
    /\ Raises(t)
    /\ faults' = faults + 1
    /\ UNCHANGED <<rowVars, discs, cancel, free, queued, cleared, walks>>
\* The process dies with its tasks.
Crash ==
    /\ faults < MaxFaults
    /\ pc' = [t \in Tasks |-> "off"]
    /\ on' = [t \in Tasks |-> NoSweep] /\ todo' = [t \in Tasks |-> {}]
    /\ fold' = [t \in Tasks |-> 0] /\ half' = [t \in Tasks |-> "none"]
    /\ fit' = [t \in Tasks |-> {}]
    /\ cancel' = [c \in Cancels |-> NoSweep] /\ free' = FALSE /\ queued' = NoSweep
    /\ cleared' = 0
    /\ faults' = faults + 1
    /\ UNCHANGED <<rowVars, discs, walks>>

WorkerStep(t) ==
    \/ Resolve(t) \/ NotPending(t) \/ Mark(t) \/ MarkFailed(t) \/ MarkRaises(t)
    \/ RunChunk(t) \/ EndCancelled(t) \/ Complete(t)
FoldStep(t) ==
    \/ \E s \in Sweeps : TrainStarts(t, s) \/ TestStarts(t, s)
    \/ Fit(t) \/ Judge(t)
RequestStep ==
    \/ \E s \in Sweeps : CreateByHand(s) \/ Delete(s)
    \/ \E t \in Tasks, s \in Sweeps : Start(t, s)
    \/ AutoChecks \/ WalkChecks \/ \E s \in Sweeps : AutoCreates(s)
    \/ \E t \in Tasks : AutoStarts(t) \/ WalkStarts(t)
    \/ \E c \in Cancels : CancelWrites(c) \/ \E s \in Sweeps : CancelReads(c, s)
Next ==
    \/ RequestStep
    \/ \E t \in Tasks : WorkerStep(t) \/ FoldStep(t) \/ LoopRaises(t)
    \/ Crash

Spec == Init /\ [][Next]_vars

-----------------------------------------------------------------------------
(* Properties.                                                             *)

\* Every variable keeps its type.
Discussions == [sweep : Sweeps, date : 1..Days]
Points == {"off", "resolve", "mark", "loop", "train", "fit", "test", "promote"}
Working == {"resolve", "mark", "loop"}
Status == {"none", "pending", "running", "completed", "cancelled", "failed", "deleted"}
RowTypes ==
    /\ status \in [Sweeps -> Status] /\ kind \in [Sweeps -> {"production", "train", "test"}]
    /\ dates \in [Sweeps -> SUBSET (1..Days)]
    /\ override \in [Sweeps -> SUBSET Discussions]
    /\ cancelled \subseteq Sweeps /\ auto \subseteq Sweeps /\ manual \subseteq Sweeps
    /\ completedAt \in [Sweeps -> Nat] /\ clock \in Nat
    /\ discs \subseteq Discussions
TaskTypes ==
    /\ on \in [Tasks -> Sweeps \cup {NoSweep}] /\ todo \in [Tasks -> SUBSET (1..Days)]
    /\ fold \in [Tasks -> 0..Folds] /\ half \in [Tasks -> {"none", "train", "test"}]
    /\ fit \in [Tasks -> SUBSET Discussions] /\ pc \in [Tasks -> Points]
    /\ \A t \in Tasks : pc[t] \in Working \/ half[t] # "none" => on[t] # NoSweep
    /\ \A t \in Tasks : pc[t] \in {"off", "train"} => half[t] = "none"
RequestTypes ==
    /\ cancel \in [Cancels -> Sweeps \cup {NoSweep}]
    /\ free \in BOOLEAN /\ queued \in Sweeps \cup {NoSweep}
    /\ cleared \in Nat /\ walks \in Nat /\ faults \in Nat
TypeOK == RowTypes /\ TaskTypes /\ RequestTypes

\* A test sweep is out of sample: the weights it is frozen to were fitted to
\* train discussions only, each of them earlier than every date it tests,
\* whatever else of the strategy there is by then (_run_one_fold and
\* plan_walk_forward).  A train sweep that gave no weights freezes nothing: its test
\* then runs with the weights that the template has, and this says nothing of them.
OutOfSample ==
    \A s \in Sweeps : kind[s] = "test" =>
        \A x \in override[s] : /\ kind[x.sweep] = "train"
                               /\ \A d \in dates[s] : x.date < d

\* A sweep that says it is completed has taken up all of its dates, however it
\* was started, and cancelled meanwhile (run_sweep_worker, phases 2 and 3).
CompletedIsWhole ==
    \A s \in Sweeps : status[s] = "completed" => Records(s, dates[s]) \subseteq discs

\* The scheduler does not pile sweeps (module docstring): two that it has created
\* are only active at once if one of them was cancelled, or started by hand as
\* well, and came back.
NoPile ==
    \A s, u \in auto : Active(s) /\ Active(u) /\ s # u =>
        {s, u} \cap (cancelled \cup manual) # {}

=============================================================================
