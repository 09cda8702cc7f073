------------------------- MODULE StrategySweepsProofs -------------------------
(***************************************************************************)
(* Proofs about StrategySweeps and StrategyVersions, for every value of    *)
(* their constants.                                                        *)
(***************************************************************************)
EXTENDS StrategySweeps, TLAPS, Sequences

USE SweepsAssumption

\* Validated weights were fitted to discussions: they are those of a row.
LEMMA ValidatedOfRow ==
    ASSUME NEW x \in Validated
    PROVE  \E s \in Sweeps : x \in override[s]
  BY DEF Validated
\* An orchestrator goes to its next fold, a task raises, a worker returns: types.
LEMMA NextFoldType ==
    ASSUME TypeOK, NEW t \in Tasks, NextFold(t)
    PROVE  TaskTypes'
  BY DEF TypeOK, TaskTypes, NextFold, Go, Points, Working
LEMMA RaisesType ==
    ASSUME TypeOK, NEW t \in Tasks, Raises(t)
    PROVE  TaskTypes'
<1>1. CASE half[t] = "none"
  BY <1>1 DEF TypeOK, TaskTypes, Raises, Go, Points, Working
<1>2. CASE half[t] # "none"
  BY <1>2, NextFoldType DEF Raises
<1>3. QED
  BY <1>1, <1>2
LEMMA ReturnType ==
    ASSUME TypeOK, NEW t \in Tasks, Return(t), UNCHANGED <<fold, half, fit>>
    PROVE  TaskTypes'
  BY DEF TypeOK, TaskTypes, Return, Go, AfterHalf, Points, Working
LEMMA ValidatedType == TypeOK => Validated \subseteq Discussions
  BY DEF Validated, TypeOK, RowTypes

\* Every step keeps the types of the rows ...
LEMMA RowStep == TypeOK /\ [Next]_vars => RowTypes'
<1> SUFFICES ASSUME TypeOK, [Next]_vars PROVE RowTypes'
  OBVIOUS
<1> USE DEF TypeOK, RowTypes, TaskTypes, Status, Discussions, Working
<1>1. ASSUME NEW s \in Sweeps, CreateByHand(s) PROVE RowTypes'
  BY <1>1 DEF CreateByHand, Create, rowVars, taskVars, reqVars
<1>2. ASSUME NEW s \in Sweeps, Delete(s) PROVE RowTypes'
  BY <1>2 DEF Delete, SetStatus, Exists, rowVars, taskVars, reqVars
<1>3. ASSUME NEW t \in Tasks, NEW s \in Sweeps, Start(t, s) PROVE RowTypes'
  BY <1>3 DEF Start, Spawn, rowVars, taskVars, reqVars
<1>4. ASSUME AutoChecks PROVE RowTypes'
  BY <1>4 DEF AutoChecks, Active, rowVars, taskVars, reqVars
<1>5. ASSUME NEW s \in Sweeps, AutoCreates(s) PROVE RowTypes'
  BY <1>5, ValidatedType DEF AutoCreates, Create, RequestTypes, rowVars, taskVars, reqVars
<1>6. ASSUME NEW t \in Tasks, AutoStarts(t) PROVE RowTypes'
  BY <1>6 DEF AutoStarts, Spawn, rowVars, taskVars, reqVars
<1>7. ASSUME WalkChecks PROVE RowTypes'
  BY <1>7 DEF WalkChecks, Active, rowVars, taskVars, reqVars
<1>8. ASSUME NEW t \in Tasks, WalkStarts(t) PROVE RowTypes'
  BY <1>8 DEF WalkStarts, Spawn, rowVars, taskVars, reqVars
<1>9. ASSUME NEW c \in Cancels, NEW s \in Sweeps, CancelReads(c, s) PROVE RowTypes'
  BY <1>9 DEF CancelReads, Active, rowVars, taskVars, reqVars
<1>10. ASSUME NEW c \in Cancels, CancelWrites(c) PROVE RowTypes'
  <2>1. status' \in [Sweeps -> Status] /\ cancelled' \subseteq Sweeps
    BY <1>10, SMTT(30) DEF CancelWrites, RequestTypes
  <2>2. QED
    BY <1>10, <2>1 DEF CancelWrites
<1>11. ASSUME NEW t \in Tasks, Resolve(t) PROVE RowTypes'
  BY <1>11 DEF Resolve, Go, rowVars, taskVars, reqVars
<1>12. ASSUME NEW t \in Tasks, NotPending(t) PROVE RowTypes'
  BY <1>12 DEF NotPending, Return, Go, AfterHalf, rowVars, taskVars, reqVars
<1>13. ASSUME NEW t \in Tasks, Mark(t) PROVE RowTypes'
  BY <1>13 DEF Mark, Go, SetStatus, Exists, rowVars, taskVars, reqVars
<1>14. ASSUME NEW t \in Tasks, MarkFailed(t) PROVE RowTypes'
  BY <1>14 DEF MarkFailed, Return, Go, AfterHalf, SetStatus, Exists, rowVars, taskVars,
     reqVars
<1>15. ASSUME NEW t \in Tasks, MarkRaises(t) PROVE RowTypes'
  BY <1>15 DEF MarkRaises, Raises, Go, NextFold, Exists, rowVars, taskVars, reqVars
<1>16. ASSUME NEW t \in Tasks, RunChunk(t) PROVE RowTypes'
  <2> DEFINE chunk == Records(on[t], Chunk(todo[t]))
  <2>1. on[t] \in Sweeps /\ Chunk(todo[t]) \subseteq 1..Days
    BY <1>16 DEF RunChunk, Chunk
  <2>2. chunk \subseteq Discussions
    BY <2>1 DEF Records
  <2>3. discs' \subseteq Discussions
    BY <1>16, <2>2 DEF RunChunk
  <2>4. QED
    BY <1>16, <2>3 DEF RunChunk, rowVars
<1>17. ASSUME NEW t \in Tasks, EndCancelled(t) PROVE RowTypes'
  BY <1>17 DEF EndCancelled, Return, Go, AfterHalf, SeesCancel, rowVars, taskVars, reqVars
<1>18. ASSUME NEW t \in Tasks, Complete(t) PROVE RowTypes'
  BY <1>18 DEF Complete, Finishes, Return, Go, AfterHalf, rowVars, taskVars, reqVars
<1>19. ASSUME NEW t \in Tasks, NEW s \in Sweeps, TrainStarts(t, s) PROVE RowTypes'
  BY <1>19 DEF TrainStarts, Create, Go, TestDays, TrainDays, Resolved, rowVars, taskVars,
     reqVars
<1>20. ASSUME NEW t \in Tasks, NEW s \in Sweeps, TestStarts(t, s) PROVE RowTypes'
  BY <1>20 DEF TestStarts, Create, Go, TestDays, TrainDays, Resolved, rowVars, taskVars,
     reqVars
<1>21. ASSUME NEW t \in Tasks, Fit(t) PROVE RowTypes'
  BY <1>21 DEF Fit, Go, Fitted, OfSweep, Pool, rowVars, taskVars, reqVars
<1>22. ASSUME NEW t \in Tasks, Judge(t) PROVE RowTypes'
  BY <1>22 DEF Judge, NextFold, Go, rowVars, taskVars, reqVars
<1>23. ASSUME NEW t \in Tasks, LoopRaises(t) PROVE RowTypes'
  BY <1>23 DEF LoopRaises, Raises, Go, NextFold, rowVars, taskVars, reqVars
<1>24. ASSUME Crash PROVE RowTypes'
  BY <1>24 DEF Crash, rowVars, taskVars, reqVars
<1>25. CASE UNCHANGED vars
  BY <1>25 DEF vars, rowVars, taskVars, reqVars
<1>26. QED
  BY <1>1, <1>2, <1>3, <1>4, <1>5, <1>6, <1>7, <1>8, <1>9, <1>10, <1>11, <1>12, <1>13,
     <1>14, <1>15, <1>16, <1>17, <1>18, <1>19, <1>20, <1>21, <1>22,
     <1>23, <1>24, <1>25 DEF Next, RequestStep, WorkerStep, FoldStep

\* ... of the tasks ...
LEMMA TaskStep == TypeOK /\ [Next]_vars => TaskTypes'
<1> SUFFICES ASSUME TypeOK, [Next]_vars PROVE TaskTypes'
  OBVIOUS
<1> USE DEF TypeOK, RowTypes, TaskTypes, Points, Working, Discussions
<1>1. ASSUME NEW s \in Sweeps, CreateByHand(s) PROVE TaskTypes'
  BY <1>1 DEF CreateByHand, Create, rowVars, taskVars, reqVars
<1>2. ASSUME NEW s \in Sweeps, Delete(s) PROVE TaskTypes'
  BY <1>2 DEF Delete, SetStatus, Exists, rowVars, taskVars, reqVars
<1>3. ASSUME NEW t \in Tasks, NEW s \in Sweeps, Start(t, s) PROVE TaskTypes'
  BY <1>3 DEF Start, Spawn, rowVars, taskVars, reqVars
<1>4. ASSUME AutoChecks PROVE TaskTypes'
  BY <1>4 DEF AutoChecks, Active, rowVars, taskVars, reqVars
<1>5. ASSUME NEW s \in Sweeps, AutoCreates(s) PROVE TaskTypes'
  BY <1>5 DEF AutoCreates, Create, rowVars, taskVars, reqVars
<1>6. ASSUME NEW t \in Tasks, AutoStarts(t) PROVE TaskTypes'
  BY <1>6 DEF AutoStarts, Spawn, RequestTypes, rowVars, taskVars, reqVars
<1>7. ASSUME WalkChecks PROVE TaskTypes'
  BY <1>7 DEF WalkChecks, Active, rowVars, taskVars, reqVars
<1>8. ASSUME NEW t \in Tasks, WalkStarts(t) PROVE TaskTypes'
  BY <1>8 DEF WalkStarts, Spawn, rowVars, taskVars, reqVars
<1>9. ASSUME NEW c \in Cancels, NEW s \in Sweeps, CancelReads(c, s) PROVE TaskTypes'
  BY <1>9 DEF CancelReads, Active, rowVars, taskVars, reqVars
<1>10. ASSUME NEW c \in Cancels, CancelWrites(c) PROVE TaskTypes'
  BY <1>10 DEF CancelWrites, Exists, rowVars, taskVars, reqVars
<1>11. ASSUME NEW t \in Tasks, Resolve(t) PROVE TaskTypes'
  BY <1>11 DEF Resolve, Go, rowVars, taskVars, reqVars
<1>12. ASSUME NEW t \in Tasks, NotPending(t) PROVE TaskTypes'
  BY <1>12, ReturnType DEF NotPending
<1>13. ASSUME NEW t \in Tasks, Mark(t) PROVE TaskTypes'
  BY <1>13 DEF Mark, Go, SetStatus, Exists, rowVars, taskVars, reqVars
<1>14. ASSUME NEW t \in Tasks, MarkFailed(t) PROVE TaskTypes'
  BY <1>14, ReturnType DEF MarkFailed
<1>15. ASSUME NEW t \in Tasks, MarkRaises(t) PROVE TaskTypes'
  BY <1>15, RaisesType DEF MarkRaises
<1>16. ASSUME NEW t \in Tasks, RunChunk(t) PROVE TaskTypes'
  BY <1>16 DEF RunChunk, Chunk, Records, SeesCancel, rowVars, taskVars, reqVars
<1>17. ASSUME NEW t \in Tasks, EndCancelled(t) PROVE TaskTypes'
  BY <1>17, ReturnType DEF EndCancelled
<1>18. ASSUME NEW t \in Tasks, Complete(t) PROVE TaskTypes'
  BY <1>18, ReturnType DEF Complete
<1>19. ASSUME NEW t \in Tasks, NEW s \in Sweeps, TrainStarts(t, s) PROVE TaskTypes'
  BY <1>19 DEF TrainStarts, Create, Go, rowVars, taskVars, reqVars
<1>20. ASSUME NEW t \in Tasks, NEW s \in Sweeps, TestStarts(t, s) PROVE TaskTypes'
  BY <1>20 DEF TestStarts, Create, Go, rowVars, taskVars, reqVars
<1>21. ASSUME NEW t \in Tasks, Fit(t) PROVE TaskTypes'
  BY <1>21 DEF Fit, Go, Fitted, OfSweep, Pool, rowVars, taskVars, reqVars
<1>22. ASSUME NEW t \in Tasks, Judge(t) PROVE TaskTypes'
  BY <1>22, NextFoldType DEF Judge
<1>23. ASSUME NEW t \in Tasks, LoopRaises(t) PROVE TaskTypes'
  BY <1>23, RaisesType DEF LoopRaises
<1>24. ASSUME Crash PROVE TaskTypes'
  BY <1>24 DEF Crash, rowVars, taskVars, reqVars
<1>25. CASE UNCHANGED vars
  BY <1>25 DEF vars, rowVars, taskVars, reqVars
<1>26. QED
  BY <1>1, <1>2, <1>3, <1>4, <1>5, <1>6, <1>7, <1>8, <1>9, <1>10, <1>11, <1>12, <1>13,
     <1>14, <1>15, <1>16, <1>17, <1>18, <1>19, <1>20, <1>21, <1>22,
     <1>23, <1>24, <1>25 DEF Next, RequestStep, WorkerStep, FoldStep

\* ... and of the requests.
LEMMA RequestStepType == TypeOK /\ [Next]_vars => RequestTypes'
<1> SUFFICES ASSUME TypeOK, [Next]_vars PROVE RequestTypes'
  OBVIOUS
<1> USE DEF TypeOK, RequestTypes
<1>1. ASSUME NEW s \in Sweeps, CreateByHand(s) PROVE RequestTypes'
  BY <1>1 DEF CreateByHand, Create, rowVars, taskVars, reqVars
<1>2. ASSUME NEW s \in Sweeps, Delete(s) PROVE RequestTypes'
  BY <1>2 DEF Delete, SetStatus, Exists, rowVars, taskVars, reqVars
<1>3. ASSUME NEW t \in Tasks, NEW s \in Sweeps, Start(t, s) PROVE RequestTypes'
  BY <1>3 DEF Start, Spawn, rowVars, taskVars, reqVars
<1>4. ASSUME AutoChecks PROVE RequestTypes'
  BY <1>4 DEF AutoChecks, Active, rowVars, taskVars, reqVars
<1>5. ASSUME NEW s \in Sweeps, AutoCreates(s) PROVE RequestTypes'
  BY <1>5 DEF AutoCreates, Create, rowVars, taskVars, reqVars
<1>6. ASSUME NEW t \in Tasks, AutoStarts(t) PROVE RequestTypes'
  BY <1>6 DEF AutoStarts, Spawn, rowVars, taskVars, reqVars
<1>7. ASSUME WalkChecks PROVE RequestTypes'
  BY <1>7 DEF WalkChecks, Active, rowVars, taskVars, reqVars
<1>8. ASSUME NEW t \in Tasks, WalkStarts(t) PROVE RequestTypes'
  BY <1>8 DEF WalkStarts, Spawn, rowVars, taskVars, reqVars
<1>9. ASSUME NEW c \in Cancels, NEW s \in Sweeps, CancelReads(c, s) PROVE RequestTypes'
  BY <1>9 DEF CancelReads, Active, rowVars, taskVars, reqVars
<1>10. ASSUME NEW c \in Cancels, CancelWrites(c) PROVE RequestTypes'
  BY <1>10 DEF CancelWrites, Exists, rowVars, taskVars, reqVars
<1>11. ASSUME NEW t \in Tasks, Resolve(t) PROVE RequestTypes'
  BY <1>11 DEF Resolve, Go, rowVars, taskVars, reqVars
<1>12. ASSUME NEW t \in Tasks, NotPending(t) PROVE RequestTypes'
  BY <1>12 DEF NotPending, Return, Go, AfterHalf, rowVars, taskVars, reqVars
<1>13. ASSUME NEW t \in Tasks, Mark(t) PROVE RequestTypes'
  BY <1>13 DEF Mark, Go, SetStatus, Exists, rowVars, taskVars, reqVars
<1>14. ASSUME NEW t \in Tasks, MarkFailed(t) PROVE RequestTypes'
  BY <1>14 DEF MarkFailed, Return, Go, AfterHalf, SetStatus, Exists, rowVars, taskVars,
     reqVars
<1>15. ASSUME NEW t \in Tasks, MarkRaises(t) PROVE RequestTypes'
  BY <1>15 DEF MarkRaises, Raises, Go, NextFold, Exists, rowVars, taskVars, reqVars
<1>16. ASSUME NEW t \in Tasks, RunChunk(t) PROVE RequestTypes'
  BY <1>16 DEF RunChunk, Chunk, Records, SeesCancel, rowVars, taskVars, reqVars
<1>17. ASSUME NEW t \in Tasks, EndCancelled(t) PROVE RequestTypes'
  BY <1>17 DEF EndCancelled, Return, Go, AfterHalf, SeesCancel, rowVars, taskVars, reqVars
<1>18. ASSUME NEW t \in Tasks, Complete(t) PROVE RequestTypes'
  BY <1>18 DEF Complete, Finishes, Return, Go, AfterHalf, rowVars, taskVars, reqVars
<1>19. ASSUME NEW t \in Tasks, NEW s \in Sweeps, TrainStarts(t, s) PROVE RequestTypes'
  BY <1>19 DEF TrainStarts, Create, Go, rowVars, taskVars, reqVars
<1>20. ASSUME NEW t \in Tasks, NEW s \in Sweeps, TestStarts(t, s) PROVE RequestTypes'
  BY <1>20 DEF TestStarts, Create, Go, rowVars, taskVars, reqVars
<1>21. ASSUME NEW t \in Tasks, Fit(t) PROVE RequestTypes'
  BY <1>21 DEF Fit, Go, Fitted, OfSweep, Pool, rowVars, taskVars, reqVars
<1>22. ASSUME NEW t \in Tasks, Judge(t) PROVE RequestTypes'
  BY <1>22 DEF Judge, NextFold, Go, rowVars, taskVars, reqVars
<1>23. ASSUME NEW t \in Tasks, LoopRaises(t) PROVE RequestTypes'
  BY <1>23 DEF LoopRaises, Raises, Go, NextFold, rowVars, taskVars, reqVars
<1>24. ASSUME Crash PROVE RequestTypes'
  <2>1. cancel' \in [Cancels -> Sweeps \cup {NoSweep}]
    BY <1>24 DEF Crash
  <2>2. free' = FALSE /\ queued' = NoSweep /\ cleared' = 0 /\ walks' = walks /\ faults' = faults + 1
    BY <1>24 DEF Crash
  <2>3. cleared' \in Nat /\ walks' \in Nat /\ faults' \in Nat
    BY <2>2
  <2>4. free' \in BOOLEAN /\ queued' \in Sweeps \cup {NoSweep}
    BY <2>2
  <2>5. QED
    BY <2>1, <2>3, <2>4
<1>25. CASE UNCHANGED vars
  BY <1>25 DEF vars, rowVars, taskVars, reqVars
<1>26. QED
  BY <1>1, <1>2, <1>3, <1>4, <1>5, <1>6, <1>7, <1>8, <1>9, <1>10, <1>11, <1>12, <1>13,
     <1>14, <1>15, <1>16, <1>17, <1>18, <1>19, <1>20, <1>21, <1>22,
     <1>23, <1>24, <1>25 DEF Next, RequestStep, WorkerStep, FoldStep

\* The initial types.
LEMMA InitType == Init => TypeOK
<1> SUFFICES ASSUME Init PROVE TypeOK
  OBVIOUS
<1>1. RowTypes
  BY DEF Init, RowTypes, Status
<1>2. TaskTypes
  BY DEF Init, TaskTypes, Points, Working
<1>3. cancel \in [Cancels -> Sweeps \cup {NoSweep}] /\ queued \in Sweeps \cup {NoSweep}
  BY DEF Init
<1>4. free \in BOOLEAN /\ cleared \in Nat /\ walks \in Nat /\ faults \in Nat
  BY DEF Init
<1>5. QED
  BY <1>1, <1>2, <1>3, <1>4 DEF TypeOK, RequestTypes

\* The types of all the variables.
THEOREM TypeCorrect == Spec => []TypeOK
<1>1. TypeOK /\ [Next]_vars => TypeOK'
  BY RowStep, TaskStep, RequestStepType DEF TypeOK
<1>2. QED
  BY InitType, <1>1, PTL DEF Spec

-----------------------------------------------------------------------------
(* What frozen weights come from: rows that exist keep what they are, and   *)
(* discussions, fitted weights and frozen weights belong to such rows.      *)

\* A step never changes what a row was created with.
RowsKept ==
    \A s \in Sweeps : status[s] # "none" =>
        status'[s] # "none" /\ kind'[s] = kind[s] /\ dates'[s] = dates[s]
                            /\ override'[s] = override[s]
\* A task's sweep is there, and the dates left are among its dates.
Held ==
    /\ \A t \in Tasks : /\ on[t] # NoSweep => /\ status[on[t]] # "none"
                                              /\ todo[t] \subseteq dates[on[t]]
                        /\ pc[t] # "loop" => todo[t] = {}
    /\ queued # NoSweep => status[queued] # "none"
Discussed == \A x \in discs : status[x.sweep] # "none" /\ x.date \in dates[x.sweep]
\* The train half of a fold runs its train sweep; nothing is fitted between folds.
Folding ==
    \A t \in Tasks :
        /\ half[t] = "train" => /\ kind[on[t]] = "train"
                                /\ dates[on[t]] = TrainDays(fold[t])
        /\ pc[t] \in {"fit", "test"} => half[t] = "train"
        /\ half[t] = "none" => fit[t] = {}
FittedRight ==
    \A t \in Tasks : \A x \in fit[t] :
        /\ status[x.sweep] # "none" /\ kind[x.sweep] = "train"
        /\ \A d \in TestDays(fold[t]) : x.date < d
OverrideKept == \A s \in Sweeps : \A x \in override[s] : status[x.sweep] # "none"
Frozen == Held /\ Discussed /\ Folding /\ FittedRight /\ OverrideKept /\ OutOfSample

\* A chunk of discussions is of dates that were left.
LEMMA RecordsOf ==
    ASSUME NEW s, NEW D, NEW x \in Records(s, Chunk(D))
    PROVE  x.sweep = s /\ x.date \in D
<1>1. PICK d \in Chunk(D) : x = [sweep |-> s, date |-> d]
  BY DEF Records
<1>2. d \in D
  BY DEF Chunk
<1>3. QED
  BY <1>1, <1>2
LEMMA RecordsHas ==
    ASSUME NEW s, NEW D, NEW d \in D
    PROVE  [sweep |-> s, date |-> d] \in Records(s, D)
  BY DEF Records

\* The train window ends before the test window begins.
LEMMA WindowsApart ==
    ASSUME NEW k \in 0..Folds, NEW d \in TrainDays(k), NEW e \in TestDays(k)
    PROVE  d < e
<1>1. TrainAnchor(k) \in Int
  BY DEF TrainAnchor, FoldSpan
<1>2. d \in Int /\ e \in Int /\ TrainWindow \in Int
  BY DEF TrainDays, TestDays, Resolved
<1>3. d < TrainAnchor(k) + TrainWindow /\ TrainAnchor(k) + TrainWindow <= e
  BY DEF TrainDays, TestDays, Resolved, TestAnchor
<1>4. QED
  BY <1>1, <1>2, <1>3

\* A row that exists keeps what it was created with.
LEMMA RowsStay == TypeOK /\ [Next]_vars => RowsKept
<1> SUFFICES ASSUME TypeOK, [Next]_vars PROVE RowsKept
  OBVIOUS
<1> USE DEF TypeOK, RowTypes, TaskTypes, RequestTypes, RowsKept, Working
<1>1. ASSUME NEW s \in Sweeps, CreateByHand(s) PROVE RowsKept
  BY <1>1 DEF CreateByHand, Create, rowVars, taskVars, reqVars
<1>2. ASSUME NEW s \in Sweeps, Delete(s) PROVE RowsKept
  BY <1>2 DEF Delete, SetStatus, Exists, rowVars, taskVars, reqVars
<1>3. ASSUME NEW t \in Tasks, NEW s \in Sweeps, Start(t, s) PROVE RowsKept
  BY <1>3 DEF Start, Spawn, rowVars, taskVars, reqVars
<1>4. ASSUME AutoChecks PROVE RowsKept
  BY <1>4 DEF AutoChecks, Active, rowVars, taskVars, reqVars
<1>5. ASSUME NEW s \in Sweeps, AutoCreates(s) PROVE RowsKept
  BY <1>5 DEF AutoCreates, Create, rowVars, taskVars, reqVars
<1>6. ASSUME NEW t \in Tasks, AutoStarts(t) PROVE RowsKept
  BY <1>6 DEF AutoStarts, Spawn, rowVars, taskVars, reqVars
<1>7. ASSUME WalkChecks PROVE RowsKept
  BY <1>7 DEF WalkChecks, Active, rowVars, taskVars, reqVars
<1>8. ASSUME NEW t \in Tasks, WalkStarts(t) PROVE RowsKept
  BY <1>8 DEF WalkStarts, Spawn, rowVars, taskVars, reqVars
<1>9. ASSUME NEW c \in Cancels, NEW s \in Sweeps, CancelReads(c, s) PROVE RowsKept
  BY <1>9 DEF CancelReads, Active, rowVars, taskVars, reqVars
<1>10. ASSUME NEW c \in Cancels, CancelWrites(c) PROVE RowsKept
  BY <1>10 DEF CancelWrites, Exists, rowVars, taskVars, reqVars
<1>11. ASSUME NEW t \in Tasks, Resolve(t) PROVE RowsKept
  BY <1>11 DEF Resolve, Go, rowVars, taskVars, reqVars
<1>12. ASSUME NEW t \in Tasks, NotPending(t) PROVE RowsKept
  BY <1>12 DEF NotPending, Return, Go, AfterHalf, rowVars, taskVars, reqVars
<1>13. ASSUME NEW t \in Tasks, Mark(t) PROVE RowsKept
  BY <1>13 DEF Mark, Go, SetStatus, Exists, rowVars, taskVars, reqVars
<1>14. ASSUME NEW t \in Tasks, MarkFailed(t) PROVE RowsKept
  BY <1>14 DEF MarkFailed, Return, Go, AfterHalf, SetStatus, Exists, rowVars, taskVars,
     reqVars
<1>15. ASSUME NEW t \in Tasks, MarkRaises(t) PROVE RowsKept
  BY <1>15 DEF MarkRaises, Raises, Go, NextFold, Exists, rowVars, taskVars, reqVars
<1>16. ASSUME NEW t \in Tasks, RunChunk(t) PROVE RowsKept
  BY <1>16 DEF RunChunk, Chunk, Records, SeesCancel, rowVars, taskVars, reqVars
<1>17. ASSUME NEW t \in Tasks, EndCancelled(t) PROVE RowsKept
  BY <1>17 DEF EndCancelled, Return, Go, AfterHalf, SeesCancel, rowVars, taskVars, reqVars
<1>18. ASSUME NEW t \in Tasks, Complete(t) PROVE RowsKept
  BY <1>18 DEF Complete, Finishes, Return, Go, AfterHalf, rowVars, taskVars, reqVars
<1>19. ASSUME NEW t \in Tasks, NEW s \in Sweeps, TrainStarts(t, s) PROVE RowsKept
  BY <1>19 DEF TrainStarts, Create, Go, rowVars, taskVars, reqVars
<1>20. ASSUME NEW t \in Tasks, NEW s \in Sweeps, TestStarts(t, s) PROVE RowsKept
  BY <1>20 DEF TestStarts, Create, Go, rowVars, taskVars, reqVars
<1>21. ASSUME NEW t \in Tasks, Fit(t) PROVE RowsKept
  BY <1>21 DEF Fit, Go, Fitted, OfSweep, Pool, rowVars, taskVars, reqVars
<1>22. ASSUME NEW t \in Tasks, Judge(t) PROVE RowsKept
  BY <1>22 DEF Judge, NextFold, Go, rowVars, taskVars, reqVars
<1>23. ASSUME NEW t \in Tasks, LoopRaises(t) PROVE RowsKept
  BY <1>23 DEF LoopRaises, Raises, Go, NextFold, rowVars, taskVars, reqVars
<1>24. ASSUME Crash PROVE RowsKept
  BY <1>24 DEF Crash, rowVars, taskVars, reqVars
<1>25. CASE UNCHANGED vars
  BY <1>25 DEF vars, rowVars, taskVars, reqVars
<1>26. QED
  BY <1>1, <1>2, <1>3, <1>4, <1>5, <1>6, <1>7, <1>8, <1>9, <1>10, <1>11, <1>12, <1>13,
     <1>14, <1>15, <1>16, <1>17, <1>18, <1>19, <1>20, <1>21, <1>22,
     <1>23, <1>24, <1>25 DEF Next, RequestStep, WorkerStep, FoldStep

\* A task's row and dates, after every step.
LEMMA HeldStep == TypeOK /\ Held /\ RowsKept /\ [Next]_vars => Held'
<1> SUFFICES ASSUME TypeOK, Held, RowsKept, [Next]_vars PROVE Held'
  OBVIOUS
<1> USE DEF TypeOK, RowTypes, TaskTypes, RequestTypes, Held, RowsKept, Working
<1>1. ASSUME NEW s \in Sweeps, CreateByHand(s) PROVE Held'
  BY <1>1 DEF CreateByHand, Create, rowVars, taskVars, reqVars
<1>2. ASSUME NEW s \in Sweeps, Delete(s) PROVE Held'
  BY <1>2 DEF Delete, SetStatus, Exists, rowVars, taskVars, reqVars
<1>3. ASSUME NEW t \in Tasks, NEW s \in Sweeps, Start(t, s) PROVE Held'
  BY <1>3 DEF Start, Spawn, rowVars, taskVars, reqVars
<1>4. ASSUME AutoChecks PROVE Held'
  BY <1>4 DEF AutoChecks, Active, rowVars, taskVars, reqVars
<1>5. ASSUME NEW s \in Sweeps, AutoCreates(s) PROVE Held'
  BY <1>5 DEF AutoCreates, Create, rowVars, taskVars, reqVars
<1>6. ASSUME NEW t \in Tasks, AutoStarts(t) PROVE Held'
  BY <1>6 DEF AutoStarts, Spawn, rowVars, taskVars, reqVars
<1>7. ASSUME WalkChecks PROVE Held'
  BY <1>7 DEF WalkChecks, Active, rowVars, taskVars, reqVars
<1>8. ASSUME NEW t \in Tasks, WalkStarts(t) PROVE Held'
  BY <1>8 DEF WalkStarts, Spawn, rowVars, taskVars, reqVars
<1>9. ASSUME NEW c \in Cancels, NEW s \in Sweeps, CancelReads(c, s) PROVE Held'
  BY <1>9 DEF CancelReads, Active, rowVars, taskVars, reqVars
<1>10. ASSUME NEW c \in Cancels, CancelWrites(c) PROVE Held'
  BY <1>10 DEF CancelWrites, Exists, rowVars, taskVars, reqVars
<1>11. ASSUME NEW t \in Tasks, Resolve(t) PROVE Held'
  BY <1>11 DEF Resolve, Go, rowVars, taskVars, reqVars
<1>12. ASSUME NEW t \in Tasks, NotPending(t) PROVE Held'
  BY <1>12 DEF NotPending, Return, Go, AfterHalf, rowVars, taskVars, reqVars
<1>13. ASSUME NEW t \in Tasks, Mark(t) PROVE Held'
  BY <1>13 DEF Mark, Go, SetStatus, Exists, rowVars, taskVars, reqVars
<1>14. ASSUME NEW t \in Tasks, MarkFailed(t) PROVE Held'
  BY <1>14 DEF MarkFailed, Return, Go, AfterHalf, SetStatus, Exists, rowVars, taskVars,
     reqVars
<1>15. ASSUME NEW t \in Tasks, MarkRaises(t) PROVE Held'
  BY <1>15 DEF MarkRaises, Raises, Go, NextFold, Exists, rowVars, taskVars, reqVars
<1>16. ASSUME NEW t \in Tasks, RunChunk(t) PROVE Held'
  BY <1>16 DEF RunChunk, Chunk, Records, SeesCancel, rowVars, taskVars, reqVars
<1>17. ASSUME NEW t \in Tasks, EndCancelled(t) PROVE Held'
  BY <1>17 DEF EndCancelled, Return, Go, AfterHalf, SeesCancel, rowVars, taskVars, reqVars
<1>18. ASSUME NEW t \in Tasks, Complete(t) PROVE Held'
  BY <1>18 DEF Complete, Finishes, Return, Go, AfterHalf, rowVars, taskVars, reqVars
<1>19. ASSUME NEW t \in Tasks, NEW s \in Sweeps, TrainStarts(t, s) PROVE Held'
  BY <1>19 DEF TrainStarts, Create, Go, rowVars, taskVars, reqVars
<1>20. ASSUME NEW t \in Tasks, NEW s \in Sweeps, TestStarts(t, s) PROVE Held'
  BY <1>20 DEF TestStarts, Create, Go, rowVars, taskVars, reqVars
<1>21. ASSUME NEW t \in Tasks, Fit(t) PROVE Held'
  BY <1>21 DEF Fit, Go, Fitted, OfSweep, Pool, rowVars, taskVars, reqVars
<1>22. ASSUME NEW t \in Tasks, Judge(t) PROVE Held'
  BY <1>22 DEF Judge, NextFold, Go, rowVars, taskVars, reqVars
<1>23. ASSUME NEW t \in Tasks, LoopRaises(t) PROVE Held'
  BY <1>23 DEF LoopRaises, Raises, Go, NextFold, rowVars, taskVars, reqVars
<1>24. ASSUME Crash PROVE Held'
  BY <1>24 DEF Crash, rowVars, taskVars, reqVars
<1>25. CASE UNCHANGED vars
  BY <1>25 DEF vars, rowVars, taskVars, reqVars
<1>26. QED
  BY <1>1, <1>2, <1>3, <1>4, <1>5, <1>6, <1>7, <1>8, <1>9, <1>10, <1>11, <1>12, <1>13,
     <1>14, <1>15, <1>16, <1>17, <1>18, <1>19, <1>20, <1>21, <1>22,
     <1>23, <1>24, <1>25 DEF Next, RequestStep, WorkerStep, FoldStep

\* Only RunChunk adds discussions, those of the dates it takes up.
LEMMA DiscussedStep == TypeOK /\ Held /\ Discussed /\ RowsKept /\ [Next]_vars => Discussed'
<1> SUFFICES ASSUME TypeOK, Held, Discussed, RowsKept, [Next]_vars PROVE Discussed'
  OBVIOUS
<1> USE DEF TypeOK, RowTypes, TaskTypes, Discussions, Discussed, RowsKept, Working
<1>1. ASSUME NEW s \in Sweeps, CreateByHand(s) PROVE Discussed'
  BY <1>1 DEF CreateByHand, Create, rowVars, taskVars, reqVars
<1>2. ASSUME NEW s \in Sweeps, Delete(s) PROVE Discussed'
  BY <1>2 DEF Delete, SetStatus, Exists, rowVars, taskVars, reqVars
<1>3. ASSUME NEW t \in Tasks, NEW s \in Sweeps, Start(t, s) PROVE Discussed'
  BY <1>3 DEF Start, Spawn, rowVars, taskVars, reqVars
<1>4. ASSUME AutoChecks PROVE Discussed'
  BY <1>4 DEF AutoChecks, Active, rowVars, taskVars, reqVars
<1>5. ASSUME NEW s \in Sweeps, AutoCreates(s) PROVE Discussed'
  BY <1>5 DEF AutoCreates, Create, rowVars, taskVars, reqVars
<1>6. ASSUME NEW t \in Tasks, AutoStarts(t) PROVE Discussed'
  BY <1>6 DEF AutoStarts, Spawn, rowVars, taskVars, reqVars
<1>7. ASSUME WalkChecks PROVE Discussed'
  BY <1>7 DEF WalkChecks, Active, rowVars, taskVars, reqVars
<1>8. ASSUME NEW t \in Tasks, WalkStarts(t) PROVE Discussed'
  BY <1>8 DEF WalkStarts, Spawn, rowVars, taskVars, reqVars
<1>9. ASSUME NEW c \in Cancels, NEW s \in Sweeps, CancelReads(c, s) PROVE Discussed'
  BY <1>9 DEF CancelReads, Active, rowVars, taskVars, reqVars
<1>10. ASSUME NEW c \in Cancels, CancelWrites(c) PROVE Discussed'
  BY <1>10 DEF CancelWrites, Exists, rowVars, taskVars, reqVars
<1>11. ASSUME NEW t \in Tasks, Resolve(t) PROVE Discussed'
  BY <1>11 DEF Resolve, Go, rowVars, taskVars, reqVars
<1>12. ASSUME NEW t \in Tasks, NotPending(t) PROVE Discussed'
  BY <1>12 DEF NotPending, Return, Go, AfterHalf, rowVars, taskVars, reqVars
<1>13. ASSUME NEW t \in Tasks, Mark(t) PROVE Discussed'
  BY <1>13 DEF Mark, Go, SetStatus, Exists, rowVars, taskVars, reqVars
<1>14. ASSUME NEW t \in Tasks, MarkFailed(t) PROVE Discussed'
  BY <1>14 DEF MarkFailed, Return, Go, AfterHalf, SetStatus, Exists, rowVars, taskVars,
     reqVars
<1>15. ASSUME NEW t \in Tasks, MarkRaises(t) PROVE Discussed'
  BY <1>15 DEF MarkRaises, Raises, Go, NextFold, Exists, rowVars, taskVars, reqVars
<1>16. ASSUME NEW t \in Tasks, RunChunk(t) PROVE Discussed'
  <2>1. on[t] \in Sweeps /\ status[on[t]] # "none" /\ todo[t] \subseteq dates[on[t]]
    BY <1>16 DEF RunChunk, Held
  <2>2. \A x \in Records(on[t], Chunk(todo[t])) : x.sweep = on[t] /\ x.date \in todo[t]
    BY RecordsOf
  <2>3. QED
    BY <1>16, <2>1, <2>2 DEF RunChunk, rowVars
<1>17. ASSUME NEW t \in Tasks, EndCancelled(t) PROVE Discussed'
  BY <1>17 DEF EndCancelled, Return, Go, AfterHalf, SeesCancel, rowVars, taskVars, reqVars
<1>18. ASSUME NEW t \in Tasks, Complete(t) PROVE Discussed'
  BY <1>18 DEF Complete, Finishes, Return, Go, AfterHalf, rowVars, taskVars, reqVars
<1>19. ASSUME NEW t \in Tasks, NEW s \in Sweeps, TrainStarts(t, s) PROVE Discussed'
  BY <1>19 DEF TrainStarts, Create, Go, rowVars, taskVars, reqVars
<1>20. ASSUME NEW t \in Tasks, NEW s \in Sweeps, TestStarts(t, s) PROVE Discussed'
  BY <1>20 DEF TestStarts, Create, Go, rowVars, taskVars, reqVars
<1>21. ASSUME NEW t \in Tasks, Fit(t) PROVE Discussed'
  BY <1>21 DEF Fit, Go, Fitted, OfSweep, Pool, rowVars, taskVars, reqVars
<1>22. ASSUME NEW t \in Tasks, Judge(t) PROVE Discussed'
  BY <1>22 DEF Judge, NextFold, Go, rowVars, taskVars, reqVars
<1>23. ASSUME NEW t \in Tasks, LoopRaises(t) PROVE Discussed'
  BY <1>23 DEF LoopRaises, Raises, Go, NextFold, rowVars, taskVars, reqVars
<1>24. ASSUME Crash PROVE Discussed'
  BY <1>24 DEF Crash, rowVars, taskVars, reqVars
<1>25. CASE UNCHANGED vars
  BY <1>25 DEF vars, rowVars, taskVars, reqVars
<1>26. QED
  BY <1>1, <1>2, <1>3, <1>4, <1>5, <1>6, <1>7, <1>8, <1>9, <1>10, <1>11, <1>12, <1>13,
     <1>14, <1>15, <1>16, <1>17, <1>18, <1>19, <1>20, <1>21, <1>22,
     <1>23, <1>24, <1>25 DEF Next, RequestStep, WorkerStep, FoldStep

\* The halves of the folds, after every step.
LEMMA FoldingStep == TypeOK /\ Held /\ Folding /\ RowsKept /\ [Next]_vars => Folding'
<1> SUFFICES ASSUME TypeOK, Held, Folding, RowsKept, [Next]_vars PROVE Folding'
  OBVIOUS
<1> USE DEF TypeOK, RowTypes, TaskTypes, Held, Folding, RowsKept, Working
<1>1. ASSUME NEW s \in Sweeps, CreateByHand(s) PROVE Folding'
  BY <1>1 DEF CreateByHand, Create, rowVars, taskVars, reqVars
<1>2. ASSUME NEW s \in Sweeps, Delete(s) PROVE Folding'
  BY <1>2 DEF Delete, SetStatus, Exists, rowVars, taskVars, reqVars
<1>3. ASSUME NEW t \in Tasks, NEW s \in Sweeps, Start(t, s) PROVE Folding'
  BY <1>3 DEF Start, Spawn, rowVars, taskVars, reqVars
<1>4. ASSUME AutoChecks PROVE Folding'
  BY <1>4 DEF AutoChecks, Active, rowVars, taskVars, reqVars
<1>5. ASSUME NEW s \in Sweeps, AutoCreates(s) PROVE Folding'
  BY <1>5 DEF AutoCreates, Create, rowVars, taskVars, reqVars
<1>6. ASSUME NEW t \in Tasks, AutoStarts(t) PROVE Folding'
  BY <1>6 DEF AutoStarts, Spawn, rowVars, taskVars, reqVars
<1>7. ASSUME WalkChecks PROVE Folding'
  BY <1>7 DEF WalkChecks, Active, rowVars, taskVars, reqVars
<1>8. ASSUME NEW t \in Tasks, WalkStarts(t) PROVE Folding'
  BY <1>8 DEF WalkStarts, Spawn, rowVars, taskVars, reqVars
<1>9. ASSUME NEW c \in Cancels, NEW s \in Sweeps, CancelReads(c, s) PROVE Folding'
  BY <1>9 DEF CancelReads, Active, rowVars, taskVars, reqVars
<1>10. ASSUME NEW c \in Cancels, CancelWrites(c) PROVE Folding'
  BY <1>10 DEF CancelWrites, Exists, rowVars, taskVars, reqVars
<1>11. ASSUME NEW t \in Tasks, Resolve(t) PROVE Folding'
  BY <1>11 DEF Resolve, Go, rowVars, taskVars, reqVars
<1>12. ASSUME NEW t \in Tasks, NotPending(t) PROVE Folding'
  BY <1>12 DEF NotPending, Return, Go, AfterHalf, rowVars, taskVars, reqVars
<1>13. ASSUME NEW t \in Tasks, Mark(t) PROVE Folding'
  BY <1>13 DEF Mark, Go, SetStatus, Exists, rowVars, taskVars, reqVars
<1>14. ASSUME NEW t \in Tasks, MarkFailed(t) PROVE Folding'
  BY <1>14 DEF MarkFailed, Return, Go, AfterHalf, SetStatus, Exists, rowVars, taskVars,
     reqVars
<1>15. ASSUME NEW t \in Tasks, MarkRaises(t) PROVE Folding'
  BY <1>15, SMTT(30) DEF MarkRaises, Raises, Go, NextFold, Exists, rowVars, taskVars, reqVars
<1>16. ASSUME NEW t \in Tasks, RunChunk(t) PROVE Folding'
  BY <1>16 DEF RunChunk, Chunk, Records, SeesCancel, rowVars, taskVars, reqVars
<1>17. ASSUME NEW t \in Tasks, EndCancelled(t) PROVE Folding'
  BY <1>17 DEF EndCancelled, Return, Go, AfterHalf, SeesCancel, rowVars, taskVars, reqVars
<1>18. ASSUME NEW t \in Tasks, Complete(t) PROVE Folding'
  BY <1>18 DEF Complete, Finishes, Return, Go, AfterHalf, rowVars, taskVars, reqVars
<1>19. ASSUME NEW t \in Tasks, NEW s \in Sweeps, TrainStarts(t, s) PROVE Folding'
  BY <1>19 DEF TrainStarts, Create, Go, rowVars, taskVars, reqVars
<1>20. ASSUME NEW t \in Tasks, NEW s \in Sweeps, TestStarts(t, s) PROVE Folding'
  BY <1>20 DEF TestStarts, Create, Go, rowVars, taskVars, reqVars
<1>21. ASSUME NEW t \in Tasks, Fit(t) PROVE Folding'
  BY <1>21 DEF Fit, Go, Fitted, OfSweep, Pool, rowVars, taskVars, reqVars
<1>22. ASSUME NEW t \in Tasks, Judge(t) PROVE Folding'
  BY <1>22 DEF Judge, NextFold, Go, rowVars, taskVars, reqVars
<1>23. ASSUME NEW t \in Tasks, LoopRaises(t) PROVE Folding'
  BY <1>23 DEF LoopRaises, Raises, Go, NextFold, rowVars, taskVars, reqVars
<1>24. ASSUME Crash PROVE Folding'
  BY <1>24 DEF Crash, rowVars, taskVars, reqVars
<1>25. CASE UNCHANGED vars
  BY <1>25 DEF vars, rowVars, taskVars, reqVars
<1>26. QED
  BY <1>1, <1>2, <1>3, <1>4, <1>5, <1>6, <1>7, <1>8, <1>9, <1>10, <1>11, <1>12, <1>13,
     <1>14, <1>15, <1>16, <1>17, <1>18, <1>19, <1>20, <1>21, <1>22,
     <1>23, <1>24, <1>25 DEF Next, RequestStep, WorkerStep, FoldStep

\* Fit takes the discussions of the train sweep only.
LEMMA FittedStep == TypeOK /\ Discussed /\ Folding /\ FittedRight /\ RowsKept /\ [Next]_vars => FittedRight'
<1> SUFFICES ASSUME TypeOK, Discussed, Folding, FittedRight, RowsKept, [Next]_vars PROVE FittedRight'
  OBVIOUS
<1> USE DEF TypeOK, RowTypes, TaskTypes, Discussions, Folding, FittedRight, RowsKept, Working
<1>1. ASSUME NEW s \in Sweeps, CreateByHand(s) PROVE FittedRight'
  BY <1>1 DEF CreateByHand, Create, rowVars, taskVars, reqVars
<1>2. ASSUME NEW s \in Sweeps, Delete(s) PROVE FittedRight'
  BY <1>2 DEF Delete, SetStatus, Exists, rowVars, taskVars, reqVars
<1>3. ASSUME NEW t \in Tasks, NEW s \in Sweeps, Start(t, s) PROVE FittedRight'
  BY <1>3 DEF Start, Spawn, rowVars, taskVars, reqVars
<1>4. ASSUME AutoChecks PROVE FittedRight'
  BY <1>4 DEF AutoChecks, Active, rowVars, taskVars, reqVars
<1>5. ASSUME NEW s \in Sweeps, AutoCreates(s) PROVE FittedRight'
  BY <1>5 DEF AutoCreates, Create, rowVars, taskVars, reqVars
<1>6. ASSUME NEW t \in Tasks, AutoStarts(t) PROVE FittedRight'
  BY <1>6 DEF AutoStarts, Spawn, rowVars, taskVars, reqVars
<1>7. ASSUME WalkChecks PROVE FittedRight'
  BY <1>7 DEF WalkChecks, Active, rowVars, taskVars, reqVars
<1>8. ASSUME NEW t \in Tasks, WalkStarts(t) PROVE FittedRight'
  BY <1>8 DEF WalkStarts, Spawn, rowVars, taskVars, reqVars
<1>9. ASSUME NEW c \in Cancels, NEW s \in Sweeps, CancelReads(c, s) PROVE FittedRight'
  BY <1>9 DEF CancelReads, Active, rowVars, taskVars, reqVars
<1>10. ASSUME NEW c \in Cancels, CancelWrites(c) PROVE FittedRight'
  BY <1>10 DEF CancelWrites, Exists, rowVars, taskVars, reqVars
<1>11. ASSUME NEW t \in Tasks, Resolve(t) PROVE FittedRight'
  BY <1>11 DEF Resolve, Go, rowVars, taskVars, reqVars
<1>12. ASSUME NEW t \in Tasks, NotPending(t) PROVE FittedRight'
  BY <1>12 DEF NotPending, Return, Go, AfterHalf, rowVars, taskVars, reqVars
<1>13. ASSUME NEW t \in Tasks, Mark(t) PROVE FittedRight'
  BY <1>13 DEF Mark, Go, SetStatus, Exists, rowVars, taskVars, reqVars
<1>14. ASSUME NEW t \in Tasks, MarkFailed(t) PROVE FittedRight'
  BY <1>14 DEF MarkFailed, Return, Go, AfterHalf, SetStatus, Exists, rowVars, taskVars,
     reqVars
<1>15. ASSUME NEW t \in Tasks, MarkRaises(t) PROVE FittedRight'
  BY <1>15 DEF MarkRaises, Raises, Go, NextFold, Exists, rowVars, taskVars, reqVars
<1>16. ASSUME NEW t \in Tasks, RunChunk(t) PROVE FittedRight'
  BY <1>16 DEF RunChunk, Chunk, Records, SeesCancel, rowVars, taskVars, reqVars
<1>17. ASSUME NEW t \in Tasks, EndCancelled(t) PROVE FittedRight'
  BY <1>17 DEF EndCancelled, Return, Go, AfterHalf, SeesCancel, rowVars, taskVars, reqVars
<1>18. ASSUME NEW t \in Tasks, Complete(t) PROVE FittedRight'
  BY <1>18 DEF Complete, Finishes, Return, Go, AfterHalf, rowVars, taskVars, reqVars
<1>19. ASSUME NEW t \in Tasks, NEW s \in Sweeps, TrainStarts(t, s) PROVE FittedRight'
  BY <1>19 DEF TrainStarts, Create, Go, rowVars, taskVars, reqVars
<1>20. ASSUME NEW t \in Tasks, NEW s \in Sweeps, TestStarts(t, s) PROVE FittedRight'
  BY <1>20 DEF TestStarts, Create, Go, rowVars, taskVars, reqVars
<1>21. ASSUME NEW t \in Tasks, Fit(t) PROVE FittedRight'
  BY <1>21, WindowsApart DEF Fit, Go, Fitted, OfSweep, Pool, Discussed, rowVars, taskVars,
     reqVars
<1>22. ASSUME NEW t \in Tasks, Judge(t) PROVE FittedRight'
  BY <1>22 DEF Judge, NextFold, Go, rowVars, taskVars, reqVars
<1>23. ASSUME NEW t \in Tasks, LoopRaises(t) PROVE FittedRight'
  BY <1>23 DEF LoopRaises, Raises, Go, NextFold, rowVars, taskVars, reqVars
<1>24. ASSUME Crash PROVE FittedRight'
  BY <1>24 DEF Crash, rowVars, taskVars, reqVars
<1>25. CASE UNCHANGED vars
  BY <1>25 DEF vars, rowVars, taskVars, reqVars
<1>26. QED
  BY <1>1, <1>2, <1>3, <1>4, <1>5, <1>6, <1>7, <1>8, <1>9, <1>10, <1>11, <1>12, <1>13,
     <1>14, <1>15, <1>16, <1>17, <1>18, <1>19, <1>20, <1>21, <1>22,
     <1>23, <1>24, <1>25 DEF Next, RequestStep, WorkerStep, FoldStep

\* Frozen weights come from a fold or from a validated row.
LEMMA OverrideStep == TypeOK /\ FittedRight /\ OverrideKept /\ RowsKept /\ [Next]_vars => OverrideKept'
<1> SUFFICES ASSUME TypeOK, FittedRight, OverrideKept, RowsKept, [Next]_vars PROVE OverrideKept'
  OBVIOUS
<1> USE DEF TypeOK, RowTypes, TaskTypes, Discussions, OverrideKept, RowsKept
<1>1. ASSUME NEW s \in Sweeps, CreateByHand(s) PROVE OverrideKept'
  BY <1>1 DEF CreateByHand, Create, rowVars, taskVars, reqVars
<1>2. ASSUME NEW s \in Sweeps, Delete(s) PROVE OverrideKept'
  BY <1>2 DEF Delete, SetStatus, Exists, rowVars, taskVars, reqVars
<1>3. ASSUME NEW t \in Tasks, NEW s \in Sweeps, Start(t, s) PROVE OverrideKept'
  BY <1>3 DEF Start, Spawn, rowVars, taskVars, reqVars
<1>4. ASSUME AutoChecks PROVE OverrideKept'
  BY <1>4 DEF AutoChecks, Active, rowVars, taskVars, reqVars
<1>5. ASSUME NEW s \in Sweeps, AutoCreates(s) PROVE OverrideKept'
  BY <1>5, ValidatedOfRow DEF AutoCreates, Create, rowVars, taskVars, reqVars
<1>6. ASSUME NEW t \in Tasks, AutoStarts(t) PROVE OverrideKept'
  BY <1>6 DEF AutoStarts, Spawn, rowVars, taskVars, reqVars
<1>7. ASSUME WalkChecks PROVE OverrideKept'
  BY <1>7 DEF WalkChecks, Active, rowVars, taskVars, reqVars
<1>8. ASSUME NEW t \in Tasks, WalkStarts(t) PROVE OverrideKept'
  BY <1>8 DEF WalkStarts, Spawn, rowVars, taskVars, reqVars
<1>9. ASSUME NEW c \in Cancels, NEW s \in Sweeps, CancelReads(c, s) PROVE OverrideKept'
  BY <1>9 DEF CancelReads, Active, rowVars, taskVars, reqVars
<1>10. ASSUME NEW c \in Cancels, CancelWrites(c) PROVE OverrideKept'
  BY <1>10 DEF CancelWrites, Exists, rowVars, taskVars, reqVars
<1>11. ASSUME NEW t \in Tasks, Resolve(t) PROVE OverrideKept'
  BY <1>11 DEF Resolve, Go, rowVars, taskVars, reqVars
<1>12. ASSUME NEW t \in Tasks, NotPending(t) PROVE OverrideKept'
  BY <1>12 DEF NotPending, Return, Go, AfterHalf, rowVars, taskVars, reqVars
<1>13. ASSUME NEW t \in Tasks, Mark(t) PROVE OverrideKept'
  BY <1>13 DEF Mark, Go, SetStatus, Exists, rowVars, taskVars, reqVars
<1>14. ASSUME NEW t \in Tasks, MarkFailed(t) PROVE OverrideKept'
  BY <1>14 DEF MarkFailed, Return, Go, AfterHalf, SetStatus, Exists, rowVars, taskVars,
     reqVars
<1>15. ASSUME NEW t \in Tasks, MarkRaises(t) PROVE OverrideKept'
  BY <1>15 DEF MarkRaises, Raises, Go, NextFold, Exists, rowVars, taskVars, reqVars
<1>16. ASSUME NEW t \in Tasks, RunChunk(t) PROVE OverrideKept'
  BY <1>16 DEF RunChunk, Chunk, Records, SeesCancel, rowVars, taskVars, reqVars
<1>17. ASSUME NEW t \in Tasks, EndCancelled(t) PROVE OverrideKept'
  BY <1>17 DEF EndCancelled, Return, Go, AfterHalf, SeesCancel, rowVars, taskVars, reqVars
<1>18. ASSUME NEW t \in Tasks, Complete(t) PROVE OverrideKept'
  BY <1>18 DEF Complete, Finishes, Return, Go, AfterHalf, rowVars, taskVars, reqVars
<1>19. ASSUME NEW t \in Tasks, NEW s \in Sweeps, TrainStarts(t, s) PROVE OverrideKept'
  BY <1>19 DEF TrainStarts, Create, Go, rowVars, taskVars, reqVars
<1>20. ASSUME NEW t \in Tasks, NEW s \in Sweeps, TestStarts(t, s) PROVE OverrideKept'
  BY <1>20 DEF TestStarts, Create, Go, FittedRight, rowVars, taskVars, reqVars
<1>21. ASSUME NEW t \in Tasks, Fit(t) PROVE OverrideKept'
  BY <1>21 DEF Fit, Go, Fitted, OfSweep, Pool, rowVars, taskVars, reqVars
<1>22. ASSUME NEW t \in Tasks, Judge(t) PROVE OverrideKept'
  BY <1>22 DEF Judge, NextFold, Go, rowVars, taskVars, reqVars
<1>23. ASSUME NEW t \in Tasks, LoopRaises(t) PROVE OverrideKept'
  BY <1>23 DEF LoopRaises, Raises, Go, NextFold, rowVars, taskVars, reqVars
<1>24. ASSUME Crash PROVE OverrideKept'
  BY <1>24 DEF Crash, rowVars, taskVars, reqVars
<1>25. CASE UNCHANGED vars
  BY <1>25 DEF vars, rowVars, taskVars, reqVars
<1>26. QED
  BY <1>1, <1>2, <1>3, <1>4, <1>5, <1>6, <1>7, <1>8, <1>9, <1>10, <1>11, <1>12, <1>13,
     <1>14, <1>15, <1>16, <1>17, <1>18, <1>19, <1>20, <1>21, <1>22,
     <1>23, <1>24, <1>25 DEF Next, RequestStep, WorkerStep, FoldStep

\* A test sweep is created with what its fold has fitted.
LEMMA OutOfSampleStep == TypeOK /\ FittedRight /\ OverrideKept /\ OutOfSample /\ RowsKept /\ [Next]_vars => OutOfSample'
<1> SUFFICES ASSUME TypeOK, FittedRight, OverrideKept, OutOfSample, RowsKept, [Next]_vars PROVE OutOfSample'
  OBVIOUS
<1> USE DEF TypeOK, RowTypes, TaskTypes, Discussions, OverrideKept, OutOfSample, RowsKept
<1>1. ASSUME NEW s \in Sweeps, CreateByHand(s) PROVE OutOfSample'
  BY <1>1 DEF CreateByHand, Create, rowVars, taskVars, reqVars
<1>2. ASSUME NEW s \in Sweeps, Delete(s) PROVE OutOfSample'
  BY <1>2 DEF Delete, SetStatus, Exists, rowVars, taskVars, reqVars
<1>3. ASSUME NEW t \in Tasks, NEW s \in Sweeps, Start(t, s) PROVE OutOfSample'
  BY <1>3 DEF Start, Spawn, rowVars, taskVars, reqVars
<1>4. ASSUME AutoChecks PROVE OutOfSample'
  BY <1>4 DEF AutoChecks, Active, rowVars, taskVars, reqVars
<1>5. ASSUME NEW s \in Sweeps, AutoCreates(s) PROVE OutOfSample'
  BY <1>5 DEF AutoCreates, Create, rowVars, taskVars, reqVars
<1>6. ASSUME NEW t \in Tasks, AutoStarts(t) PROVE OutOfSample'
  BY <1>6 DEF AutoStarts, Spawn, rowVars, taskVars, reqVars
<1>7. ASSUME WalkChecks PROVE OutOfSample'
  BY <1>7 DEF WalkChecks, Active, rowVars, taskVars, reqVars
<1>8. ASSUME NEW t \in Tasks, WalkStarts(t) PROVE OutOfSample'
  BY <1>8 DEF WalkStarts, Spawn, rowVars, taskVars, reqVars
<1>9. ASSUME NEW c \in Cancels, NEW s \in Sweeps, CancelReads(c, s) PROVE OutOfSample'
  BY <1>9 DEF CancelReads, Active, rowVars, taskVars, reqVars
<1>10. ASSUME NEW c \in Cancels, CancelWrites(c) PROVE OutOfSample'
  BY <1>10 DEF CancelWrites, Exists, rowVars, taskVars, reqVars
<1>11. ASSUME NEW t \in Tasks, Resolve(t) PROVE OutOfSample'
  BY <1>11 DEF Resolve, Go, rowVars, taskVars, reqVars
<1>12. ASSUME NEW t \in Tasks, NotPending(t) PROVE OutOfSample'
  BY <1>12 DEF NotPending, Return, Go, AfterHalf, rowVars, taskVars, reqVars
<1>13. ASSUME NEW t \in Tasks, Mark(t) PROVE OutOfSample'
  BY <1>13 DEF Mark, Go, SetStatus, Exists, rowVars, taskVars, reqVars
<1>14. ASSUME NEW t \in Tasks, MarkFailed(t) PROVE OutOfSample'
  BY <1>14 DEF MarkFailed, Return, Go, AfterHalf, SetStatus, Exists, rowVars, taskVars,
     reqVars
<1>15. ASSUME NEW t \in Tasks, MarkRaises(t) PROVE OutOfSample'
  BY <1>15 DEF MarkRaises, Raises, Go, NextFold, Exists, rowVars, taskVars, reqVars
<1>16. ASSUME NEW t \in Tasks, RunChunk(t) PROVE OutOfSample'
  BY <1>16 DEF RunChunk, Chunk, Records, SeesCancel, rowVars, taskVars, reqVars
<1>17. ASSUME NEW t \in Tasks, EndCancelled(t) PROVE OutOfSample'
  BY <1>17 DEF EndCancelled, Return, Go, AfterHalf, SeesCancel, rowVars, taskVars, reqVars
<1>18. ASSUME NEW t \in Tasks, Complete(t) PROVE OutOfSample'
  BY <1>18 DEF Complete, Finishes, Return, Go, AfterHalf, rowVars, taskVars, reqVars
<1>19. ASSUME NEW t \in Tasks, NEW s \in Sweeps, TrainStarts(t, s) PROVE OutOfSample'
  BY <1>19 DEF TrainStarts, Create, Go, rowVars, taskVars, reqVars
<1>20. ASSUME NEW t \in Tasks, NEW s \in Sweeps, TestStarts(t, s) PROVE OutOfSample'
  BY <1>20 DEF TestStarts, Create, Go, FittedRight, rowVars, taskVars, reqVars
<1>21. ASSUME NEW t \in Tasks, Fit(t) PROVE OutOfSample'
  BY <1>21 DEF Fit, Go, Fitted, OfSweep, Pool, rowVars, taskVars, reqVars
<1>22. ASSUME NEW t \in Tasks, Judge(t) PROVE OutOfSample'
  BY <1>22 DEF Judge, NextFold, Go, rowVars, taskVars, reqVars
<1>23. ASSUME NEW t \in Tasks, LoopRaises(t) PROVE OutOfSample'
  BY <1>23 DEF LoopRaises, Raises, Go, NextFold, rowVars, taskVars, reqVars
<1>24. ASSUME Crash PROVE OutOfSample'
  BY <1>24 DEF Crash, rowVars, taskVars, reqVars
<1>25. CASE UNCHANGED vars
  BY <1>25 DEF vars, rowVars, taskVars, reqVars
<1>26. QED
  BY <1>1, <1>2, <1>3, <1>4, <1>5, <1>6, <1>7, <1>8, <1>9, <1>10, <1>11, <1>12, <1>13,
     <1>14, <1>15, <1>16, <1>17, <1>18, <1>19, <1>20, <1>21, <1>22,
     <1>23, <1>24, <1>25 DEF Next, RequestStep, WorkerStep, FoldStep

\* All of it together, and at the start.
LEMMA FrozenStep == TypeOK /\ Frozen /\ [Next]_vars => Frozen'
  BY RowsStay, HeldStep, DiscussedStep, FoldingStep, FittedStep, OverrideStep, OutOfSampleStep
     DEF Frozen
LEMMA FrozenInit == Init => Frozen
  BY DEF Init, Frozen, Held, Discussed, Folding, FittedRight, OverrideKept, OutOfSample

\* The weights that a test sweep is frozen to were fitted to train discussions,
\* earlier than every date it tests.
THEOREM OutOfSampleAlways == Spec => []OutOfSample
<1>1. Frozen => OutOfSample
  BY DEF Frozen
<1>2. QED
  BY InitType, FrozenInit, FrozenStep, TypeCorrect, <1>1, PTL DEF Spec

-----------------------------------------------------------------------------
(* Completed sweeps.                                                         *)

\* The dates a worker has not left over have been taken up.
Looped ==
    \A t \in Tasks : pc[t] = "loop" =>
        \A d \in dates[on[t]] \ todo[t] : [sweep |-> on[t], date |-> d] \in discs

\* A chunk leaves over what it does not take up.
LEMMA LoopedStep == TypeOK /\ Held /\ Looped /\ RowsKept /\ [Next]_vars => Looped'
<1> SUFFICES ASSUME TypeOK, Held, Looped, RowsKept, [Next]_vars PROVE Looped'
  OBVIOUS
<1> USE DEF TypeOK, RowTypes, TaskTypes, Held, Looped, RowsKept, Working
<1>1. ASSUME NEW s \in Sweeps, CreateByHand(s) PROVE Looped'
  BY <1>1 DEF CreateByHand, Create, rowVars, taskVars, reqVars
<1>2. ASSUME NEW s \in Sweeps, Delete(s) PROVE Looped'
  BY <1>2 DEF Delete, SetStatus, Exists, rowVars, taskVars, reqVars
<1>3. ASSUME NEW t \in Tasks, NEW s \in Sweeps, Start(t, s) PROVE Looped'
  BY <1>3 DEF Start, Spawn, rowVars, taskVars, reqVars
<1>4. ASSUME AutoChecks PROVE Looped'
  BY <1>4 DEF AutoChecks, Active, rowVars, taskVars, reqVars
<1>5. ASSUME NEW s \in Sweeps, AutoCreates(s) PROVE Looped'
  BY <1>5 DEF AutoCreates, Create, rowVars, taskVars, reqVars
<1>6. ASSUME NEW t \in Tasks, AutoStarts(t) PROVE Looped'
  BY <1>6 DEF AutoStarts, Spawn, rowVars, taskVars, reqVars
<1>7. ASSUME WalkChecks PROVE Looped'
  BY <1>7 DEF WalkChecks, Active, rowVars, taskVars, reqVars
<1>8. ASSUME NEW t \in Tasks, WalkStarts(t) PROVE Looped'
  BY <1>8 DEF WalkStarts, Spawn, rowVars, taskVars, reqVars
<1>9. ASSUME NEW c \in Cancels, NEW s \in Sweeps, CancelReads(c, s) PROVE Looped'
  BY <1>9 DEF CancelReads, Active, rowVars, taskVars, reqVars
<1>10. ASSUME NEW c \in Cancels, CancelWrites(c) PROVE Looped'
  BY <1>10 DEF CancelWrites, Exists, rowVars, taskVars, reqVars
<1>11. ASSUME NEW t \in Tasks, Resolve(t) PROVE Looped'
  BY <1>11 DEF Resolve, Go, rowVars, taskVars, reqVars
<1>12. ASSUME NEW t \in Tasks, NotPending(t) PROVE Looped'
  BY <1>12 DEF NotPending, Return, Go, AfterHalf, rowVars, taskVars, reqVars
<1>13. ASSUME NEW t \in Tasks, Mark(t) PROVE Looped'
  BY <1>13 DEF Mark, Go, SetStatus, Exists, rowVars, taskVars, reqVars
<1>14. ASSUME NEW t \in Tasks, MarkFailed(t) PROVE Looped'
  BY <1>14 DEF MarkFailed, Return, Go, AfterHalf, SetStatus, Exists, rowVars, taskVars,
     reqVars
<1>15. ASSUME NEW t \in Tasks, MarkRaises(t) PROVE Looped'
  BY <1>15 DEF MarkRaises, Raises, Go, NextFold, Exists, rowVars, taskVars, reqVars
<1>16. ASSUME NEW t \in Tasks, RunChunk(t) PROVE Looped'
  <2>1. \A u \in Tasks \ {t} : UNCHANGED todo[u]
    BY <1>16 DEF RunChunk
  <2>2. UNCHANGED <<pc, on, dates>> /\ discs \subseteq discs'
    BY <1>16 DEF RunChunk, rowVars
  <2>3. todo'[t] = todo[t] \ Chunk(todo[t]) /\ discs' = discs \cup Records(on[t], Chunk(todo[t]))
    BY <1>16 DEF RunChunk
  <2>4. \A d \in dates[on[t]] \ todo'[t] : [sweep |-> on[t], date |-> d] \in discs'
    BY <1>16, <2>3, RecordsHas DEF RunChunk
  <2>5. QED
    BY <2>1, <2>2, <2>4
<1>17. ASSUME NEW t \in Tasks, EndCancelled(t) PROVE Looped'
  BY <1>17 DEF EndCancelled, Return, Go, AfterHalf, SeesCancel, rowVars, taskVars, reqVars
<1>18. ASSUME NEW t \in Tasks, Complete(t) PROVE Looped'
  BY <1>18 DEF Complete, Finishes, Return, Go, AfterHalf, rowVars, taskVars, reqVars
<1>19. ASSUME NEW t \in Tasks, NEW s \in Sweeps, TrainStarts(t, s) PROVE Looped'
  BY <1>19 DEF TrainStarts, Create, Go, rowVars, taskVars, reqVars
<1>20. ASSUME NEW t \in Tasks, NEW s \in Sweeps, TestStarts(t, s) PROVE Looped'
  BY <1>20 DEF TestStarts, Create, Go, rowVars, taskVars, reqVars
<1>21. ASSUME NEW t \in Tasks, Fit(t) PROVE Looped'
  BY <1>21 DEF Fit, Go, Fitted, OfSweep, Pool, rowVars, taskVars, reqVars
<1>22. ASSUME NEW t \in Tasks, Judge(t) PROVE Looped'
  BY <1>22 DEF Judge, NextFold, Go, rowVars, taskVars, reqVars
<1>23. ASSUME NEW t \in Tasks, LoopRaises(t) PROVE Looped'
  BY <1>23 DEF LoopRaises, Raises, Go, NextFold, rowVars, taskVars, reqVars
<1>24. ASSUME Crash PROVE Looped'
  BY <1>24 DEF Crash, rowVars, taskVars, reqVars
<1>25. CASE UNCHANGED vars
  BY <1>25 DEF vars, rowVars, taskVars, reqVars
<1>26. QED
  BY <1>1, <1>2, <1>3, <1>4, <1>5, <1>6, <1>7, <1>8, <1>9, <1>10, <1>11, <1>12, <1>13,
     <1>14, <1>15, <1>16, <1>17, <1>18, <1>19, <1>20, <1>21, <1>22,
     <1>23, <1>24, <1>25 DEF Next, RequestStep, WorkerStep, FoldStep

\* A sweep is completed when no date is left.
LEMMA WholeStep == TypeOK /\ Looped /\ CompletedIsWhole /\ RowsKept /\ [Next]_vars => CompletedIsWhole'
<1> SUFFICES ASSUME TypeOK, Looped, CompletedIsWhole, RowsKept, [Next]_vars PROVE CompletedIsWhole'
  OBVIOUS
<1> USE DEF TypeOK, RowTypes, TaskTypes, Records, CompletedIsWhole, RowsKept, Working
<1>1. ASSUME NEW s \in Sweeps, CreateByHand(s) PROVE CompletedIsWhole'
  BY <1>1 DEF CreateByHand, Create, rowVars, taskVars, reqVars
<1>2. ASSUME NEW s \in Sweeps, Delete(s) PROVE CompletedIsWhole'
  BY <1>2 DEF Delete, SetStatus, Exists, rowVars, taskVars, reqVars
<1>3. ASSUME NEW t \in Tasks, NEW s \in Sweeps, Start(t, s) PROVE CompletedIsWhole'
  BY <1>3 DEF Start, Spawn, rowVars, taskVars, reqVars
<1>4. ASSUME AutoChecks PROVE CompletedIsWhole'
  BY <1>4 DEF AutoChecks, Active, rowVars, taskVars, reqVars
<1>5. ASSUME NEW s \in Sweeps, AutoCreates(s) PROVE CompletedIsWhole'
  BY <1>5 DEF AutoCreates, Create, rowVars, taskVars, reqVars
<1>6. ASSUME NEW t \in Tasks, AutoStarts(t) PROVE CompletedIsWhole'
  BY <1>6 DEF AutoStarts, Spawn, rowVars, taskVars, reqVars
<1>7. ASSUME WalkChecks PROVE CompletedIsWhole'
  BY <1>7 DEF WalkChecks, Active, rowVars, taskVars, reqVars
<1>8. ASSUME NEW t \in Tasks, WalkStarts(t) PROVE CompletedIsWhole'
  BY <1>8 DEF WalkStarts, Spawn, rowVars, taskVars, reqVars
<1>9. ASSUME NEW c \in Cancels, NEW s \in Sweeps, CancelReads(c, s) PROVE
      CompletedIsWhole'
  BY <1>9 DEF CancelReads, Active, rowVars, taskVars, reqVars
<1>10. ASSUME NEW c \in Cancels, CancelWrites(c) PROVE CompletedIsWhole'
  BY <1>10 DEF CancelWrites, Exists, rowVars, taskVars, reqVars
<1>11. ASSUME NEW t \in Tasks, Resolve(t) PROVE CompletedIsWhole'
  BY <1>11 DEF Resolve, Go, rowVars, taskVars, reqVars
<1>12. ASSUME NEW t \in Tasks, NotPending(t) PROVE CompletedIsWhole'
  BY <1>12 DEF NotPending, Return, Go, AfterHalf, rowVars, taskVars, reqVars
<1>13. ASSUME NEW t \in Tasks, Mark(t) PROVE CompletedIsWhole'
  BY <1>13 DEF Mark, Go, SetStatus, Exists, rowVars, taskVars, reqVars
<1>14. ASSUME NEW t \in Tasks, MarkFailed(t) PROVE CompletedIsWhole'
  BY <1>14 DEF MarkFailed, Return, Go, AfterHalf, SetStatus, Exists, rowVars, taskVars,
     reqVars
<1>15. ASSUME NEW t \in Tasks, MarkRaises(t) PROVE CompletedIsWhole'
  BY <1>15 DEF MarkRaises, Raises, Go, NextFold, Exists, rowVars, taskVars, reqVars
<1>16. ASSUME NEW t \in Tasks, RunChunk(t) PROVE CompletedIsWhole'
  BY <1>16 DEF RunChunk, Chunk, Records, SeesCancel, rowVars, taskVars, reqVars
<1>17. ASSUME NEW t \in Tasks, EndCancelled(t) PROVE CompletedIsWhole'
  BY <1>17 DEF EndCancelled, Return, Go, AfterHalf, SeesCancel, rowVars, taskVars, reqVars
<1>18. ASSUME NEW t \in Tasks, Complete(t) PROVE CompletedIsWhole'
  BY <1>18 DEF Complete, Finishes, Return, Go, AfterHalf, Looped, rowVars, taskVars,
     reqVars
<1>19. ASSUME NEW t \in Tasks, NEW s \in Sweeps, TrainStarts(t, s) PROVE
      CompletedIsWhole'
  BY <1>19 DEF TrainStarts, Create, Go, rowVars, taskVars, reqVars
<1>20. ASSUME NEW t \in Tasks, NEW s \in Sweeps, TestStarts(t, s) PROVE
      CompletedIsWhole'
  BY <1>20 DEF TestStarts, Create, Go, rowVars, taskVars, reqVars
<1>21. ASSUME NEW t \in Tasks, Fit(t) PROVE CompletedIsWhole'
  BY <1>21 DEF Fit, Go, Fitted, OfSweep, Pool, rowVars, taskVars, reqVars
<1>22. ASSUME NEW t \in Tasks, Judge(t) PROVE CompletedIsWhole'
  BY <1>22 DEF Judge, NextFold, Go, rowVars, taskVars, reqVars
<1>23. ASSUME NEW t \in Tasks, LoopRaises(t) PROVE CompletedIsWhole'
  BY <1>23 DEF LoopRaises, Raises, Go, NextFold, rowVars, taskVars, reqVars
<1>24. ASSUME Crash PROVE CompletedIsWhole'
  BY <1>24 DEF Crash, rowVars, taskVars, reqVars
<1>25. CASE UNCHANGED vars
  BY <1>25 DEF vars, rowVars, taskVars, reqVars
<1>26. QED
  BY <1>1, <1>2, <1>3, <1>4, <1>5, <1>6, <1>7, <1>8, <1>9, <1>10, <1>11, <1>12, <1>13,
     <1>14, <1>15, <1>16, <1>17, <1>18, <1>19, <1>20, <1>21, <1>22,
     <1>23, <1>24, <1>25 DEF Next, RequestStep, WorkerStep, FoldStep

\* At the start no sweep is completed.
LEMMA WholeInit == Init => Looped /\ CompletedIsWhole
  BY DEF Init, Looped, CompletedIsWhole

\* A sweep that says it is completed has taken up all of its dates, whoever else
\* ran it or cancelled it.
THEOREM CompletedIsWholeAlways == Spec => []CompletedIsWhole
<1>1. TypeOK /\ Frozen /\ Looped /\ CompletedIsWhole /\ [Next]_vars
      => Looped' /\ CompletedIsWhole'
  BY RowsStay, LoopedStep, WholeStep DEF Frozen
<1>2. QED
  BY InitType, FrozenInit, FrozenStep, WholeInit, TypeCorrect, <1>1, PTL DEF Spec

-----------------------------------------------------------------------------
(* The scheduler's sweeps.                                                   *)

Spared == cancelled \cup manual
\* Only a start by hand gives a sweep a second worker, or one beside the
\* scheduler's; before a sweep is marked it is as it was created.
Alone ==
    /\ \A t, u \in Tasks : t # u /\ on[t] # NoSweep /\ on[t] = on[u] => on[t] \in manual
    /\ queued # NoSweep /\ queued \notin manual => \A t \in Tasks : on[t] # queued
Waiting ==
    /\ \A t \in Tasks : pc[t] \in {"resolve", "mark"} /\ on[t] \notin Spared
                        => status[on[t]] \in {"pending", "deleted"}
    /\ queued # NoSweep /\ queued \notin Spared => status[queued] \in {"pending", "deleted"}
Clear ==
    /\ \A s \in auto : status[s] # "none"
    /\ \A s \in manual : status[s] # "none"
    /\ free => queued = NoSweep /\ \A s \in auto \ Spared : ~Active(s)
Piled == Held /\ Alone /\ Waiting /\ Clear /\ NoPile

\* A second worker comes with a start by hand.
LEMMA AloneStep == TypeOK /\ Piled /\ RowsKept /\ [Next]_vars => Alone'
<1> SUFFICES ASSUME TypeOK, Held, Alone, Waiting, Clear, NoPile, RowsKept, [Next]_vars PROVE Alone'
  BY DEF Piled
<1> USE DEF TypeOK, RowTypes, TaskTypes, RequestTypes, Held, Alone, Spared, RowsKept, Working
<1>1. ASSUME NEW s \in Sweeps, CreateByHand(s) PROVE Alone'
  BY <1>1 DEF CreateByHand, Create, rowVars, taskVars, reqVars
<1>2. ASSUME NEW s \in Sweeps, Delete(s) PROVE Alone'
  BY <1>2 DEF Delete, SetStatus, Exists, rowVars, taskVars, reqVars
<1>3. ASSUME NEW t \in Tasks, NEW s \in Sweeps, Start(t, s) PROVE Alone'
  BY <1>3 DEF Start, Spawn, rowVars, taskVars, reqVars
<1>4. ASSUME AutoChecks PROVE Alone'
  BY <1>4 DEF AutoChecks, Active, rowVars, taskVars, reqVars
<1>5. ASSUME NEW s \in Sweeps, AutoCreates(s) PROVE Alone'
  BY <1>5 DEF AutoCreates, Create, rowVars, taskVars, reqVars
<1>6. ASSUME NEW t \in Tasks, AutoStarts(t) PROVE Alone'
  BY <1>6 DEF AutoStarts, Spawn, rowVars, taskVars, reqVars
<1>7. ASSUME WalkChecks PROVE Alone'
  BY <1>7 DEF WalkChecks, Active, rowVars, taskVars, reqVars
<1>8. ASSUME NEW t \in Tasks, WalkStarts(t) PROVE Alone'
  BY <1>8 DEF WalkStarts, Spawn, rowVars, taskVars, reqVars
<1>9. ASSUME NEW c \in Cancels, NEW s \in Sweeps, CancelReads(c, s) PROVE Alone'
  BY <1>9 DEF CancelReads, Active, rowVars, taskVars, reqVars
<1>10. ASSUME NEW c \in Cancels, CancelWrites(c) PROVE Alone'
  BY <1>10 DEF CancelWrites, Exists, rowVars, taskVars, reqVars
<1>11. ASSUME NEW t \in Tasks, Resolve(t) PROVE Alone'
  BY <1>11 DEF Resolve, Go, rowVars, taskVars, reqVars
<1>12. ASSUME NEW t \in Tasks, NotPending(t) PROVE Alone'
  BY <1>12 DEF NotPending, Return, Go, AfterHalf, rowVars, taskVars, reqVars
<1>13. ASSUME NEW t \in Tasks, Mark(t) PROVE Alone'
  BY <1>13 DEF Mark, Go, SetStatus, Exists, rowVars, taskVars, reqVars
<1>14. ASSUME NEW t \in Tasks, MarkFailed(t) PROVE Alone'
  BY <1>14 DEF MarkFailed, Return, Go, AfterHalf, SetStatus, Exists, rowVars, taskVars,
     reqVars
<1>15. ASSUME NEW t \in Tasks, MarkRaises(t) PROVE Alone'
  BY <1>15 DEF MarkRaises, Raises, Go, NextFold, Exists, rowVars, taskVars, reqVars
<1>16. ASSUME NEW t \in Tasks, RunChunk(t) PROVE Alone'
  BY <1>16 DEF RunChunk, Chunk, Records, SeesCancel, rowVars, taskVars, reqVars
<1>17. ASSUME NEW t \in Tasks, EndCancelled(t) PROVE Alone'
  BY <1>17 DEF EndCancelled, Return, Go, AfterHalf, SeesCancel, rowVars, taskVars, reqVars
<1>18. ASSUME NEW t \in Tasks, Complete(t) PROVE Alone'
  BY <1>18 DEF Complete, Finishes, Return, Go, AfterHalf, rowVars, taskVars, reqVars
<1>19. ASSUME NEW t \in Tasks, NEW s \in Sweeps, TrainStarts(t, s) PROVE Alone'
  BY <1>19 DEF TrainStarts, Create, Go, rowVars, taskVars, reqVars
<1>20. ASSUME NEW t \in Tasks, NEW s \in Sweeps, TestStarts(t, s) PROVE Alone'
  BY <1>20 DEF TestStarts, Create, Go, rowVars, taskVars, reqVars
<1>21. ASSUME NEW t \in Tasks, Fit(t) PROVE Alone'
  BY <1>21 DEF Fit, Go, Fitted, OfSweep, Pool, rowVars, taskVars, reqVars
<1>22. ASSUME NEW t \in Tasks, Judge(t) PROVE Alone'
  BY <1>22 DEF Judge, NextFold, Go, rowVars, taskVars, reqVars
<1>23. ASSUME NEW t \in Tasks, LoopRaises(t) PROVE Alone'
  BY <1>23 DEF LoopRaises, Raises, Go, NextFold, rowVars, taskVars, reqVars
<1>24. ASSUME Crash PROVE Alone'
  BY <1>24 DEF Crash, rowVars, taskVars, reqVars
<1>25. CASE UNCHANGED vars
  BY <1>25 DEF vars, rowVars, taskVars, reqVars
<1>26. QED
  BY <1>1, <1>2, <1>3, <1>4, <1>5, <1>6, <1>7, <1>8, <1>9, <1>10, <1>11, <1>12, <1>13,
     <1>14, <1>15, <1>16, <1>17, <1>18, <1>19, <1>20, <1>21, <1>22,
     <1>23, <1>24, <1>25 DEF Next, RequestStep, WorkerStep, FoldStep

\* Nobody else marks a sweep that waits for its only worker.
LEMMA WaitingStep == TypeOK /\ Piled /\ RowsKept /\ [Next]_vars => Waiting'
<1> SUFFICES ASSUME TypeOK, Held, Alone, Waiting, Clear, NoPile, RowsKept, [Next]_vars PROVE Waiting'
  BY DEF Piled
<1> USE DEF TypeOK, RowTypes, TaskTypes, RequestTypes, Held, Alone, Spared, RowsKept, Working, Waiting
<1>1. ASSUME NEW s \in Sweeps, CreateByHand(s) PROVE Waiting'
  BY <1>1 DEF CreateByHand, Create, rowVars, taskVars, reqVars
<1>2. ASSUME NEW s \in Sweeps, Delete(s) PROVE Waiting'
  BY <1>2 DEF Delete, SetStatus, Exists, rowVars, taskVars, reqVars
<1>3. ASSUME NEW t \in Tasks, NEW s \in Sweeps, Start(t, s) PROVE Waiting'
  BY <1>3 DEF Start, Spawn, rowVars, taskVars, reqVars
<1>4. ASSUME AutoChecks PROVE Waiting'
  BY <1>4 DEF AutoChecks, Active, rowVars, taskVars, reqVars
<1>5. ASSUME NEW s \in Sweeps, AutoCreates(s) PROVE Waiting'
  BY <1>5 DEF AutoCreates, Create, rowVars, taskVars, reqVars
<1>6. ASSUME NEW t \in Tasks, AutoStarts(t) PROVE Waiting'
  BY <1>6 DEF AutoStarts, Spawn, rowVars, taskVars, reqVars
<1>7. ASSUME WalkChecks PROVE Waiting'
  BY <1>7 DEF WalkChecks, Active, rowVars, taskVars, reqVars
<1>8. ASSUME NEW t \in Tasks, WalkStarts(t) PROVE Waiting'
  BY <1>8 DEF WalkStarts, Spawn, rowVars, taskVars, reqVars
<1>9. ASSUME NEW c \in Cancels, NEW s \in Sweeps, CancelReads(c, s) PROVE Waiting'
  BY <1>9 DEF CancelReads, Active, rowVars, taskVars, reqVars
<1>10. ASSUME NEW c \in Cancels, CancelWrites(c) PROVE Waiting'
  BY <1>10 DEF CancelWrites, Exists, rowVars, taskVars, reqVars
<1>11. ASSUME NEW t \in Tasks, Resolve(t) PROVE Waiting'
  BY <1>11 DEF Resolve, Go, rowVars, taskVars, reqVars
<1>12. ASSUME NEW t \in Tasks, NotPending(t) PROVE Waiting'
  BY <1>12 DEF NotPending, Return, Go, AfterHalf, rowVars, taskVars, reqVars
<1>13. ASSUME NEW t \in Tasks, Mark(t) PROVE Waiting'
  BY <1>13 DEF Mark, Go, SetStatus, Exists, rowVars, taskVars, reqVars
<1>14. ASSUME NEW t \in Tasks, MarkFailed(t) PROVE Waiting'
  BY <1>14 DEF MarkFailed, Return, Go, AfterHalf, SetStatus, Exists, rowVars, taskVars,
     reqVars
<1>15. ASSUME NEW t \in Tasks, MarkRaises(t) PROVE Waiting'
  BY <1>15 DEF MarkRaises, Raises, Go, NextFold, Exists, rowVars, taskVars, reqVars
<1>16. ASSUME NEW t \in Tasks, RunChunk(t) PROVE Waiting'
  BY <1>16 DEF RunChunk, Chunk, Records, SeesCancel, rowVars, taskVars, reqVars
<1>17. ASSUME NEW t \in Tasks, EndCancelled(t) PROVE Waiting'
  BY <1>17 DEF EndCancelled, Return, Go, AfterHalf, SeesCancel, rowVars, taskVars, reqVars
<1>18. ASSUME NEW t \in Tasks, Complete(t) PROVE Waiting'
  BY <1>18 DEF Complete, Finishes, Return, Go, AfterHalf, rowVars, taskVars, reqVars
<1>19. ASSUME NEW t \in Tasks, NEW s \in Sweeps, TrainStarts(t, s) PROVE Waiting'
  BY <1>19 DEF TrainStarts, Create, Go, rowVars, taskVars, reqVars
<1>20. ASSUME NEW t \in Tasks, NEW s \in Sweeps, TestStarts(t, s) PROVE Waiting'
  BY <1>20 DEF TestStarts, Create, Go, rowVars, taskVars, reqVars
<1>21. ASSUME NEW t \in Tasks, Fit(t) PROVE Waiting'
  BY <1>21 DEF Fit, Go, Fitted, OfSweep, Pool, rowVars, taskVars, reqVars
<1>22. ASSUME NEW t \in Tasks, Judge(t) PROVE Waiting'
  BY <1>22 DEF Judge, NextFold, Go, rowVars, taskVars, reqVars
<1>23. ASSUME NEW t \in Tasks, LoopRaises(t) PROVE Waiting'
  BY <1>23 DEF LoopRaises, Raises, Go, NextFold, rowVars, taskVars, reqVars
<1>24. ASSUME Crash PROVE Waiting'
  BY <1>24 DEF Crash, rowVars, taskVars, reqVars
<1>25. CASE UNCHANGED vars
  BY <1>25 DEF vars, rowVars, taskVars, reqVars
<1>26. QED
  BY <1>1, <1>2, <1>3, <1>4, <1>5, <1>6, <1>7, <1>8, <1>9, <1>10, <1>11, <1>12, <1>13,
     <1>14, <1>15, <1>16, <1>17, <1>18, <1>19, <1>20, <1>21, <1>22,
     <1>23, <1>24, <1>25 DEF Next, RequestStep, WorkerStep, FoldStep

\* Between the check and the creation, nothing of the scheduler becomes active.
LEMMA ClearStep == TypeOK /\ Piled /\ RowsKept /\ [Next]_vars => Clear'
<1> SUFFICES ASSUME TypeOK, Held, Alone, Waiting, Clear, NoPile, RowsKept, [Next]_vars PROVE Clear'
  BY DEF Piled
<1> USE DEF TypeOK, RowTypes, TaskTypes, RequestTypes, Held, Alone, Spared, RowsKept, Working, Waiting, Clear, Active
<1>1. ASSUME NEW s \in Sweeps, CreateByHand(s) PROVE Clear'
  BY <1>1 DEF CreateByHand, Create, rowVars, taskVars, reqVars
<1>2. ASSUME NEW s \in Sweeps, Delete(s) PROVE Clear'
  BY <1>2 DEF Delete, SetStatus, Exists, rowVars, taskVars, reqVars
<1>3. ASSUME NEW t \in Tasks, NEW s \in Sweeps, Start(t, s) PROVE Clear'
  BY <1>3 DEF Start, Spawn, rowVars, taskVars, reqVars
<1>4. ASSUME AutoChecks PROVE Clear'
  BY <1>4 DEF AutoChecks, Active, rowVars, taskVars, reqVars
<1>5. ASSUME NEW s \in Sweeps, AutoCreates(s) PROVE Clear'
  BY <1>5 DEF AutoCreates, Create, rowVars, taskVars, reqVars
<1>6. ASSUME NEW t \in Tasks, AutoStarts(t) PROVE Clear'
  BY <1>6 DEF AutoStarts, Spawn, rowVars, taskVars, reqVars
<1>7. ASSUME WalkChecks PROVE Clear'
  BY <1>7 DEF WalkChecks, Active, rowVars, taskVars, reqVars
<1>8. ASSUME NEW t \in Tasks, WalkStarts(t) PROVE Clear'
  BY <1>8 DEF WalkStarts, Spawn, rowVars, taskVars, reqVars
<1>9. ASSUME NEW c \in Cancels, NEW s \in Sweeps, CancelReads(c, s) PROVE Clear'
  BY <1>9 DEF CancelReads, Active, rowVars, taskVars, reqVars
<1>10. ASSUME NEW c \in Cancels, CancelWrites(c) PROVE Clear'
  BY <1>10 DEF CancelWrites, Exists, rowVars, taskVars, reqVars
<1>11. ASSUME NEW t \in Tasks, Resolve(t) PROVE Clear'
  BY <1>11 DEF Resolve, Go, rowVars, taskVars, reqVars
<1>12. ASSUME NEW t \in Tasks, NotPending(t) PROVE Clear'
  BY <1>12 DEF NotPending, Return, Go, AfterHalf, rowVars, taskVars, reqVars
<1>13. ASSUME NEW t \in Tasks, Mark(t) PROVE Clear'
  BY <1>13 DEF Mark, Go, SetStatus, Exists, rowVars, taskVars, reqVars
<1>14. ASSUME NEW t \in Tasks, MarkFailed(t) PROVE Clear'
  BY <1>14 DEF MarkFailed, Return, Go, AfterHalf, SetStatus, Exists, rowVars, taskVars,
     reqVars
<1>15. ASSUME NEW t \in Tasks, MarkRaises(t) PROVE Clear'
  BY <1>15 DEF MarkRaises, Raises, Go, NextFold, Exists, rowVars, taskVars, reqVars
<1>16. ASSUME NEW t \in Tasks, RunChunk(t) PROVE Clear'
  BY <1>16 DEF RunChunk, Chunk, Records, SeesCancel, rowVars, taskVars, reqVars
<1>17. ASSUME NEW t \in Tasks, EndCancelled(t) PROVE Clear'
  BY <1>17 DEF EndCancelled, Return, Go, AfterHalf, SeesCancel, rowVars, taskVars, reqVars
<1>18. ASSUME NEW t \in Tasks, Complete(t) PROVE Clear'
  BY <1>18 DEF Complete, Finishes, Return, Go, AfterHalf, rowVars, taskVars, reqVars
<1>19. ASSUME NEW t \in Tasks, NEW s \in Sweeps, TrainStarts(t, s) PROVE Clear'
  BY <1>19 DEF TrainStarts, Create, Go, rowVars, taskVars, reqVars
<1>20. ASSUME NEW t \in Tasks, NEW s \in Sweeps, TestStarts(t, s) PROVE Clear'
  BY <1>20 DEF TestStarts, Create, Go, rowVars, taskVars, reqVars
<1>21. ASSUME NEW t \in Tasks, Fit(t) PROVE Clear'
  BY <1>21 DEF Fit, Go, Fitted, OfSweep, Pool, rowVars, taskVars, reqVars
<1>22. ASSUME NEW t \in Tasks, Judge(t) PROVE Clear'
  BY <1>22 DEF Judge, NextFold, Go, rowVars, taskVars, reqVars
<1>23. ASSUME NEW t \in Tasks, LoopRaises(t) PROVE Clear'
  BY <1>23 DEF LoopRaises, Raises, Go, NextFold, rowVars, taskVars, reqVars
<1>24. ASSUME Crash PROVE Clear'
  BY <1>24 DEF Crash, rowVars, taskVars, reqVars
<1>25. CASE UNCHANGED vars
  BY <1>25 DEF vars, rowVars, taskVars, reqVars
<1>26. QED
  BY <1>1, <1>2, <1>3, <1>4, <1>5, <1>6, <1>7, <1>8, <1>9, <1>10, <1>11, <1>12, <1>13,
     <1>14, <1>15, <1>16, <1>17, <1>18, <1>19, <1>20, <1>21, <1>22,
     <1>23, <1>24, <1>25 DEF Next, RequestStep, WorkerStep, FoldStep

\* The scheduler creates when nothing of its own is active.
LEMMA NoPileStep == TypeOK /\ Piled /\ RowsKept /\ [Next]_vars => NoPile'
<1> SUFFICES ASSUME TypeOK, Held, Alone, Waiting, Clear, NoPile, RowsKept, [Next]_vars PROVE NoPile'
  BY DEF Piled
<1> USE DEF TypeOK, RowTypes, TaskTypes, RequestTypes, Held, Alone, Spared, RowsKept, Working, Waiting, Clear, Active, NoPile
<1>1. ASSUME NEW s \in Sweeps, CreateByHand(s) PROVE NoPile'
  BY <1>1 DEF CreateByHand, Create, rowVars, taskVars, reqVars
<1>2. ASSUME NEW s \in Sweeps, Delete(s) PROVE NoPile'
  BY <1>2 DEF Delete, SetStatus, Exists, rowVars, taskVars, reqVars
<1>3. ASSUME NEW t \in Tasks, NEW s \in Sweeps, Start(t, s) PROVE NoPile'
  BY <1>3 DEF Start, Spawn, rowVars, taskVars, reqVars
<1>4. ASSUME AutoChecks PROVE NoPile'
  BY <1>4 DEF AutoChecks, Active, rowVars, taskVars, reqVars
<1>5. ASSUME NEW s \in Sweeps, AutoCreates(s) PROVE NoPile'
  BY <1>5 DEF AutoCreates, Create, AutoFree, rowVars, taskVars, reqVars
<1>6. ASSUME NEW t \in Tasks, AutoStarts(t) PROVE NoPile'
  BY <1>6 DEF AutoStarts, Spawn, rowVars, taskVars, reqVars
<1>7. ASSUME WalkChecks PROVE NoPile'
  BY <1>7 DEF WalkChecks, Active, rowVars, taskVars, reqVars
<1>8. ASSUME NEW t \in Tasks, WalkStarts(t) PROVE NoPile'
  BY <1>8 DEF WalkStarts, Spawn, rowVars, taskVars, reqVars
<1>9. ASSUME NEW c \in Cancels, NEW s \in Sweeps, CancelReads(c, s) PROVE NoPile'
  BY <1>9 DEF CancelReads, Active, rowVars, taskVars, reqVars
<1>10. ASSUME NEW c \in Cancels, CancelWrites(c) PROVE NoPile'
  BY <1>10 DEF CancelWrites, Exists, rowVars, taskVars, reqVars
<1>11. ASSUME NEW t \in Tasks, Resolve(t) PROVE NoPile'
  BY <1>11 DEF Resolve, Go, rowVars, taskVars, reqVars
<1>12. ASSUME NEW t \in Tasks, NotPending(t) PROVE NoPile'
  BY <1>12 DEF NotPending, Return, Go, AfterHalf, rowVars, taskVars, reqVars
<1>13. ASSUME NEW t \in Tasks, Mark(t) PROVE NoPile'
  BY <1>13 DEF Mark, Go, SetStatus, Exists, rowVars, taskVars, reqVars
<1>14. ASSUME NEW t \in Tasks, MarkFailed(t) PROVE NoPile'
  BY <1>14 DEF MarkFailed, Return, Go, AfterHalf, SetStatus, Exists, rowVars, taskVars,
     reqVars
<1>15. ASSUME NEW t \in Tasks, MarkRaises(t) PROVE NoPile'
  BY <1>15 DEF MarkRaises, Raises, Go, NextFold, Exists, rowVars, taskVars, reqVars
<1>16. ASSUME NEW t \in Tasks, RunChunk(t) PROVE NoPile'
  BY <1>16 DEF RunChunk, Chunk, Records, SeesCancel, rowVars, taskVars, reqVars
<1>17. ASSUME NEW t \in Tasks, EndCancelled(t) PROVE NoPile'
  BY <1>17 DEF EndCancelled, Return, Go, AfterHalf, SeesCancel, rowVars, taskVars, reqVars
<1>18. ASSUME NEW t \in Tasks, Complete(t) PROVE NoPile'
  BY <1>18 DEF Complete, Finishes, Return, Go, AfterHalf, rowVars, taskVars, reqVars
<1>19. ASSUME NEW t \in Tasks, NEW s \in Sweeps, TrainStarts(t, s) PROVE NoPile'
  BY <1>19 DEF TrainStarts, Create, Go, rowVars, taskVars, reqVars
<1>20. ASSUME NEW t \in Tasks, NEW s \in Sweeps, TestStarts(t, s) PROVE NoPile'
  BY <1>20 DEF TestStarts, Create, Go, rowVars, taskVars, reqVars
<1>21. ASSUME NEW t \in Tasks, Fit(t) PROVE NoPile'
  BY <1>21 DEF Fit, Go, Fitted, OfSweep, Pool, rowVars, taskVars, reqVars
<1>22. ASSUME NEW t \in Tasks, Judge(t) PROVE NoPile'
  BY <1>22 DEF Judge, NextFold, Go, rowVars, taskVars, reqVars
<1>23. ASSUME NEW t \in Tasks, LoopRaises(t) PROVE NoPile'
  BY <1>23 DEF LoopRaises, Raises, Go, NextFold, rowVars, taskVars, reqVars
<1>24. ASSUME Crash PROVE NoPile'
  BY <1>24 DEF Crash, rowVars, taskVars, reqVars
<1>25. CASE UNCHANGED vars
  BY <1>25 DEF vars, rowVars, taskVars, reqVars
<1>26. QED
  BY <1>1, <1>2, <1>3, <1>4, <1>5, <1>6, <1>7, <1>8, <1>9, <1>10, <1>11, <1>12, <1>13,
     <1>14, <1>15, <1>16, <1>17, <1>18, <1>19, <1>20, <1>21, <1>22,
     <1>23, <1>24, <1>25 DEF Next, RequestStep, WorkerStep, FoldStep

\* At the start there are no sweeps.
LEMMA PiledInit == Init => Piled
  BY DEF Init, Piled, Held, Alone, Waiting, Clear, NoPile, Spared, Active

\* Two sweeps that the scheduler has created are only active at once when one of
\* them was cancelled, or started by hand as well.
THEOREM NoPileAlways == Spec => []NoPile
<1>1. TypeOK /\ Piled /\ [Next]_vars => Piled'
  BY RowsStay, HeldStep, AloneStep, WaitingStep, ClearStep, NoPileStep DEF Piled
<1>2. Piled => NoPile
  BY DEF Piled
<1>3. QED
  BY InitType, PiledInit, TypeCorrect, <1>1, <1>2, PTL DEF Spec

-----------------------------------------------------------------------------
(* The version history of the template: StrategyVersions.                    *)

CONSTANTS Fits, Rollbacks, NoFit
VARIABLES live, versions, active, step, found, number, target, seen, raced, apart
H == INSTANCE StrategyVersions

\* The next number; a fit whose number is still the next has found what is active; and
\* one version is active.
NextNumber == Len(versions) + 1
VersionTypes ==
    /\ versions \in Seq(H!Maps) /\ live \in H!Maps
    /\ step \in [H!Callers -> {"new", "number", "insert", "marked", "done"}]
    /\ number \in [Fits -> Nat] /\ target \in [Rollbacks -> Nat] /\ seen \in [Rollbacks -> H!Maps]
    /\ found \in [H!Callers -> SUBSET Nat] /\ active \subseteq 1..Len(versions)
    /\ \A r \in Rollbacks : step[r] = "marked" => target[r] \in 1..Len(versions)
FoundActive ==
    \A f \in Fits : step[f] = "insert" =>
        number[f] <= NextNumber /\ (number[f] = NextNumber => found[f] = active)
Single == raced \/ active = {} \/ \E n \in Nat : active = {n}
History == VersionTypes /\ FoundActive /\ Single

\* What a new version leaves active.
LEMMA AddedActive ==
    ASSUME History, NEW c \in H!Callers, NEW w \in H!Maps, H!Added(c, w)
    PROVE  /\ versions' \in Seq(H!Maps) /\ Len(versions') = Len(versions) + 1 /\ Len(versions) \in Nat
           /\ active' \subseteq 1..Len(versions') /\ versions'[Len(versions) + 1] = w
           /\ found[c] = active => active' = {Len(versions) + 1}
<1>1. /\ versions' = Append(versions, w) /\ versions \in Seq(H!Maps)
      /\ active' = (active \ found[c]) \cup {Len(versions) + 1}
  BY DEF H!Added, History, VersionTypes
<1>2. /\ Len(versions) \in Nat /\ versions' \in Seq(H!Maps) /\ Len(versions') = Len(versions) + 1
      /\ versions'[Len(versions) + 1] = w
  BY <1>1
<1>3. active \subseteq 1..Len(versions)
  BY DEF History, VersionTypes
<1>4. active' \subseteq 1..Len(versions')
  <2> DEFINE k == Len(versions)
  <2>1. k \in Nat /\ active' \subseteq (1..k) \cup {k + 1} /\ Len(versions') = k + 1
    BY <1>1, <1>2, <1>3
  <2>2. (1..k) \cup {k + 1} \subseteq 1..(k + 1)
    BY <2>1
  <2> HIDE DEF k
  <2> QED
    BY <2>1, <2>2
<1>5. found[c] = active => active' = {Len(versions) + 1}
  BY <1>1
<1> QED
  BY <1>2, <1>4, <1>5

LEMMA HistoryInit == H!Init => History
<1>1. <<>> \in Seq(H!Maps) /\ Len(<<>>) = 0
  OBVIOUS
<1> QED
  BY <1>1 DEF H!Init, History, VersionTypes, FoundActive, Single, H!Maps, H!Callers, NextNumber

\* A number that is no longer the next never becomes the next again.
LEMMA HistoryStep == History /\ [H!Next]_(H!vars) => History'
<1> SUFFICES ASSUME History, [H!Next]_(H!vars) PROVE History'
  OBVIOUS
<1>0. Len(versions) \in Nat
  BY DEF History, VersionTypes
<1>1. ASSUME NEW f \in Fits, H!Writes(f) PROVE History'
  BY <1>1 DEF H!Writes, H!Goes, History, VersionTypes, FoundActive, Single, NextNumber, H!Callers, H!Maps
<1>2. ASSUME NEW f \in Fits, H!Numbers(f) PROVE History'
  <2>1. /\ number' = [number EXCEPT ![f] = Len(versions) + 1]
        /\ found' = [found EXCEPT ![f] = active] /\ step' = [step EXCEPT ![f] = "insert"]
        /\ f \in H!Callers /\ UNCHANGED <<live, versions, active, target, seen, raced>>
    BY <1>2 DEF H!Numbers, H!Goes, H!verVars, H!Callers
  <2>2. VersionTypes'
    BY <1>0, <2>1 DEF History, VersionTypes, H!Maps, H!Callers
  <2>3. FoundActive'
    BY <1>0, <2>1 DEF History, VersionTypes, FoundActive, NextNumber
  <2>4. Single'
    BY <2>1 DEF History, Single
  <2> QED
    BY <2>2, <2>3, <2>4 DEF History
<1>3. ASSUME NEW f \in Fits, H!Inserts(f) PROVE History'
  <2>1. f \in H!Callers /\ f \in H!Maps /\ H!Added(f, f) /\ number[f] = Len(versions) + 1
    BY <1>3 DEF H!Inserts, H!Fresh, H!Callers, H!Maps
  <2>2. found[f] = active
    BY <1>3, <2>1 DEF H!Inserts, History, FoundActive, NextNumber
  <2>3. /\ versions' \in Seq(H!Maps) /\ Len(versions') = Len(versions) + 1
        /\ active' = {Len(versions) + 1}
    BY <2>1, <2>2, AddedActive
  <2>4. /\ step' = [step EXCEPT ![f] = "done"]
        /\ UNCHANGED <<live, found, number, target, seen>>
    BY <1>3 DEF H!Inserts, H!Goes
  <2>5. VersionTypes'
    BY <1>0, <2>3, <2>4 DEF History, VersionTypes, H!Maps, H!Callers
  <2>6. FoundActive'
    BY <1>0, <2>1, <2>3, <2>4 DEF History, VersionTypes, FoundActive, NextNumber
  <2>7. Single'
    BY <1>0, <2>3 DEF Single
  <2> QED
    BY <2>5, <2>6, <2>7 DEF History
<1>4. ASSUME NEW f \in Fits, H!Loses(f) PROVE History'
  BY <1>4 DEF H!Loses, H!Goes, History, VersionTypes, FoundActive, Single, NextNumber, H!Callers, H!Maps,
     H!verVars
<1>5. ASSUME NEW r \in Rollbacks, H!Marks(r) PROVE History'
  <2>1. PICK n \in 1..Len(versions) \ active :
           /\ target' = [target EXCEPT ![r] = n] /\ seen' = [seen EXCEPT ![r] = live]
           /\ found' = [found EXCEPT ![r] = active] /\ step' = [step EXCEPT ![r] = "marked"]
    BY <1>5 DEF H!Marks, H!Goes
  <2>2. UNCHANGED <<live, versions, active, number, raced>> /\ r \in H!Callers /\ step[r] = "new"
    BY <1>5 DEF H!Marks, H!verVars, H!Callers
  <2>3. VersionTypes'
    BY <1>0, <2>1, <2>2 DEF History, VersionTypes, H!Maps, H!Callers
  <2>4. FoundActive'
    BY <1>0, <2>1, <2>2 DEF History, VersionTypes, FoundActive, NextNumber, H!Callers
  <2>5. Single'
    BY <2>2 DEF History, Single
  <2> QED
    BY <2>3, <2>4, <2>5 DEF History
<1>6. ASSUME NEW r \in Rollbacks, H!RollsBack(r) PROVE History'
  <2>1. r \in H!Callers /\ step[r] = "marked"
    BY <1>6 DEF H!RollsBack, H!Callers
  <2>2. versions[target[r]] \in H!Maps
    BY <2>1 DEF History, VersionTypes
  <2>3. H!Added(r, versions[target[r]]) /\ raced' = (found[r] # active)
    BY <1>6 DEF H!RollsBack
  <2>4. /\ versions' \in Seq(H!Maps) /\ Len(versions') = Len(versions) + 1
        /\ active' \subseteq 1..Len(versions')
        /\ found[r] = active => active' = {Len(versions) + 1}
    BY <2>1, <2>2, <2>3, AddedActive
  <2>5. /\ step' = [step EXCEPT ![r] = "done"] /\ live' \in H!Maps
        /\ UNCHANGED <<found, number, target, seen>>
    BY <1>6, <2>2 DEF H!RollsBack, H!Goes, H!Restored, History, VersionTypes
  <2>6. VersionTypes'
    BY <1>0, <2>4, <2>5 DEF History, VersionTypes, H!Maps, H!Callers
  <2>7. FoundActive'
    BY <1>0, <2>1, <2>4, <2>5 DEF History, VersionTypes, FoundActive, NextNumber, H!Callers
  <2>8. Single'
    <3>1. found[r] = active => active' = {Len(versions) + 1} /\ Len(versions) + 1 \in Nat
      BY <1>0, <2>4
    <3> QED
      BY <2>3, <3>1, Zenon DEF Single
  <2> QED
    BY <2>6, <2>7, <2>8 DEF History
<1>7. ASSUME NEW c \in H!Callers, H!Dies(c) PROVE History'
  BY <1>7 DEF H!Dies, H!Goes, History, VersionTypes, FoundActive, Single, NextNumber, H!Callers, H!Maps,
     H!verVars
<1>8. CASE UNCHANGED H!vars
  BY <1>8 DEF History, VersionTypes, FoundActive, Single, NextNumber, H!vars, H!verVars, H!callVars
<1> QED
  BY <1>1, <1>2, <1>3, <1>4, <1>5, <1>6, <1>7, <1>8 DEF H!Next

\* One version is active, for any number of fits and rollbacks that record theirs at
\* once and die anywhere, but for a rollback that another version has overtaken.
THEOREM OneActiveAlways == H!Spec => []H!OneActive
<1>1. Single => H!OneActive
  BY Zenon DEF Single, H!OneActive
<1> QED
  BY HistoryInit, HistoryStep, <1>1, PTL DEF H!Spec, History

\* Between its map and its version a fit is alone, and the map is its own; otherwise the
\* map is that of the active version.  That is, unless some two were at it at once.
Recording == {"number", "insert"}
Kept ==
    \/ apart
    \/ \E f \in Fits : /\ step[f] \in Recording /\ live = f
                       /\ \A g \in Fits \ {f} : step[g] \notin Recording
    \/ (\A f \in Fits : step[f] \notin Recording) /\ \A n \in active : live = versions[n]

LEMMA KeptStep == History /\ Kept /\ [H!Next]_(H!vars) => Kept'
<1> SUFFICES ASSUME History, Kept, [H!Next]_(H!vars) PROVE Kept'
  OBVIOUS
<1>0. step \in [H!Callers -> {"new", "number", "insert", "marked", "done"}] /\ Fits \subseteq H!Callers
  BY DEF History, VersionTypes, H!Callers
<1>1. ASSUME NEW f \in Fits, H!Writes(f) PROVE Kept'
  <2>1. live' = f /\ apart' = (H!Busy # {}) /\ step' = [step EXCEPT ![f] = "number"]
    BY <1>1 DEF H!Writes, H!Goes
  <2>2. CASE H!Busy = {}
    BY <1>0, <2>1, <2>2 DEF Kept, H!Busy, Recording
  <2>3. CASE H!Busy # {}
    BY <2>1, <2>3 DEF Kept
  <2> QED
    BY <2>2, <2>3
<1>2. ASSUME NEW f \in Fits, H!Numbers(f) PROVE Kept'
  <2>1. /\ step[f] = "number" /\ step' = [step EXCEPT ![f] = "insert"]
        /\ UNCHANGED <<live, active, versions, apart>>
    BY <1>2 DEF H!Numbers, H!Goes, H!verVars
  <2> QED
    BY <1>0, <2>1 DEF Kept, Recording
<1>3. ASSUME NEW f \in Fits, H!Inserts(f) PROVE Kept'
  <2>1. /\ step[f] = "insert" /\ step' = [step EXCEPT ![f] = "done"] /\ UNCHANGED <<live, apart>>
        /\ H!Added(f, f) /\ number[f] = Len(versions) + 1 /\ f \in H!Maps
    BY <1>3 DEF H!Inserts, H!Goes, H!Fresh, H!Maps
  <2>2. found[f] = active
    BY <2>1 DEF History, FoundActive, NextNumber
  <2>3. active' = {Len(versions) + 1} /\ versions'[Len(versions) + 1] = f
    BY <1>0, <2>1, <2>2, AddedActive
  <2>4. CASE apart
    BY <2>1, <2>4 DEF Kept
  <2>5. CASE ~apart
    <3>1. live = f /\ \A g \in Fits \ {f} : step[g] \notin Recording
      BY <2>1, <2>5 DEF Kept, Recording
    <3> QED
      BY <1>0, <2>1, <2>3, <3>1 DEF Kept, Recording
  <2> QED
    BY <2>4, <2>5
<1>4. ASSUME NEW f \in Fits, H!Loses(f) PROVE Kept'
  BY <1>4 DEF H!Loses, Kept
<1>5. ASSUME NEW r \in Rollbacks, H!Marks(r) PROVE Kept'
  <2>1. /\ step' = [step EXCEPT ![r] = "marked"] /\ step[r] = "new"
        /\ UNCHANGED <<live, active, versions, apart>>
    BY <1>5 DEF H!Marks, H!Goes, H!verVars
  <2> QED
    BY <1>0, <2>1 DEF Kept, Recording
<1>6. ASSUME NEW r \in Rollbacks, H!RollsBack(r) PROVE Kept'
  <2> DEFINE w == versions[target[r]]
  <2>1. /\ step[r] = "marked" /\ step' = [step EXCEPT ![r] = "done"] /\ H!Added(r, w)
        /\ live' = (IF w = seen[r] THEN live ELSE w)
        /\ apart' = (H!Busy # {r} \/ found[r] # active \/ seen[r] # live)
    BY <1>6 DEF H!RollsBack, H!Goes, H!Restored
  <2>2. w \in H!Maps /\ r \in H!Callers
    BY <2>1 DEF History, VersionTypes, H!Callers
  <2>3. /\ found[r] = active => active' = {Len(versions) + 1}
        /\ versions'[Len(versions) + 1] = w
    BY <2>1, <2>2, AddedActive
  <2> HIDE DEF w
  <2>4. CASE H!Busy # {r} \/ found[r] # active \/ seen[r] # live
    BY <2>1, <2>4 DEF Kept
  <2>5. CASE H!Busy = {r} /\ found[r] = active /\ seen[r] = live
    <3>1. \A f \in Fits : step'[f] \notin Recording
      BY <1>0, <2>1, <2>5 DEF H!Busy, Recording
    <3>2. live' = w
      BY <2>1, <2>5
    <3> QED
      BY <2>3, <2>5, <3>1, <3>2 DEF Kept
  <2> QED
    BY <2>4, <2>5
<1>7. ASSUME NEW c \in H!Callers, H!Dies(c) PROVE Kept'
  <2>1. /\ step' = [step EXCEPT ![c] = "done"] /\ apart' = (apart \/ c \in Fits)
        /\ UNCHANGED <<live, active, versions>>
    BY <1>7 DEF H!Dies, H!Goes, H!verVars
  <2>2. CASE c \in Fits
    BY <2>1, <2>2 DEF Kept
  <2>3. CASE c \notin Fits
    BY <1>0, <2>1, <2>3 DEF Kept, Recording
  <2> QED
    BY <2>2, <2>3
<1>8. CASE UNCHANGED H!vars
  BY <1>8 DEF Kept, H!vars, H!verVars, H!callVars
<1> QED
  BY <1>1, <1>2, <1>3, <1>4, <1>5, <1>6, <1>7, <1>8 DEF H!Next

\* The active version is the one that serves, also after failures, as soon as a fit or a
\* rollback has run alone, for any number of both.
THEOREM ServedIsActiveAlways == H!Spec => []H!ServedIsActive
<1>1. H!Init => Kept
  BY DEF H!Init, Kept, Recording, H!Callers
<1>2. Kept => H!ServedIsActive
  <2>1. (\A f \in Fits : f \notin H!Busy) => \A f \in Fits : step[f] \notin Recording
    BY DEF H!Busy, Recording, H!Callers
  <2> QED
    BY <2>1 DEF Kept, H!ServedIsActive
<1> QED
  BY HistoryInit, HistoryStep, KeptStep, <1>1, <1>2, PTL DEF H!Spec
=============================================================================
