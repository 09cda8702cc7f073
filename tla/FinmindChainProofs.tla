-------------------------- MODULE FinmindChainProofs --------------------------
(* Proofs about FinmindChain, for any number of chains, workers and requests: *)
(* the types; that one chain lives, with its lock, until a lock expires under *)
(* its chain; that a stop is heard until then; and, whatever expires, that    *)
(* the rows say what the chains did.                                          *)
EXTENDS FinmindChain, TLAPS

USE SizesAssumption, ActorsAssumption

LEMMA InitType == Init => TypeOK
  BY DEF Init, TypeOK, Statuses, RowStatuses, Pcs, StartPcs

\* Every step keeps the types: one step per action.
LEMMA NextType == TypeOK /\ [Next]_vars => TypeOK'
<1> SUFFICES ASSUME TypeOK, [Next]_vars PROVE TypeOK'
  OBVIOUS
<1> USE DEF TypeOK, vars, keyVars, lockVars, rowVars, posVars, timeVars, taskVars,
            reqVars, histVars, Statuses, RowStatuses
<1>1. ASSUME NEW c \in Chains, HostCheckLocked(c) PROVE TypeOK'
  BY <1>1 DEF HostCheckLocked, Go, Pcs, StartPcs, LoopPcs, ChunkPcs, FinalPcs
<1>2. ASSUME NEW c \in Chains, HostCheckFree(c) PROVE TypeOK'
  BY <1>2 DEF HostCheckFree, Go, Pcs, StartPcs, LoopPcs, ChunkPcs, FinalPcs
<1>3. ASSUME NEW c \in Chains, HostSuspected(c) PROVE TypeOK'
  BY <1>3 DEF HostSuspected, Go, Pcs, StartPcs, LoopPcs, ChunkPcs, FinalPcs
<1>4. ASSUME NEW c \in Chains, HostAbsent(c) PROVE TypeOK'
  BY <1>4 DEF HostAbsent, Go, Pcs, StartPcs, LoopPcs, ChunkPcs, FinalPcs
<1>5. ASSUME NEW c \in Chains, Acquire(c) PROVE TypeOK'
  BY <1>5 DEF Acquire, Go, Pcs, StartPcs, LoopPcs, ChunkPcs, FinalPcs
<1>6. ASSUME NEW c \in Chains, AlreadyRunning(c) PROVE TypeOK'
  BY <1>6 DEF AlreadyRunning, Go, Pcs, StartPcs, LoopPcs, ChunkPcs, FinalPcs
<1>7. ASSUME NEW c \in Chains, StartReset(c) PROVE TypeOK'
  BY <1>7 DEF StartReset, ResetRows, Go, Pcs, StartPcs, LoopPcs, ChunkPcs, FinalPcs
<1>8. ASSUME NEW c \in Chains, StartKeeps(c) PROVE TypeOK'
  BY <1>8 DEF StartKeeps, Go, Pcs, StartPcs, LoopPcs, ChunkPcs, FinalPcs
<1>9. ASSUME NEW c \in Chains, StartFails(c) PROVE TypeOK'
  BY <1>9 DEF StartFails, Go, Pcs, StartPcs, LoopPcs, ChunkPcs, FinalPcs
<1>10. ASSUME NEW c \in Chains, StartClear(c) PROVE TypeOK'
  BY <1>10 DEF StartClear, Go, Pcs, StartPcs, LoopPcs, ChunkPcs, FinalPcs
<1>11. ASSUME NEW c \in Chains, Publish(c) PROVE TypeOK'
  BY <1>11 DEF Publish, Go, Pcs, StartPcs, LoopPcs, ChunkPcs, FinalPcs
<1>12. ASSUME NEW c \in Chains, Loaded(c) PROVE TypeOK'
  BY <1>12 DEF Loaded, ReadState, Go, Pcs, StartPcs, LoopPcs, ChunkPcs, FinalPcs
<1>13. ASSUME NEW c \in Chains, LoadFails(c) PROVE TypeOK'
  BY <1>13 DEF LoadFails, Go, Pcs, StartPcs, LoopPcs, ChunkPcs, FinalPcs
<1>14. ASSUME NEW c \in Chains, WriteAbort(c) PROVE TypeOK'
  BY <1>14 DEF WriteAbort, Go, Pcs, StartPcs, LoopPcs, ChunkPcs, FinalPcs
<1>15. ASSUME NEW c \in Chains, WriteSize(c) PROVE TypeOK'
  BY <1>15 DEF WriteSize, WriteBack, Go, Pcs, StartPcs, LoopPcs, ChunkPcs, FinalPcs
<1>16. ASSUME NEW c \in Chains, DatasetOpens(c) PROVE TypeOK'
  BY <1>16 DEF DatasetOpens, ReadState, Go, Pcs, StartPcs, LoopPcs, ChunkPcs, FinalPcs
<1>17. ASSUME NEW c \in Chains, ChainEnds(c) \/ CountFails(c) PROVE TypeOK'
  BY <1>17 DEF ChainEnds, CountFails, Go, Pcs, StartPcs, LoopPcs, ChunkPcs, FinalPcs
<1>18. ASSUME NEW c \in Chains, WriteDataset(c) PROVE TypeOK'
  BY <1>18 DEF WriteDataset, WriteBack, Go, Pcs, StartPcs, LoopPcs, ChunkPcs, FinalPcs
<1>19. ASSUME NEW c \in Chains, SymbolOpens(c) PROVE TypeOK'
  BY <1>19 DEF SymbolOpens, Go, Pcs, StartPcs, LoopPcs, ChunkPcs, FinalPcs
<1>20. ASSUME NEW c \in Chains, DatasetEnds(c) PROVE TypeOK'
  BY <1>20 DEF DatasetEnds, NextDataset, Go, Pcs, StartPcs, LoopPcs, ChunkPcs, FinalPcs
<1>21. ASSUME NEW c \in Chains, RefreshLock(c) PROVE TypeOK'
  BY <1>21 DEF RefreshLock, Go, Pcs, StartPcs, LoopPcs, ChunkPcs, FinalPcs
<1>22. ASSUME NEW c \in Chains, RefreshSkipped(c) PROVE TypeOK'
  BY <1>22 DEF RefreshSkipped, Go, Pcs, StartPcs, LoopPcs, ChunkPcs, FinalPcs
<1>23. ASSUME NEW c \in Chains, QuotaPasses(c) PROVE TypeOK'
  BY <1>23 DEF QuotaPasses, Go, Pcs, StartPcs, LoopPcs, ChunkPcs, FinalPcs
<1>24. ASSUME NEW c \in Chains, QuotaSaturated(c) PROVE TypeOK'
  BY <1>24 DEF QuotaSaturated, Go, Pcs, StartPcs, LoopPcs, ChunkPcs, FinalPcs
<1>25. ASSUME NEW c \in Chains, Wakes(c) PROVE TypeOK'
  BY <1>25 DEF Wakes, Go, Pcs, StartPcs, LoopPcs, ChunkPcs, FinalPcs
<1>26. ASSUME NEW c \in Chains, GateOpen(c) PROVE TypeOK'
  BY <1>26 DEF GateOpen, Go, Pcs, StartPcs, LoopPcs, ChunkPcs, FinalPcs
<1>27. ASSUME NEW c \in Chains, GateStop(c) PROVE TypeOK'
  BY <1>27 DEF GateStop, NextDataset, Go, Pcs, StartPcs, LoopPcs, ChunkPcs, FinalPcs
<1>28. ASSUME NEW c \in Chains, ReadProgress(c) PROVE TypeOK'
  BY <1>28 DEF ReadProgress, ReadState, Go, Pcs, StartPcs, LoopPcs, ChunkPcs, FinalPcs
<1>29. ASSUME NEW c \in Chains, WriteProgress(c) PROVE TypeOK'
  BY <1>29 DEF WriteProgress, WriteBack, Go, Pcs, StartPcs, LoopPcs, ChunkPcs, FinalPcs
<1>30. ASSUME NEW c \in Chains, SkipUnclaimed(c) PROVE TypeOK'
  BY <1>30 DEF SkipUnclaimed, Go, Pcs, StartPcs, LoopPcs, ChunkPcs, FinalPcs
<1>31. ASSUME NEW c \in Chains, Upsert(c) PROVE TypeOK'
  <2>1. Chunk(c) \in Nat \X Nat
    BY DEF Chunk
  <2>2. QED
    BY <1>31, <2>1 DEF Upsert, Go, Pcs, StartPcs, LoopPcs, ChunkPcs, FinalPcs
<1>32. ASSUME NEW c \in Chains, UpsertFails(c) PROVE TypeOK'
  BY <1>32 DEF UpsertFails, Go, Pcs, StartPcs, LoopPcs, ChunkPcs, FinalPcs
<1>33. ASSUME NEW c \in Chains, Record(c) PROVE TypeOK'
  BY <1>33 DEF Record, SetRow, Outcome, Chunk, Go, Pcs, StartPcs, LoopPcs, ChunkPcs, FinalPcs
<1>34. ASSUME NEW c \in Chains, IngestRaises(c) \/ NoClient(c) PROVE TypeOK'
  BY <1>34 DEF IngestRaises, NoClient, Strands, Go, Pcs, StartPcs, LoopPcs, ChunkPcs, FinalPcs
<1>35. ASSUME NEW c \in Chains, FinalRead(c) PROVE TypeOK'
  BY <1>35 DEF FinalRead, Go, Pcs, StartPcs, LoopPcs, ChunkPcs, FinalPcs
<1>36. ASSUME NEW c \in Chains, FinalWrite(c) PROVE TypeOK'
  BY <1>36 DEF FinalWrite, Go, Pcs, StartPcs, LoopPcs, ChunkPcs, FinalPcs
<1>37. ASSUME NEW c \in Chains, FinalStop(c) PROVE TypeOK'
  BY <1>37 DEF FinalStop, Go, Pcs, StartPcs, LoopPcs, ChunkPcs, FinalPcs
<1>38. ASSUME NEW c \in Chains, FinalOwns(c) PROVE TypeOK'
  BY <1>38 DEF FinalOwns, Go, Pcs, StartPcs, LoopPcs, ChunkPcs, FinalPcs
<1>39. ASSUME NEW c \in Chains, FinalLost(c) PROVE TypeOK'
  BY <1>39 DEF FinalLost, Retire, Go, Pcs, StartPcs, LoopPcs, ChunkPcs, FinalPcs
<1>40. ASSUME NEW c \in Chains, Release(c) PROVE TypeOK'
  BY <1>40 DEF Release, Retire, Go, Pcs, StartPcs, LoopPcs, ChunkPcs, FinalPcs
<1>41. ASSUME NEW c \in Chains, NEW next \in {"fetch", "skip"}, Claim(c, next) PROVE TypeOK'
  <2>1. pc' \in [Chains -> Pcs]
    BY <1>41 DEF Claim, Go, Pcs, StartPcs, LoopPcs, ChunkPcs, FinalPcs
  <2>2. row' \in [Chunks -> RowStatuses]
    BY <1>41 DEF Claim, SetRow
  <2>3. rowAge' = [rowAge EXCEPT ![Chunk(c)] = 0] /\ 0 \in 0..StuckAfter
    BY <1>41 DEF Claim, ClaimedAge
  <2>4. rowAge' \in [Chunks -> 0..StuckAfter]
    BY <2>3
  <2>5. QED
    BY <1>41, <2>1, <2>2, <2>4 DEF Claim
<1>42. ASSUME NEW c \in Chains, NEW next \in {"upsert", "fail"}, Fetched(c, next) PROVE TypeOK'
  BY <1>42 DEF Fetched, Go, Pcs, StartPcs, LoopPcs, ChunkPcs, FinalPcs
<1>43. ASSUME NEW p \in Polls, Poll(p) PROVE TypeOK'
  BY <1>43 DEF Poll, Step, Readers
<1>44. ASSUME NEW a \in Readers, SeeIdle(a) PROVE TypeOK'
  BY <1>44 DEF SeeIdle, Step
<1>45. ASSUME NEW a \in Readers, SeeActive(a) PROVE TypeOK'
  BY <1>45 DEF SeeActive, Step
<1>46. ASSUME NEW a \in Readers, SeeLock(a) PROVE TypeOK'
  BY <1>46 DEF SeeLock, Step
<1>47. ASSUME NEW a \in Readers, SeeNoLock(a) PROVE TypeOK'
  BY <1>47 DEF SeeNoLock, Step
<1>48. ASSUME NEW a \in Readers, Heal(a) PROVE TypeOK'
  BY <1>48 DEF Heal, Step
<1>49. ASSUME NEW a \in Readers, DropStop(a) PROVE TypeOK'
  BY <1>49 DEF DropStop, Step
<1>50. ASSUME NEW s \in Stops, StopSet(s) PROVE TypeOK'
  BY <1>50 DEF StopSet, Step, Readers
<1>51. ASSUME NEW s \in Stops, StopSees(s) PROVE TypeOK'
  BY <1>51 DEF StopSees, Step, Readers
<1>52. ASSUME NEW s \in Stops, StopSeesNone(s) PROVE TypeOK'
  BY <1>52 DEF StopSeesNone, Step, Readers
<1>53. ASSUME NEW s \in Stops, StopWrite(s) PROVE TypeOK'
  BY <1>53 DEF StopWrite, Step, Readers
<1>54. CASE AdminReset
  BY <1>54 DEF AdminReset, ResetRows
<1>55. ASSUME NEW w \in Workers, Crash(w) PROVE TypeOK'
  BY <1>55 DEF Crash, Strands, Retire, Pcs, StartPcs, LoopPcs, ChunkPcs, FinalPcs
<1>56. CASE Tick
  BY <1>56 DEF Tick, Later
<1>57. CASE UNCHANGED vars
  BY <1>57
<1>58. ASSUME NEW c \in Chains, StartStep(c) PROVE TypeOK'
  BY <1>58, <1>1, <1>2, <1>3, <1>4, <1>5, <1>6, <1>7, <1>8, <1>9, <1>10, <1>11 DEF StartStep
<1>59. ASSUME NEW c \in Chains, LoopStep(c) PROVE TypeOK'
  BY <1>59, <1>12, <1>13, <1>14, <1>15, <1>16, <1>17, <1>18, <1>19, <1>20, <1>21, <1>22, <1>23, <1>24, <1>25, <1>26, <1>27, <1>28, <1>29 DEF LoopStep
<1>60. ASSUME NEW c \in Chains, ChunkStep(c) PROVE TypeOK'
  BY <1>60, <1>30, <1>31, <1>32, <1>33, <1>34, <1>41, <1>42 DEF ChunkStep
<1>61. ASSUME NEW c \in Chains, FinalStep(c) PROVE TypeOK'
  BY <1>61, <1>35, <1>36, <1>37, <1>38, <1>39, <1>40 DEF FinalStep
<1>62. ASSUME NEW a \in Readers, ReadStep(a) PROVE TypeOK'
  BY <1>62, <1>44, <1>45, <1>46, <1>47, <1>48, <1>49 DEF ReadStep
<1>63. ASSUME NEW s \in Stops, StopStep(s) PROVE TypeOK'
  BY <1>63, <1>50, <1>51, <1>52, <1>53 DEF StopStep
<1>64. QED
  BY <1>58, <1>59, <1>60, <1>61, <1>62, <1>63, <1>43, <1>54, <1>55, <1>56, <1>57 DEF Next

\* The type invariant holds in every reachable state.
THEOREM TypeCorrect == Spec => []TypeOK
  BY InitType, NextType, PTL DEF Spec

-----------------------------------------------------------------------------
(* The lock.                                                                *)

LockInv == \A c \in Chains : Holding(c) => lock = c

\* What a step of chain c does to the lock: nothing, while it holds what it held or
\* ends; or it wins the lock nobody had; or, holding it, it sets it or drops it.
LockEffect(c) ==
    /\ \A d \in Chains \ {c} : pc'[d] = pc[d]
    /\ asked' = asked
    /\ \/ lock' = lock /\ (Holding(c)' => Holding(c))
       \/ lock = NoChain /\ lock' = c
       \/ pc[c] = "refresh" /\ lock' = c
       \/ pc[c] = "release" /\ lock' = NoChain /\ ~Holding(c)'

LEMMA LockEffects ==
    ASSUME TypeOK, NEW c \in Chains,
           StartStep(c) \/ LoopStep(c) \/ ChunkStep(c) \/ FinalStep(c)
    PROVE  LockEffect(c)
<1> USE DEF keyVars, lockVars, rowVars, posVars, timeVars, taskVars, reqVars, histVars,
            Go, Holding, Live, LoopPcs, ChunkPcs, FinalPcs, LockEffect
<1>0. pc \in [Chains -> Pcs]
  BY DEF TypeOK
<1>1. CASE StartStep(c)
  BY <1>0, <1>1 DEF StartStep, HostCheckLocked, HostCheckFree, HostSuspected, HostAbsent,
     Acquire, AlreadyRunning, StartReset, StartKeeps, StartFails, StartClear, Publish
<1>2. CASE LoopStep(c)
  BY <1>0, <1>2 DEF LoopStep, Loaded, LoadFails, WriteAbort, WriteSize, DatasetOpens,
     CountFails, ChainEnds, WriteDataset, SymbolOpens, DatasetEnds, RefreshLock,
     RefreshSkipped, QuotaPasses, QuotaSaturated, Wakes, GateOpen, GateStop, ReadProgress,
     WriteProgress, ReadState, WriteBack
<1>3. CASE ChunkStep(c)
  BY <1>0, <1>3 DEF ChunkStep, Claim, SkipUnclaimed, NoClient, Fetched, Upsert, UpsertFails,
     Record, IngestRaises
<1>4. CASE FinalStep(c)
  BY <1>0, <1>4 DEF FinalStep, FinalRead, FinalWrite, FinalStop, FinalOwns, FinalLost,
     Release, Retire
<1>5. QED
  BY <1>1, <1>2, <1>3, <1>4

\* Requests that watch or stop leave chains, rows and the lock alone, and no chain's
\* lapse is forgotten.
LEMMA RequestEffects ==
    ASSUME \/ \E p \in Polls : Poll(p)
           \/ \E a \in Readers : ReadStep(a)
           \/ \E s \in Stops : StopStep(s)
           \/ UNCHANGED vars
    PROVE  /\ UNCHANGED <<pc, ds, sym, spent, row, rowAge, data, lock, stranded, crashes>>
           /\ TypeOK => \A c \in Chains : asked[c] = "lapsed" => asked'[c] = "lapsed"
<1> USE DEF vars, keyVars, lockVars, rowVars, posVars, timeVars, taskVars, reqVars, histVars
<1>1. CASE \E p \in Polls : Poll(p)
  BY <1>1 DEF Poll
<1>2. CASE \E a \in Readers : ReadStep(a)
  BY <1>2 DEF ReadStep, SeeIdle, SeeActive, SeeLock, SeeNoLock, Heal, DropStop
<1>3. CASE \E s \in Stops : StopStep(s)
  BY <1>3 DEF StopStep, StopSet, StopSees, StopSeesNone, StopWrite
<1>4. QED
  BY <1>1, <1>2, <1>3

\* A lock that expires under its chain is not forgotten.
LEMMA OutlivedStays == TypeOK /\ Outlived /\ [Next]_vars => Outlived'
<1> SUFFICES ASSUME TypeOK, [Next]_vars, NEW d \in Chains, asked[d] = "lapsed"
             PROVE  asked'[d] = "lapsed"
  BY DEF Outlived
<1>1. ASSUME NEW c \in Chains, StartStep(c) \/ LoopStep(c) \/ ChunkStep(c) \/ FinalStep(c)
      PROVE  asked'[d] = "lapsed"
  BY <1>1, LockEffects DEF LockEffect
<1>2. CASE AdminReset \/ Tick \/ \E w \in Workers : Crash(w)
  BY <1>2 DEF AdminReset, Tick, Crash, histVars
<1>3. QED
  BY <1>1, <1>2, RequestEffects DEF Next

LEMMA NextLock ==
    TypeOK /\ (Outlived \/ LockInv) /\ [Next]_vars => (Outlived \/ LockInv)'
<1> SUFFICES ASSUME TypeOK, LockInv, ~Outlived, [Next]_vars, ~Outlived',
                    NEW d \in Chains, Holding(d)'
             PROVE  lock' = d
  BY OutlivedStays DEF LockInv
<1> USE DEF LockInv
<1>1. ASSUME NEW c \in Chains, StartStep(c) \/ LoopStep(c) \/ ChunkStep(c) \/ FinalStep(c)
      PROVE  lock' = d
  <2>1. LockEffect(c)
    BY <1>1, LockEffects
  <2>2. CASE d = c
    BY <2>1, <2>2 DEF LockEffect, Holding, Live, LoopPcs, ChunkPcs, FinalPcs
  <2>3. CASE d # c
    <3>1. Holding(d) /\ lock = d /\ ~Holding(c) /\ lock # NoChain
      BY <2>1, <2>3 DEF LockEffect, Holding, Live
    <3>2. QED
      BY <2>1, <3>1 DEF LockEffect, Holding, Live, LoopPcs, FinalPcs
  <2>4. QED
    BY <2>2, <2>3
<1>2. CASE \/ \E p \in Polls : Poll(p)
           \/ \E a \in Readers : ReadStep(a)
           \/ \E s \in Stops : StopStep(s)
           \/ UNCHANGED vars
  BY <1>2, RequestEffects DEF Holding, Live
<1>3. CASE AdminReset
  BY <1>3 DEF AdminReset, keyVars, lockVars, taskVars, Holding, Live
<1>4. CASE Tick
  <2>1. pc' = pc /\ (lock' = lock \/ (lock' = NoChain /\ lockLeft <= 1))
    BY <1>4 DEF Tick, TypeOK
  <2>2. lock = d /\ Holding(d)
    BY <2>1 DEF Holding, Live
  <2>3. asked'[d] # "lapsed"
    BY DEF Outlived
  <2>4. ~(lockLeft <= 1)
    BY <1>4, <2>2, <2>3 DEF Tick, Expires, TypeOK
  <2>5. QED
    BY <2>1, <2>2, <2>4
<1>5. ASSUME NEW w \in Workers, Crash(w) PROVE lock' = d
  BY <1>5 DEF Crash, Retire, keyVars, lockVars, Holding, Live, LoopPcs, ChunkPcs, FinalPcs
<1>6. QED
  BY <1>1, <1>2, <1>3, <1>4, <1>5 DEF Next

LEMMA LockInvariant == Spec => [](Outlived \/ LockInv)
<1>1. Init => LockInv
  BY DEF Init, LockInv, Holding, Live, LoopPcs, ChunkPcs, FinalPcs
<1>2. QED
  BY <1>1, NextLock, TypeCorrect, PTL DEF Spec

\* Whatever crashes, however long a load, a fetch or a wait for quota takes, the first
\* thing to go wrong is that a lock expires under its chain: until then there is one
\* chain, and no task is without its lock.
THEOREM LockedUntilOutlived == Spec => [](Outlived \/ (OneChain /\ LockedWhileLive))
<1>1. LockInv => OneChain /\ LockedWhileLive
  BY DEF LockInv, Holding, OneChain, LockedWhileLive
<1>2. QED
  BY <1>1, LockInvariant, PTL

\* A chain only refreshes and only releases a lock of its own, although it sets and
\* deletes the key unconditionally, until a lock has expired under its chain.
THEOREM LockIsOwn == Spec => RefreshOwn /\ ReleaseOwn
<1>1. Outlived \/ LockInv =>
          /\ [\A c \in Chains : pc[c] = "refresh" /\ lock' # lock => lock = c \/ Outlived]_vars
          /\ [\A c \in Chains : pc[c] = "release" /\ pc'[c] = "over" /\ lock' # lock
                                => lock = c \/ Outlived]_vars
  BY DEF LockInv, Holding, Live, LoopPcs, FinalPcs
<1>2. QED
  BY <1>1, LockInvariant, PTL DEF RefreshOwn, ReleaseOwn

-----------------------------------------------------------------------------
(* The rows of the ledger, and what works on them.                          *)

Working(c) == pc[c] \in {"fetch", "upsert", "finish", "fail", "skip"}
\* Whoever is between two slow steps has spent nothing yet.
Rested(c) == ~Slow(c) => spent[c] = 0

\* A step of chain c leaves the other chains where they are, and the crashes.
Alone(c) ==
    /\ \A d \in Chains \ {c} : /\ pc'[d] = pc[d] /\ ds'[d] = ds[d] /\ sym'[d] = sym[d]
                               /\ spent'[d] = spent[d]
    /\ spent'[c] = 0 /\ crashes' = crashes
\* It is not about a chunk; it claims one; it works on it; it records the outcome, or
\* strands the chunk.
Outside(c) ==
    /\ ~Working(c) /\ ~Working(c)' /\ stranded \subseteq stranded' /\ data' = data
    /\ ResetRows \/ UNCHANGED <<row, rowAge>>
Claims(c) ==
    /\ ~Working(c) /\ pc'[c] \in {"fetch", "skip"} /\ ds'[c] = ds[c] /\ sym'[c] = sym[c]
    /\ row' = [row EXCEPT ![Chunk(c)] = "running"]
    /\ rowAge' = [rowAge EXCEPT ![Chunk(c)] = 0]
    /\ stranded' = stranded \ {Chunk(c)} /\ data' = data
Works(c) ==
    /\ Working(c) /\ Working(c)' /\ pc'[c] # "fetch" /\ ds'[c] = ds[c] /\ sym'[c] = sym[c]
    /\ data \subseteq data' /\ (pc'[c] = "finish" => Chunk(c) \in data')
    /\ UNCHANGED <<row, rowAge, stranded>>
Records(c) ==
    /\ Working(c) /\ ~Working(c)' /\ rowAge' = rowAge /\ stranded \subseteq stranded'
    /\ data' = data
    /\ \/ \E v \in {"done", "failed", "skipped"} :
              row' = [row EXCEPT ![Chunk(c)] = v] /\ (v = "done" => pc[c] = "finish")
       \/ row' = row /\ \A k \in Chunks : Ingesting(c, k) => k \in stranded'
ChainEffect(c) == Alone(c) /\ (Outside(c) \/ Claims(c) \/ Works(c) \/ Records(c))

LEMMA ChainEffects ==
    ASSUME TypeOK, NEW c \in Chains, Rested(c),
           StartStep(c) \/ LoopStep(c) \/ ChunkStep(c) \/ FinalStep(c)
    PROVE  ChainEffect(c)
<1> USE DEF vars, keyVars, lockVars, rowVars, posVars, timeVars, taskVars, reqVars,
            histVars
<1>0. /\ pc \in [Chains -> Pcs] /\ spent \in [Chains -> Nat]
      /\ ds \in [Chains -> Nat] /\ sym \in [Chains -> Nat]
  BY DEF TypeOK
<1>1. CASE StartStep(c)
  <2>1. data' = data
    BY <1>1 DEF StartStep, HostCheckLocked, HostCheckFree, HostSuspected, HostAbsent, Acquire,
       AlreadyRunning, StartReset, ResetRows, StartKeeps, StartFails, StartClear, Publish
  <2>2. QED
    BY <1>0, <1>1, <2>1 DEF StartStep, HostCheckLocked, HostCheckFree, HostSuspected,
       HostAbsent, Acquire, AlreadyRunning, StartReset, StartKeeps, StartFails, StartClear,
       Publish, Go, Rested, Slow, Working, ChainEffect, Alone, Outside
<1>2. CASE FinalStep(c)
  BY <1>0, <1>2 DEF FinalStep, FinalRead, FinalWrite, FinalStop, FinalOwns, FinalLost, Release,
     Retire, Go, Rested, Slow, Working, ChainEffect, Alone, Outside
<1>3. CASE ChunkStep(c)
  <2>1. ASSUME NEW next \in {"fetch", "skip"}, Claim(c, next) PROVE ChainEffect(c)
    BY <1>0, <2>1 DEF Claim, SetRow, ClaimedAge, Go, Rested, Slow, Working, ChainEffect, Alone,
       Claims
  <2>2. CASE SkipUnclaimed(c)
    BY <1>0, <2>2 DEF SkipUnclaimed, Go, Rested, Slow, Working, ChainEffect, Alone, Outside
  <2>3. ASSUME NEW next \in {"upsert", "fail"}, Fetched(c, next) PROVE ChainEffect(c)
    BY <1>0, <2>3 DEF Fetched, Go, Working, ChainEffect, Alone, Works
  <2>4. CASE Upsert(c) \/ UpsertFails(c)
    BY <1>0, <2>4 DEF Upsert, UpsertFails, Go, Rested, Slow, Working, ChainEffect, Alone, Works
  <2>5. CASE Record(c)
    BY <1>0, <2>5 DEF Record, SetRow, Outcome, Go, Rested, Slow, Working, ChainEffect, Alone,
       Records
  <2>6. CASE IngestRaises(c)
    BY <1>0, <2>6 DEF IngestRaises, Strands, Go, Rested, Slow, Working, ChainEffect, Alone,
       Records, Outside
  <2>7. CASE NoClient(c)
    BY <1>0, <2>7 DEF NoClient, Strands, Go, Working, ChainEffect, Alone, Records
  <2>8. QED
    BY <1>3, <2>1, <2>2, <2>3, <2>4, <2>5, <2>6, <2>7 DEF ChunkStep
<1>4. CASE LoopStep(c)
  <2>1. CASE Loaded(c) \/ LoadFails(c) \/ WriteAbort(c) \/ WriteSize(c)
    BY <1>0, <2>1 DEF Loaded, LoadFails, WriteAbort, WriteSize, ReadState, WriteBack, Go,
       Rested, Slow, Working, ChainEffect, Alone, Outside
  <2>2. CASE \/ DatasetOpens(c) \/ CountFails(c) \/ ChainEnds(c) \/ WriteDataset(c)
             \/ SymbolOpens(c)
    BY <1>0, <2>2 DEF DatasetOpens, CountFails, ChainEnds, WriteDataset, SymbolOpens, ReadState, WriteBack,
       Go, Rested, Slow, Working, ChainEffect, Alone, Outside
  <2>3. CASE DatasetEnds(c) \/ GateStop(c)
    BY <1>0, <2>3 DEF DatasetEnds, GateStop, NextDataset, Go, Rested, Slow, Working,
       ChainEffect, Alone, Outside
  <2>4. CASE RefreshLock(c) \/ RefreshSkipped(c) \/ QuotaPasses(c) \/ GateOpen(c)
    BY <1>0, <2>4 DEF RefreshLock, RefreshSkipped, QuotaPasses, GateOpen, Go, Rested, Slow,
       Working, ChainEffect, Alone, Outside
  <2>5. CASE QuotaSaturated(c) \/ Wakes(c)
    BY <1>0, <2>5 DEF QuotaSaturated, Wakes, Go, Rested, Slow, Working, ChainEffect, Alone,
       Outside
  <2>6. CASE ReadProgress(c) \/ WriteProgress(c)
    BY <1>0, <2>6 DEF ReadProgress, WriteProgress, ReadState, WriteBack, Go, Rested, Slow,
       Working, ChainEffect, Alone, Outside
  <2>7. QED
    BY <1>4, <2>1, <2>2, <2>3, <2>4, <2>5, <2>6 DEF LoopStep
<1>5. QED
  BY <1>1, <1>2, <1>3, <1>4

\* A chunk at work was claimed no longer ago than its fetch has taken.
Fresh(c) ==
    /\ Rested(c)
    /\ pc[c] = "fetch" => spent[c] <= ChunkMax
    /\ \A k \in Chunks : Ingesting(c, k) =>
           /\ rowAge[k] <= ChunkMax
           /\ pc[c] = "fetch" => rowAge[k] <= spent[c]
FreshInv == \A c \in Chains : Fresh(c)

\* Resetting makes no row older.
LEMMA ResetAge ==
    ASSUME TypeOK, ResetRows \/ UNCHANGED <<row, rowAge>>, NEW k \in Chunks
    PROVE  rowAge'[k] <= rowAge[k] /\ rowAge'[k] \in Nat
  BY DEF ResetRows, TypeOK

LEMMA NextFresh == TypeOK /\ FreshInv /\ [Next]_vars => FreshInv'
<1> SUFFICES ASSUME TypeOK, FreshInv, [Next]_vars, NEW d \in Chains PROVE Fresh(d)'
  BY DEF FreshInv
<1> USE DEF vars, keyVars, lockVars, rowVars, posVars, timeVars, taskVars, reqVars,
            histVars
<1>0. /\ Fresh(d) /\ ChunkMax \in Nat /\ StuckAfter \in Nat
      /\ spent \in [Chains -> Nat] /\ rowAge \in [Chunks -> 0..StuckAfter]
      /\ pc \in [Chains -> Pcs]
  BY DEF TypeOK, FreshInv
\* Where the rows grow no older and the chain stays where it is.
<1>1. ASSUME pc'[d] = pc[d], ds'[d] = ds[d], sym'[d] = sym[d], spent'[d] = spent[d],
             \A k \in Chunks : rowAge'[k] <= rowAge[k] /\ rowAge'[k] \in Nat
      PROVE  Fresh(d)'
  <2>1. \A k \in Chunks : Ingesting(d, k)' = Ingesting(d, k)
    BY <1>1 DEF Ingesting, Chunk
  <2>2. \A k \in Chunks : rowAge[k] \in Nat
    BY <1>0
  <2>3. QED
    BY <1>0, <1>1, <2>1, <2>2 DEF Fresh, Rested, Slow
<1>2. CASE \/ \E p \in Polls : Poll(p)
           \/ \E a \in Readers : ReadStep(a)
           \/ \E s \in Stops : StopStep(s)
           \/ UNCHANGED vars
  <2>1. UNCHANGED <<pc, ds, sym, spent, row, rowAge>>
    BY <1>2, RequestEffects
  <2>2. QED
    BY <1>1, <2>1, ResetAge
<1>3. CASE AdminReset
  BY <1>1, <1>3, ResetAge DEF AdminReset
<1>4. ASSUME NEW w \in Workers, Crash(w) PROVE Fresh(d)'
  <2>1. UNCHANGED <<row, rowAge>>
    BY <1>4 DEF Crash
  <2>2. CASE at[d] = w /\ Holding(d)
    BY <1>4, <2>2 DEF Crash, Retire, Fresh, Rested, Ingesting
  <2>3. CASE ~(at[d] = w /\ Holding(d))
    BY <1>1, <1>4, <2>1, <2>3, ResetAge DEF Crash, Retire
  <2>4. QED
    BY <2>2, <2>3
<1>5. CASE Tick
  <2>1. /\ pc' = pc /\ ds' = ds /\ sym' = sym
        /\ spent'[d] = IF Slow(d) THEN spent[d] + 1 ELSE spent[d]
        /\ Holding(d) => spent[d] < Patience(d)
        /\ \A k \in Chunks : rowAge'[k] <= rowAge[k] + 1
    BY <1>0, <1>5 DEF Tick, Later
  <2>2. Slow(d)' = Slow(d) /\ \A k \in Chunks : Ingesting(d, k)' = Ingesting(d, k)
    BY <2>1 DEF Slow, Ingesting, Chunk
  <2>3. CASE Working(d)
    <3>1. Holding(d)
      BY <2>3 DEF Working, Holding, Live, LoopPcs, ChunkPcs
    <3>2. pc[d] = "fetch"
      BY <1>0, <2>1, <2>3, <3>1 DEF Working, Patience, Fresh, Rested, Slow
    <3>3. spent[d] < ChunkMax /\ spent'[d] = spent[d] + 1
      BY <2>1, <3>1, <3>2 DEF Patience, Slow
    <3>4. ASSUME NEW k \in Chunks, Ingesting(d, k)
          PROVE  rowAge'[k] <= spent'[d] /\ rowAge'[k] <= ChunkMax
      <4>1. rowAge[k] <= spent[d] /\ rowAge[k] \in Nat /\ rowAge'[k] <= rowAge[k] + 1
        BY <1>0, <2>1, <3>2, <3>4 DEF Fresh
      <4>2. rowAge'[k] \in Int
        BY <1>0, <1>5 DEF Tick, Later
      <4>3. QED
        BY <1>0, <3>3, <4>1, <4>2
    <3>5. QED
      BY <1>0, <2>1, <2>2, <3>2, <3>3, <3>4 DEF Fresh, Rested, Slow
  <2>4. CASE ~Working(d)
    BY <1>0, <2>1, <2>2, <2>4 DEF Working, Fresh, Rested, Slow, Ingesting
  <2>5. QED
    BY <2>3, <2>4
<1>6. ASSUME NEW c \in Chains, StartStep(c) \/ LoopStep(c) \/ ChunkStep(c) \/ FinalStep(c)
      PROVE  Fresh(d)'
  <2>1. ChainEffect(c)
    BY <1>6, ChainEffects DEF FreshInv, Fresh
  <2>2. \A k \in Chunks : /\ rowAge'[k] <= rowAge[k] /\ rowAge'[k] \in Nat
                          /\ Claims(c) /\ k = Chunk(c) => rowAge'[k] = 0
    <3>1. CASE Outside(c)
      BY <3>1, ResetAge DEF Outside, Claims, Working
    <3>2. CASE Claims(c)
      BY <1>0, <3>2 DEF Claims
    <3>3. CASE Works(c) \/ Records(c)
      BY <1>0, <3>3 DEF Works, Records, Claims
    <3>4. QED
      BY <2>1, <3>1, <3>2, <3>3 DEF ChainEffect
  <2>3. CASE d # c
    BY <1>1, <2>1, <2>2, <2>3 DEF ChainEffect, Alone
  <2>4. CASE d = c
    <3>1. spent'[d] = 0
      BY <2>1, <2>4 DEF ChainEffect, Alone
    <3>2. CASE ~Working(d)'
      BY <1>0, <3>1, <3>2 DEF Working, Fresh, Rested, Ingesting
    <3>3. CASE Claims(c)
      <4>1. \A k \in Chunks : Ingesting(d, k)' => rowAge'[k] = 0
        BY <2>2, <2>4, <3>3 DEF Claims, Ingesting, Chunk
      <4>2. QED
        BY <1>0, <3>1, <4>1 DEF Fresh, Rested
    <3>4. CASE Works(c)
      <4>1. \A k \in Chunks : Ingesting(d, k)' => Ingesting(d, k)
        BY <2>4, <3>4 DEF Works, Working, Ingesting, Chunk
      <4>2. \A k \in Chunks : rowAge[k] \in Nat
        BY <1>0
      <4>3. QED
        BY <1>0, <2>2, <2>4, <3>1, <3>4, <4>1, <4>2 DEF Works, Fresh, Rested
    <3>5. QED
      BY <2>1, <2>4, <3>2, <3>3, <3>4 DEF ChainEffect, Outside, Records
  <2>5. QED
    BY <2>3, <2>4
<1>7. QED
  BY <1>2, <1>3, <1>4, <1>5, <1>6 DEF Next

LEMMA FreshInvariant == Spec => []FreshInv
<1>1. Init => FreshInv
  BY DEF Init, FreshInv, Fresh, Rested, Ingesting
<1>2. QED
  BY <1>1, NextFresh, TypeCorrect, PTL DEF Spec

\* Where a chunk takes less time than a running row may have before it counts as
\* stuck, no reset takes a chunk back that a chain is working on, however many chains
\* there are and whether or not they have the lock.
THEOREM ResetIsSafe == ChunkMax < StuckAfter => (Spec => ResetOnlyStuck)
<1> SUFFICES ASSUME ChunkMax < StuckAfter PROVE Spec => ResetOnlyStuck
  OBVIOUS
<1>1. ASSUME TypeOK, FreshInv, [Next]_vars, NEW k \in Chunks, row[k] = "running",
             row'[k] = "pending", NEW d \in Chains, Ingesting(d, k)
      PROVE  FALSE
  <2> USE DEF vars, keyVars, lockVars, rowVars, posVars, timeVars, taskVars, reqVars,
            histVars
  <2>1. ~Stuck(k)
    BY <1>1 DEF FreshInv, Fresh, Stuck, TypeOK
  <2>2. ~ResetRows /\ row'[k] # row[k]
    BY <1>1, <2>1 DEF ResetRows
  <2>3. ASSUME NEW c \in Chains, StartStep(c) \/ LoopStep(c) \/ ChunkStep(c) \/ FinalStep(c)
        PROVE  FALSE
    <3>1. ChainEffect(c)
      BY <1>1, <2>3, ChainEffects DEF FreshInv, Fresh
    <3>2. QED
      BY <1>1, <2>2, <3>1 DEF ChainEffect, Outside, Claims, Works, Records, TypeOK
  <2>4. CASE \/ \E p \in Polls : Poll(p)
             \/ \E a \in Readers : ReadStep(a)
             \/ \E s \in Stops : StopStep(s)
             \/ UNCHANGED vars
    BY <2>2, <2>4, RequestEffects
  <2>5. CASE AdminReset \/ Tick \/ \E w \in Workers : Crash(w)
    BY <2>2, <2>5 DEF AdminReset, Tick, Crash
  <2>6. QED
    BY <1>1, <2>3, <2>4, <2>5 DEF Next
<1>2. TypeOK /\ FreshInv /\ [Next]_vars =>
          [\A k \in Chunks : row[k] = "running" /\ row'[k] = "pending"
                             => \A c \in Chains : ~Ingesting(c, k)]_vars
  BY <1>1
<1>3. QED
  BY <1>2, FreshInvariant, TypeCorrect, PTL DEF Spec, ResetOnlyStuck

LEMMA NextRun ==
    TypeOK /\ FreshInv /\ NoRowLeftRunning /\ [Next]_vars => NoRowLeftRunning'
<1> SUFFICES ASSUME TypeOK, FreshInv, NoRowLeftRunning, [Next]_vars,
                    NEW k \in Chunks, row'[k] = "running", k \notin stranded'
             PROVE  \E c \in Chains : Ingesting(c, k)'
  BY DEF NoRowLeftRunning
<1> USE DEF vars, keyVars, lockVars, rowVars, posVars, timeVars, taskVars, reqVars,
            histVars
<1>1. ASSUME stranded \subseteq stranded', row[k] = "running"
      PROVE  \E c \in Chains : Ingesting(c, k)
  BY <1>1 DEF NoRowLeftRunning
<1>2. ASSUME UNCHANGED <<pc, ds, sym, stranded>>, row[k] = "running"
      PROVE  \E c \in Chains : Ingesting(c, k)'
  BY <1>1, <1>2 DEF Ingesting, Chunk
<1>3. CASE \/ \E p \in Polls : Poll(p)
           \/ \E a \in Readers : ReadStep(a)
           \/ \E s \in Stops : StopStep(s)
           \/ UNCHANGED vars
  BY <1>2, <1>3, RequestEffects
<1>4. CASE AdminReset \/ Tick
  <2>1. row[k] = "running"
    BY <1>4 DEF AdminReset, ResetRows, Tick, TypeOK
  <2>2. QED
    BY <1>2, <1>4, <2>1 DEF AdminReset, Tick
<1>5. ASSUME NEW w \in Workers, Crash(w) PROVE \E c \in Chains : Ingesting(c, k)'
  <2>1. stranded \subseteq stranded' /\ row' = row
    BY <1>5 DEF Crash, Strands
  <2>2. PICK d \in Chains : Ingesting(d, k)
    BY <1>1, <2>1
  <2>3. at[d] # w
    BY <1>5, <2>2 DEF Crash, Strands
  <2>4. Ingesting(d, k)'
    BY <1>5, <2>2, <2>3 DEF Crash, Retire, Ingesting, Chunk
  <2>5. QED
    BY <2>4
<1>6. ASSUME NEW c \in Chains, StartStep(c) \/ LoopStep(c) \/ ChunkStep(c) \/ FinalStep(c)
      PROVE  \E d \in Chains : Ingesting(d, k)'
  <2>1. ChainEffect(c)
    BY <1>6, ChainEffects DEF FreshInv, Fresh
  <2>2. CASE Claims(c) /\ k = Chunk(c)
    <3>1. Ingesting(c, k)'
      BY <2>2 DEF Claims, Ingesting, Chunk
    <3>2. QED
      BY <3>1
  <2>3. CASE ~(Claims(c) /\ k = Chunk(c))
    <3>1. row[k] = "running" /\ k \notin stranded
      BY <2>1, <2>3 DEF ChainEffect, Outside, Claims, Works, Records, ResetRows, TypeOK
    <3>2. PICK d \in Chains : Ingesting(d, k)
      BY <3>1 DEF NoRowLeftRunning
    <3>3. CASE d # c
      <4>1. Ingesting(d, k)'
        BY <2>1, <3>2, <3>3 DEF ChainEffect, Alone, Ingesting, Chunk
      <4>2. QED
        BY <4>1
    <3>4. CASE d = c
      <4>1. Working(c) /\ Chunk(c) = k
        BY <3>2, <3>4 DEF Ingesting, Working
      <4>2. ~Records(c)
        BY <3>2, <3>4, <4>1 DEF Records, TypeOK
      <4>3. Works(c)
        BY <2>1, <4>1, <4>2 DEF ChainEffect, Outside, Claims
      <4>4. Ingesting(c, k)'
        BY <4>1, <4>3 DEF Works, Working, Ingesting, Chunk
      <4>5. QED
        BY <4>4
    <3>5. QED
      BY <3>3, <3>4
  <2>4. QED
    BY <2>2, <2>3
<1>7. QED
  BY <1>3, <1>4, <1>5, <1>6 DEF Next

\* A row is "running" only while a chain works on it or after its chain broke off in the
\* three ways that "stranded" names, however many chains run on the same chunks.
THEOREM OutcomeIsRecorded == Spec => []NoRowLeftRunning
<1>1. Init => NoRowLeftRunning
  BY DEF Init, NoRowLeftRunning
<1>2. QED
  BY <1>1, NextRun, FreshInvariant, TypeCorrect, PTL DEF Spec

\* Nobody is about to record "done" before the rows are committed.
Truthful(c) == pc[c] = "finish" => Chunk(c) \in data
LedgerInv == DoneIsWritten /\ \A c \in Chains : Truthful(c)

LEMMA NextLedger == TypeOK /\ FreshInv /\ LedgerInv /\ [Next]_vars => LedgerInv'
<1> SUFFICES ASSUME TypeOK, FreshInv, LedgerInv, [Next]_vars PROVE LedgerInv'
  OBVIOUS
<1> USE DEF vars, keyVars, lockVars, rowVars, posVars, timeVars, taskVars, reqVars,
            histVars, LedgerInv, DoneIsWritten
<1>0. pc \in [Chains -> Pcs] /\ row \in [Chunks -> RowStatuses]
  BY DEF TypeOK
<1>1. ASSUME NEW c \in Chains, StartStep(c) \/ LoopStep(c) \/ ChunkStep(c) \/ FinalStep(c)
      PROVE  LedgerInv'
  <2>1. ChainEffect(c)
    BY <1>1, ChainEffects DEF FreshInv, Fresh
  <2>2. data \subseteq data'
    BY <2>1 DEF ChainEffect, Outside, Claims, Works, Records
  <2>3. \A k \in Chunks : row'[k] = "done" => k \in data
    <3>1. CASE Outside(c)
      BY <1>0, <3>1 DEF Outside, ResetRows
    <3>2. CASE Claims(c) \/ Works(c)
      BY <1>0, <3>2 DEF Claims, Works
    <3>3. CASE Records(c)
      BY <1>0, <3>3 DEF Records, Truthful
    <3>4. QED
      BY <2>1, <3>1, <3>2, <3>3 DEF ChainEffect
  <2>4. ASSUME NEW d \in Chains PROVE Truthful(d)'
    <3>1. CASE d # c
      BY <2>1, <2>2, <3>1 DEF ChainEffect, Alone, Truthful, Chunk
    <3>2. CASE d = c
      BY <2>1, <3>2 DEF ChainEffect, Outside, Claims, Works, Records, Working, Truthful, Chunk
    <3>3. QED
      BY <3>1, <3>2
  <2>5. QED
    BY <2>2, <2>3, <2>4
<1>2. CASE \/ \E p \in Polls : Poll(p)
           \/ \E a \in Readers : ReadStep(a)
           \/ \E s \in Stops : StopStep(s)
           \/ UNCHANGED vars
  BY <1>2, RequestEffects DEF Truthful, Chunk
<1>3. CASE AdminReset
  BY <1>0, <1>3 DEF AdminReset, ResetRows, Truthful, Chunk
<1>4. ASSUME NEW w \in Workers, Crash(w) PROVE LedgerInv'
  BY <1>0, <1>4 DEF Crash, Retire, Truthful, Chunk
<1>5. CASE Tick
  BY <1>5 DEF Tick, Truthful, Chunk
<1>6. QED
  BY <1>1, <1>2, <1>3, <1>4, <1>5 DEF Next

\* The ledger never says "done" of a chunk whose rows are not committed, however
\* many chains run and whatever dies.
THEOREM LedgerIsTrue == Spec => []DoneIsWritten
<1>1. Init => LedgerInv
  BY DEF Init, LedgerInv, DoneIsWritten, Truthful
<1>2. LedgerInv => DoneIsWritten
  BY DEF LedgerInv
<1>3. QED
  BY <1>1, <1>2, NextLedger, FreshInvariant, TypeCorrect, PTL DEF Spec

-----------------------------------------------------------------------------
(* A stop is heard.  Until a lock expires under its chain, only that chain's  *)
(* own start and end drop the flag, or a request that took it for dead; and   *)
(* the flag outlives whatever the chain is waiting for.                       *)

FlagOutlivesSteps == LoadMax < StopTTL /\ ChunkMax < StopTTL /\ QuotaSleep < StopTTL

Waiting(c) == Slow(c) \/ pc[c] = "claim"
\* The flag is there, as old at most as the wait the chain is in.
Flagged(c) == pc[c] \in LoopPcs /\ asked[c] = "yes" =>
    stop > 0 /\ (Waiting(c) => stop + spent[c] >= StopTTL)
Timed(c) == (~Slow(c) => spent[c] = 0) /\ (Slow(c) => spent[c] <= Patience(c))
\* Nobody asks a chain to stop before its task begins.
Unasked(c) == pc[c] \in StartPcs => asked[c] # "yes"
Heeds(c) == Timed(c) /\ Unasked(c) /\ Flagged(c)
StopInv == \A c \in Chains : Heeds(c)

LEMMA StartHeeds ==
    ASSUME TypeOK, NEW c \in Chains, Heeds(c), StartStep(c)
    PROVE  Heeds(c)'
<1> USE DEF TypeOK, keyVars, lockVars, rowVars, posVars, timeVars, taskVars, reqVars,
            histVars, Heeds, Timed, Unasked, Flagged, Slow, Waiting, Go,
            LoopPcs, ChunkPcs, StartPcs
<1>1. CASE HostCheckLocked(c) \/ HostCheckFree(c) \/ HostSuspected(c) \/ HostAbsent(c)
  BY <1>1 DEF HostCheckLocked, HostCheckFree, HostSuspected, HostAbsent
<1>2. CASE Acquire(c) \/ AlreadyRunning(c)
  BY <1>2 DEF Acquire, AlreadyRunning
<1>3. CASE StartReset(c) \/ StartKeeps(c) \/ StartFails(c)
  BY <1>3 DEF StartReset, StartKeeps, StartFails
<1>4. CASE StartClear(c)
  BY <1>4 DEF StartClear
<1>5. CASE Publish(c)
  BY <1>5 DEF Publish, Patience
<1> QED
  BY <1>1, <1>2, <1>3, <1>4, <1>5 DEF StartStep

LEMMA LoopHeeds ==
    ASSUME TypeOK, NEW c \in Chains, Heeds(c), LoopStep(c) \/ ChunkStep(c)
    PROVE  Heeds(c)'
<1> USE DEF TypeOK, keyVars, lockVars, rowVars, posVars, timeVars, taskVars, reqVars,
            histVars, Heeds, Timed, Unasked, Flagged, Slow, Waiting, Go,
            LoopPcs, ChunkPcs, StartPcs
<1>1. CASE Loaded(c)
  BY <1>1 DEF Loaded, ReadState
<1>2. CASE LoadFails(c) \/ WriteAbort(c)
  BY <1>2 DEF LoadFails, WriteAbort
<1>3. CASE WriteSize(c) \/ WriteDataset(c)
  BY <1>3 DEF WriteSize, WriteDataset, WriteBack
<1>4. CASE DatasetOpens(c) \/ ReadProgress(c)
  BY <1>4 DEF DatasetOpens, ReadState, ReadProgress
<1>5. CASE \/ ChainEnds(c) \/ CountFails(c) \/ SymbolOpens(c) \/ RefreshSkipped(c)
           \/ QuotaPasses(c)
  BY <1>5 DEF ChainEnds, CountFails, SymbolOpens, RefreshSkipped, QuotaPasses
<1>6. CASE DatasetEnds(c) \/ GateStop(c)
  BY <1>6 DEF DatasetEnds, GateStop, NextDataset
<1>7. CASE RefreshLock(c)
  BY <1>7 DEF RefreshLock
<1>8. CASE QuotaSaturated(c)
  BY <1>8 DEF QuotaSaturated, Patience
<1>9. CASE Wakes(c)
  BY <1>9 DEF Wakes
<1>10. CASE GateOpen(c)
  BY <1>10 DEF GateOpen
<1>11. CASE WriteProgress(c)
  BY <1>11 DEF WriteProgress, WriteBack
<1>12. ASSUME NEW next \in {"fetch", "skip"}, Claim(c, next) PROVE Heeds(c)'
  BY <1>12 DEF Claim, Patience
<1>13. ASSUME NEW next \in {"upsert", "fail"}, Fetched(c, next) PROVE Heeds(c)'
  BY <1>13 DEF Fetched
<1>14. CASE SkipUnclaimed(c) \/ NoClient(c) \/ Upsert(c) \/ UpsertFails(c)
  BY <1>14 DEF SkipUnclaimed, NoClient, Upsert, UpsertFails
<1>15. CASE Record(c) \/ IngestRaises(c)
  BY <1>15 DEF Record, IngestRaises
<1> QED
  BY <1>1, <1>2, <1>3, <1>4, <1>5, <1>6, <1>7, <1>8, <1>9, <1>10, <1>11, <1>12, <1>13,
     <1>14, <1>15 DEF LoopStep, ChunkStep

LEMMA FinalHeeds ==
    ASSUME TypeOK, NEW c \in Chains, Heeds(c), FinalStep(c)
    PROVE  Heeds(c)'
<1> USE DEF TypeOK, keyVars, lockVars, rowVars, posVars, timeVars, taskVars, reqVars,
            histVars, Heeds, Timed, Unasked, Flagged, Slow, Waiting, Go,
            LoopPcs, ChunkPcs, StartPcs
<1>1. CASE FinalRead(c) \/ FinalWrite(c) \/ FinalStop(c) \/ FinalOwns(c)
  BY <1>1 DEF FinalRead, FinalWrite, FinalStop, FinalOwns
<1>2. CASE FinalLost(c) \/ Release(c)
  BY <1>2 DEF FinalLost, Release, Retire
<1> QED
  BY <1>1, <1>2 DEF FinalStep

\* A step of another chain: it drops the flag only when it has just won the lock, or
\* while it ends.
LEMMA OthersHeed ==
    ASSUME TypeOK, NEW c \in Chains, Heeds(c), LockInv, NEW d \in Chains, d # c, Timed(d),
           StartStep(d) \/ LoopStep(d) \/ ChunkStep(d) \/ FinalStep(d)
    PROVE  Heeds(c)'
<1>1. pc'[c] = pc[c] /\ spent'[c] = spent[c] /\ asked' = asked
  BY ChainEffects, LockEffects DEF LockEffect, ChainEffect, Alone, Timed, Rested
<1>2. stop' = stop \/ pc[d] \in {"clear", "finalStop"}
  BY DEF StartStep, LoopStep, ChunkStep, FinalStep, keyVars,
     HostCheckLocked, HostCheckFree, HostSuspected, HostAbsent, Acquire, AlreadyRunning,
     StartReset, StartKeeps, StartFails, StartClear, Publish, Loaded, LoadFails,
     WriteAbort, WriteSize, DatasetOpens, CountFails, ChainEnds, WriteDataset, SymbolOpens,
     DatasetEnds, RefreshLock, RefreshSkipped, QuotaPasses, QuotaSaturated, Wakes,
     GateOpen, GateStop, ReadProgress, WriteProgress, Claim, SkipUnclaimed, NoClient, Fetched,
     Upsert, UpsertFails, Record, IngestRaises, FinalRead, FinalWrite, FinalStop,
     FinalOwns, FinalLost, Release
<1>3. pc[c] \in LoopPcs => stop' = stop
  BY <1>2 DEF LockInv, Holding, Live, FinalPcs
<1>4. QED
  BY <1>1, <1>3 DEF Heeds, Timed, Unasked, Flagged, Slow, Waiting, Patience

\* Requests that read and heal: a flag they drop is no longer asked for.
LEMMA ReadHeeds ==
    ASSUME TypeOK, NEW c \in Chains, Heeds(c),
           \/ \E p \in Polls : Poll(p)
           \/ \E a \in Readers : ReadStep(a)
    PROVE  Heeds(c)'
<1> USE DEF TypeOK, keyVars, lockVars, rowVars, posVars, timeVars, taskVars, reqVars,
            histVars, Heeds, Timed, Unasked, Flagged, Slow, Waiting, Patience
<1>1. ASSUME NEW p \in Polls, Poll(p) PROVE Heeds(c)'
  BY <1>1 DEF Poll
<1>2. ASSUME NEW a \in Readers,
             SeeIdle(a) \/ SeeActive(a) \/ SeeLock(a) \/ SeeNoLock(a) \/ Heal(a)
      PROVE  Heeds(c)'
  BY <1>2 DEF SeeIdle, SeeActive, SeeLock, SeeNoLock, Heal
<1>3. ASSUME NEW a \in Readers, DropStop(a) PROVE Heeds(c)'
  BY <1>3 DEF DropStop
<1> QED
  BY <1>1, <1>2, <1>3 DEF ReadStep

LEMMA StopHeeds ==
    ASSUME TypeOK, NEW c \in Chains, Heeds(c), NEW s \in Stops, StopStep(s)
    PROVE  Heeds(c)'
<1> USE DEF TypeOK, keyVars, lockVars, rowVars, posVars, timeVars, taskVars, reqVars,
            histVars, Heeds, Timed, Unasked, Flagged, Slow, Waiting, Patience
<1>1. CASE StopSet(s)
  BY <1>1 DEF StopSet, StartPcs, LoopPcs, ChunkPcs
<1>2. CASE StopSees(s) \/ StopSeesNone(s) \/ StopWrite(s)
  BY <1>2 DEF StopSees, StopSeesNone, StopWrite
<1> QED
  BY <1>1, <1>2 DEF StopStep

LEMMA CrashHeeds ==
    ASSUME TypeOK, NEW c \in Chains, Heeds(c), NEW w \in Workers, Crash(w)
    PROVE  Heeds(c)'
<1> USE DEF TypeOK, keyVars, lockVars, rowVars, posVars, timeVars, taskVars, reqVars,
            Heeds, Timed, Unasked, Flagged, Slow, Waiting
<1>1. CASE at[c] = w /\ Holding(c)
  BY <1>1 DEF Crash, Retire, LoopPcs, ChunkPcs, StartPcs
<1>2. CASE ~(at[c] = w /\ Holding(c))
  BY <1>2 DEF Crash, Retire, Patience
<1> QED
  BY <1>1, <1>2

LEMMA TickHeeds ==
    ASSUME TypeOK, FlagOutlivesSteps, NEW c \in Chains, Heeds(c), Tick
    PROVE  Heeds(c)'
<1> USE DEF Slow, Waiting, Holding, Live
<1>1. /\ UNCHANGED <<pc, status>>
      /\ spent'[c] = (IF Slow(c) THEN spent[c] + 1 ELSE spent[c])
      /\ asked'[c] = asked[c] \/ asked'[c] = "lapsed"
      /\ stop' = (IF stop > 0 THEN stop - 1 ELSE 0)
      /\ Holding(c) => spent[c] < Patience(c)
      /\ stop \in Nat /\ spent[c] \in Nat /\ StopTTL \in Nat
  BY DEF Tick, TypeOK, reqVars
<1>2. Slow(c) \/ ~Holding(c)
  BY <1>1 DEF Heeds, Timed, Patience
<1>3. Timed(c)'
  BY <1>1, <1>2 DEF Heeds, Timed, LoopPcs, ChunkPcs, Patience
<1>4. Unasked(c)'
  BY <1>1 DEF Heeds, Unasked
<1>5. Flagged(c)'
  <2>1. CASE pc[c] \in LoopPcs /\ asked[c] = "yes" /\ asked'[c] = "yes"
    <3>1. Slow(c) /\ spent[c] < Patience(c) /\ Patience(c) < StopTTL
      BY <1>1, <1>2, <2>1 DEF Patience, FlagOutlivesSteps
    <3>2. stop + spent[c] >= StopTTL
      BY <2>1, <3>1 DEF Heeds, Flagged
    <3>3. Patience(c) \in Nat
      BY <3>1 DEF Patience
    <3>4. stop > 1 /\ stop' + spent'[c] >= StopTTL
      BY <1>1, <3>1, <3>2, <3>3
    <3> QED
      BY <1>1, <3>4 DEF Flagged
  <2>2. CASE ~(pc[c] \in LoopPcs /\ asked[c] = "yes" /\ asked'[c] = "yes")
    BY <1>1, <2>2 DEF Flagged
  <2> QED
    BY <2>1, <2>2
<1> QED
  BY <1>3, <1>4, <1>5 DEF Heeds

LEMMA NextHeeds ==
    /\ FlagOutlivesSteps /\ TypeOK /\ (Outlived \/ LockInv)
    /\ (Outlived \/ StopInv) /\ [Next]_vars
    => (Outlived \/ StopInv)'
<1> SUFFICES ASSUME FlagOutlivesSteps, TypeOK, LockInv, StopInv, [Next]_vars,
                    NEW c \in Chains
             PROVE  Heeds(c)'
  BY OutlivedStays DEF StopInv
<1>0. Heeds(c) /\ \A d \in Chains : Timed(d)
  BY DEF StopInv, Heeds
<1>1. ASSUME NEW d \in Chains, StartStep(d) \/ LoopStep(d) \/ ChunkStep(d) \/ FinalStep(d)
      PROVE  Heeds(c)'
  <2>1. CASE d = c
    BY <1>0, <1>1, <2>1, StartHeeds, LoopHeeds, FinalHeeds
  <2>2. CASE d # c
    BY <1>0, <1>1, <2>2, OthersHeed
  <2> QED
    BY <2>1, <2>2
<1>2. CASE (\E p \in Polls : Poll(p)) \/ (\E a \in Readers : ReadStep(a))
  BY <1>0, <1>2, ReadHeeds
<1>3. ASSUME NEW s \in Stops, StopStep(s) PROVE Heeds(c)'
  BY <1>0, <1>3, StopHeeds
<1>4. ASSUME NEW w \in Workers, Crash(w) PROVE Heeds(c)'
  BY <1>0, <1>4, CrashHeeds
<1>5. CASE Tick
  BY <1>0, <1>5, TickHeeds
<1>6. CASE AdminReset \/ UNCHANGED vars
  BY <1>0, <1>6 DEF AdminReset, vars, keyVars, lockVars, taskVars, reqVars, timeVars, posVars,
     histVars, Heeds, Timed, Unasked, Flagged, Slow, Waiting, Patience
<1> QED
  BY <1>1, <1>2, <1>3, <1>4, <1>5, <1>6 DEF Next

\* Of any number of chains, started in any order by any worker, none takes a chunk after it
\* was asked to stop, until a lock has expired under its chain or a request took the chain
\* for dead, if the flag lives longer than a load, a fetch or a wait for quota (STOP_TTL is
\* an hour in the code).
THEOREM StopIsObeyed == FlagOutlivesSteps => (Spec => StopObeyed)
<1> SUFFICES ASSUME FlagOutlivesSteps PROVE Spec => StopObeyed
  OBVIOUS
<1>1. ASSUME TypeOK, Outlived \/ StopInv, [Next]_vars, NEW c \in Chains, pc[c] = "gate",
             pc'[c] = "claim"
      PROVE  asked[c] # "yes" \/ Outlived
  <2>1. CASE Outlived \/ stop = 0
    BY <1>1, <2>1 DEF StopInv, Heeds, Flagged, LoopPcs
  <2>2. CASE stop # 0
    <3>1. ASSUME NEW d \in Chains, StartStep(d) \/ LoopStep(d) \/ ChunkStep(d) \/ FinalStep(d)
          PROVE  FALSE
      <4>1. d = c
        BY <1>1, <3>1, LockEffects DEF LockEffect
      <4> QED
        BY <1>1, <2>2, <3>1, <4>1 DEF TypeOK, Go, StartStep, LoopStep, ChunkStep, FinalStep,
           HostCheckLocked, HostCheckFree, HostSuspected, HostAbsent, Acquire, AlreadyRunning,
           StartReset, StartKeeps, StartFails, StartClear, Publish, Loaded, LoadFails,
           WriteAbort, WriteSize, DatasetOpens, CountFails, ChainEnds, WriteDataset,
           SymbolOpens, DatasetEnds, RefreshLock, RefreshSkipped, QuotaPasses,
           QuotaSaturated, Wakes, GateOpen, GateStop, ReadProgress, WriteProgress, Claim,
           SkipUnclaimed, NoClient, Fetched, Upsert, UpsertFails, Record, IngestRaises,
           FinalRead, FinalWrite, FinalStop, FinalOwns, FinalLost, Release
    <3>2. CASE \E w \in Workers : Crash(w)
      BY <1>1, <3>2 DEF Crash, Retire
    <3>3. CASE ~\E w \in Workers : Crash(w)
      BY <1>1, <3>1, <3>3, RequestEffects DEF Next, Tick, AdminReset, taskVars
    <3> QED
      BY <3>2, <3>3
  <2> QED
    BY <2>1, <2>2
<1>2. TypeOK /\ (Outlived \/ StopInv) /\ [Next]_vars
        => [\A c \in Chains : pc[c] = "gate" /\ pc'[c] = "claim"
                              => asked[c] # "yes" \/ Outlived]_vars
  BY <1>1
<1>3. Init => StopInv
  BY DEF Init, StopInv, Heeds, Timed, Unasked, Flagged, Slow, LoopPcs, ChunkPcs
<1>4. Spec => [](Outlived \/ StopInv)
  BY <1>3, NextHeeds, LockInvariant, TypeCorrect, PTL DEF Spec
<1> QED
  BY <1>2, <1>4, TypeCorrect, PTL DEF Spec, StopObeyed

=============================================================================
