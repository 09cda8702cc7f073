------------------------ MODULE DiscussionRoundProofs ------------------------
(* Proofs about DiscussionRound, for every value of its constants: the types *)
(* of its variables, the invariants of rounds and transcript, what it takes for *)
(* two rounds to overlap, and the owner's bill.                                 *)
EXTENDS DiscussionRound, FiniteSums, FiniteSetTheorems, TLAPS

USE SizesAssumption, PersonaAssumption

\* What a boundary finds to answer is a queue of questions.
LEMMA WaitingType ==
    ASSUME TypeOK, NEW r \in Runs
    PROVE  /\ Waiting(r) \in Seq(Questions)
           /\ Waiting(r) # <<>> => /\ Head(Waiting(r)) \in Questions
                                  /\ Tail(Waiting(r)) \in Seq(Questions)
<1>1. pending[at[r]] \in Seq(Questions) /\ ahead[r] \in Seq(Questions)
  BY DEF TypeOK
<1>2. ASSUME NEW s \in Seq(Questions), NEW t \in Seq(Questions)
      PROVE  /\ s \o t \in Seq(Questions)
             /\ s \o t # <<>> => /\ Head(s \o t) \in Questions
                                 /\ Tail(s \o t) \in Seq(Questions)
  OBVIOUS
<1>3. QED
  BY <1>1, <1>2 DEF Waiting, Drained

\* A turn appended to a round is a turn.
LEMMA AppendType ==
    ASSUME turns \subseteq TurnType, NEW n \in Nat, NEW k \in Kinds, AppendTo(n, k)
    PROVE  turns' \subseteq TurnType
  BY DEF AppendTo, NextIn, Indices, Turn, TurnType

LEMMA InitType == Init => TypeOK
<1> SUFFICES ASSUME Init PROVE TypeOK
  OBVIOUS
<1>1. (CHOOSE w \in Workers : TRUE) \in Workers
  OBVIOUS
<1>2. /\ exists \in BOOLEAN /\ status \in Statuses /\ round \in Nat /\ age \in Nat
      /\ roster \in RosterSizes /\ concluded \in BOOLEAN
      /\ turns \subseteq TurnType /\ used \in Nat /\ crashes \in Nat
  BY DEF Init, Statuses
<1>3. /\ pc \in [Runs -> RunPcs] /\ at \in [Runs -> Workers]
      /\ rnd \in [Runs -> Nat] /\ idx \in [Runs -> Nat] /\ spent \in [Runs -> Nat]
      /\ left \in [Runs -> Nat] /\ ahead \in [Runs -> Seq(Questions)]
      /\ doing \in [Runs -> Questions \cup {Persona}]
      /\ cost \in [Runs -> Nat] /\ completed \in [Runs -> Nat]
  BY <1>1 DEF Init, RunPcs
<1>4. /\ pending \in [Workers -> Seq(Questions)] /\ ask \in [Questions -> AskPcs]
      /\ askAt \in [Questions -> Workers] /\ askRound \in [Questions -> Nat]
  BY <1>1 DEF Init, AskPcs
<1>5. /\ inj \in [Injectors -> {"new", "read", "done"}]
      /\ injRound \in [Injectors -> Nat]
      /\ con \in [Concluders -> {"new", "thinking", "done", "failed", "lost"}]
      /\ conAt \in [Concluders -> Workers] /\ conSaw \in [Concluders -> Statuses]
  BY <1>1 DEF Init, Statuses
<1>6. /\ ed \in [Editors -> {"new", "read", "done"}] /\ raced \in BOOLEAN /\ unpaid \in Nat
  BY DEF Init
<1>7. QED
  BY <1>2, <1>3, <1>4, <1>5, <1>6 DEF TypeOK

\* The types of the program's own variables, and of the requests and the history
\* beside them.
CoreType ==
    /\ exists \in BOOLEAN /\ status \in Statuses /\ round \in Nat /\ age \in Nat
    /\ roster \in RosterSizes /\ concluded \in BOOLEAN
    /\ turns \subseteq TurnType /\ used \in Nat
    /\ pc \in [Runs -> RunPcs] /\ at \in [Runs -> Workers]
    /\ rnd \in [Runs -> Nat] /\ idx \in [Runs -> Nat] /\ spent \in [Runs -> Nat]
    /\ left \in [Runs -> Nat] /\ ahead \in [Runs -> Seq(Questions)]
    /\ doing \in [Runs -> Questions \cup {Persona}]
    /\ cost \in [Runs -> Nat] /\ completed \in [Runs -> Nat]
    /\ pending \in [Workers -> Seq(Questions)] /\ ask \in [Questions -> AskPcs]
    /\ askAt \in [Questions -> Workers] /\ askRound \in [Questions -> Nat]
    /\ inj \in [Injectors -> {"new", "read", "done"}]
    /\ injRound \in [Injectors -> Nat]
    /\ con \in [Concluders -> {"new", "thinking", "done", "failed", "lost"}]
    /\ conAt \in [Concluders -> Workers] /\ conSaw \in [Concluders -> Statuses]
    /\ crashes \in Nat
SideType == /\ ed \in [Editors -> {"new", "read", "done"}]
            /\ raced \in BOOLEAN /\ unpaid \in Nat

\* Every step keeps the types: one step per action, and one per variable where
\* the action is more than one leaf.
LEMMA CoreNext == TypeOK /\ [Next]_vars => CoreType'
<1> SUFFICES ASSUME TypeOK, [Next]_vars PROVE CoreType'
  OBVIOUS
<1> USE DEF TypeOK, CoreType, vars, dbVars, rowVars, runVars, taskVars, workVars, billVars,
            askVars, injVars, conVars, histVars
<1>1. ASSUME NEW r \in Runs, NEW w \in Workers, RequestRound(r, w)
      PROVE  CoreType'
  BY <1>1 DEF RequestRound, RunPcs
<1>2. ASSUME NEW r \in Runs, ForceReset(r)
      PROVE  CoreType'
  BY <1>2 DEF ForceReset, ResetRow, RunPcs, Statuses
<1>3. ASSUME NEW r \in Runs, Reserve(r)
      PROVE  CoreType'
  <2>1. pc' \in [Runs -> RunPcs]
    BY <1>3 DEF Reserve, RunPcs
  <2>2. used' \in Nat
    BY <1>3, SMTT(30) DEF Reserve
  <2> QED
    BY <1>3, <2>1, <2>2 DEF Reserve
<1>4. ASSUME NEW r \in Runs, QuotaSpent(r)
      PROVE  CoreType'
  <2>1. pc' \in [Runs -> RunPcs]
    BY <1>4 DEF QuotaSpent, Settled, RunPcs
  <2>2. rnd' \in [Runs -> Nat]
    BY <1>4 DEF QuotaSpent, Settled
  <2>3. idx' \in [Runs -> Nat]
    BY <1>4 DEF QuotaSpent, Settled
  <2>4. spent' \in [Runs -> Nat]
    BY <1>4 DEF QuotaSpent, Settled
  <2>5. left' \in [Runs -> Nat]
    BY <1>4 DEF QuotaSpent, Settled
  <2>6. ahead' \in [Runs -> Seq(Questions)]
    BY <1>4 DEF QuotaSpent, Settled
  <2>7. doing' \in [Runs -> Questions \cup {Persona}]
    BY <1>4 DEF QuotaSpent, Settled
  <2>8. cost' \in [Runs -> Nat]
    BY <1>4 DEF QuotaSpent, Settled
  <2>9. completed' \in [Runs -> Nat]
    BY <1>4 DEF QuotaSpent, Settled
  <2> QED
    BY <1>4, <2>1, <2>2, <2>3, <2>4, <2>5, <2>6, <2>7, <2>8, <2>9 DEF QuotaSpent, Settled
<1>5. ASSUME NEW r \in Runs, BeginRound(r)
      PROVE  CoreType'
  <2>1. pc' \in [Runs -> RunPcs]
    BY <1>5 DEF BeginRound, RunPcs
  <2>2. round' \in Nat
    BY <1>5 DEF BeginRound
  <2>3. status' \in Statuses
    BY <1>5 DEF BeginRound, Statuses
  <2>4. age' \in Nat
    BY <1>5 DEF BeginRound
  <2>5. rnd' \in [Runs -> Nat]
    BY <1>5 DEF BeginRound
  <2>6. left' \in [Runs -> Nat]
    BY <1>5 DEF BeginRound
  <2> QED
    BY <1>5, <2>1, <2>2, <2>3, <2>4, <2>5, <2>6 DEF BeginRound
<1>6. ASSUME NEW r \in Runs, NothingToRun(r)
      PROVE  CoreType'
  BY <1>6 DEF NothingToRun, RunPcs
<1>7. ASSUME NEW r \in Runs, GatherEnds(r)
      PROVE  CoreType'
  <2>1. pc' \in [Runs -> RunPcs]
    BY <1>7 DEF GatherEnds, RunPcs
  <2>2. spent' \in [Runs -> Nat]
    BY <1>7 DEF GatherEnds
  <2> QED
    BY <1>7, <2>1, <2>2 DEF GatherEnds
<1>8. ASSUME NEW r \in Runs, TakeQuestion(r)
      PROVE  CoreType'
  <2>1. pending' \in [Workers -> Seq(Questions)]
    BY <1>8, SMTT(30) DEF TakeQuestion, Drain, Waiting, Drained
  <2>2. ask' \in [Questions -> AskPcs]
    BY <1>8 DEF TakeQuestion, Drain, Waiting, Drained, AskPcs
  <2>3. pc' \in [Runs -> RunPcs]
    BY <1>8 DEF TakeQuestion, Drain, Waiting, Drained, RunPcs
  <2>4. doing' \in [Runs -> Questions \cup {Persona}]
    BY <1>8, WaitingType DEF TakeQuestion
  <2>5. ahead' \in [Runs -> Seq(Questions)]
    BY <1>8, WaitingType DEF TakeQuestion
  <2> QED
    BY <1>8, <2>1, <2>2, <2>3, <2>4, <2>5 DEF TakeQuestion, Drain, Waiting, Drained
<1>9. ASSUME NEW r \in Runs, TakePersona(r)
      PROVE  CoreType'
  <2>1. pending' \in [Workers -> Seq(Questions)]
    BY <1>9 DEF TakePersona, Drain, Drained
  <2>2. ask' \in [Questions -> AskPcs]
    BY <1>9 DEF TakePersona, Drain, Drained, AskPcs
  <2>3. pc' \in [Runs -> RunPcs]
    BY <1>9 DEF TakePersona, Drain, Drained, RunPcs
  <2>4. left' \in [Runs -> Nat]
    BY <1>9 DEF TakePersona, Drain, Drained
  <2> QED
    BY <1>9, <2>1, <2>2, <2>3, <2>4 DEF TakePersona, Drain, Drained
<1>10. ASSUME NEW r \in Runs, RoundSpoken(r)
      PROVE  CoreType'
  <2>1. pending' \in [Workers -> Seq(Questions)]
    BY <1>10 DEF RoundSpoken, Drain, Drained
  <2>2. ask' \in [Questions -> AskPcs]
    BY <1>10 DEF RoundSpoken, Drain, Drained, AskPcs
  <2>3. pc' \in [Runs -> RunPcs]
    BY <1>10 DEF RoundSpoken, Drain, Drained, RunPcs
  <2> QED
    BY <1>10, <2>1, <2>2, <2>3 DEF RoundSpoken, Drain, Drained
<1>11. ASSUME NEW r \in Runs, CommitQuestion(r)
      PROVE  CoreType'
  <2>1. turns' \subseteq TurnType
    BY <1>11 DEF CommitQuestion, Turn, TurnType, Kinds
  <2>2. pc' \in [Runs -> RunPcs]
    BY <1>11 DEF CommitQuestion, Turn, RunPcs
  <2>3. idx' \in [Runs -> Nat]
    BY <1>11 DEF CommitQuestion, Turn
  <2> QED
    BY <1>11, <2>1, <2>2, <2>3 DEF CommitQuestion, Turn
<1>12. ASSUME NEW r \in Runs, CommitReply(r)
      PROVE  CoreType'
  <2>1. age' \in Nat
    BY <1>12 DEF CommitReply, CommitRow, AgeAfterTurn, Turn
  <2>2. pc' \in [Runs -> RunPcs]
    BY <1>12 DEF CommitReply, CommitRow, AgeAfterTurn, Turn, RunPcs
  <2>3. idx' \in [Runs -> Nat]
    BY <1>12, SMTT(30) DEF CommitReply, CommitRow, AgeAfterTurn, Turn
  <2>4. spent' \in [Runs -> Nat]
    BY <1>12 DEF CommitReply, CommitRow, AgeAfterTurn, Turn
  <2>5. turns' \subseteq TurnType
    BY <1>12 DEF CommitReply, CommitRow, AgeAfterTurn, Turn, TurnType, Kinds
  <2>6. completed' \in [Runs -> Nat]
    BY <1>12, SMTT(30) DEF CommitReply, CommitRow, AgeAfterTurn, Turn
  <2> QED
    BY <1>12, <2>1, <2>2, <2>3, <2>4, <2>5, <2>6 DEF CommitReply, CommitRow, AgeAfterTurn, Turn
<1>13. ASSUME NEW r \in Runs, CommitAnswer(r)
      PROVE  CoreType'
  <2>1. age' \in Nat
    BY <1>13 DEF CommitAnswer, CommitRow, AgeAfterTurn, Turn
  <2>2. pc' \in [Runs -> RunPcs]
    BY <1>13 DEF CommitAnswer, CommitRow, AgeAfterTurn, Turn, RunPcs
  <2>3. idx' \in [Runs -> Nat]
    BY <1>13, SMTT(30) DEF CommitAnswer, CommitRow, AgeAfterTurn, Turn
  <2>4. spent' \in [Runs -> Nat]
    BY <1>13 DEF CommitAnswer, CommitRow, AgeAfterTurn, Turn
  <2>5. turns' \subseteq TurnType
    BY <1>13 DEF CommitAnswer, CommitRow, AgeAfterTurn, Turn, TurnType, Kinds
  <2>6. doing' \in [Runs -> Questions \cup {Persona}]
    BY <1>13 DEF CommitAnswer, CommitRow, AgeAfterTurn, Turn
  <2>7. ask' \in [Questions -> AskPcs]
    BY <1>13 DEF CommitAnswer, CommitRow, AgeAfterTurn, Turn, AskPcs
  <2> QED
    BY <1>13, <2>1, <2>2, <2>3, <2>4, <2>5, <2>6, <2>7 DEF CommitAnswer, CommitRow, AgeAfterTurn, Turn
<1>14. ASSUME NEW r \in Runs, CommitFails(r)
      PROVE  CoreType'
  <2>1. pc' \in [Runs -> RunPcs]
    BY <1>14 DEF CommitFails, Lose, RunPcs
  <2>2. spent' \in [Runs -> Nat]
    BY <1>14 DEF CommitFails, Lose
  <2>3. left' \in [Runs -> Nat]
    BY <1>14 DEF CommitFails, Lose
  <2>4. ahead' \in [Runs -> Seq(Questions)]
    BY <1>14 DEF CommitFails, Lose
  <2>5. doing' \in [Runs -> Questions \cup {Persona}]
    BY <1>14 DEF CommitFails, Lose
  <2>6. ask' \in [Questions -> AskPcs]
    BY <1>14 DEF CommitFails, Lose, AskPcs
  <2> QED
    BY <1>14, <2>1, <2>2, <2>3, <2>4, <2>5, <2>6 DEF CommitFails, Lose
<1>15. ASSUME NEW r \in Runs, EndRound(r)
      PROVE  CoreType'
  <2>1. status' \in Statuses
    BY <1>15 DEF EndRound, ResetRow, Statuses
  <2>2. age' \in Nat
    BY <1>15 DEF EndRound, ResetRow
  <2>3. pc' \in [Runs -> RunPcs]
    BY <1>15 DEF EndRound, ResetRow, RunPcs
  <2> QED
    BY <1>15, <2>1, <2>2, <2>3 DEF EndRound, ResetRow
<1>16. ASSUME NEW r \in Runs, Refund(r)
      PROVE  CoreType'
  <2>1. pc' \in [Runs -> RunPcs]
    BY <1>16 DEF Refund, Settled, Minus, RunPcs
  <2>2. rnd' \in [Runs -> Nat]
    BY <1>16 DEF Refund, Settled, Minus
  <2>3. idx' \in [Runs -> Nat]
    BY <1>16 DEF Refund, Settled, Minus
  <2>4. spent' \in [Runs -> Nat]
    BY <1>16 DEF Refund, Settled, Minus
  <2>5. left' \in [Runs -> Nat]
    BY <1>16 DEF Refund, Settled, Minus
  <2>6. ahead' \in [Runs -> Seq(Questions)]
    BY <1>16 DEF Refund, Settled, Minus
  <2>7. doing' \in [Runs -> Questions \cup {Persona}]
    BY <1>16 DEF Refund, Settled, Minus
  <2>8. cost' \in [Runs -> Nat]
    BY <1>16 DEF Refund, Settled, Minus
  <2>9. completed' \in [Runs -> Nat]
    BY <1>16 DEF Refund, Settled, Minus
  <2>10. used' \in Nat
    BY <1>16, SMTT(30) DEF Refund, Settled, Minus
  <2> QED
    BY <1>16, <2>1, <2>2, <2>3, <2>4, <2>5, <2>6, <2>7, <2>8, <2>9, <2>10 DEF Refund, Settled, Minus
<1>17. ASSUME NEW q \in Questions, NEW w \in Workers, AskAdmit(q, w)
      PROVE  CoreType'
  <2>1. used' \in Nat
    BY <1>17 DEF AskAdmit
  <2>2. ask' \in [Questions -> AskPcs]
    BY <1>17 DEF AskAdmit, AskPcs
  <2>3. askAt' \in [Questions -> Workers]
    BY <1>17 DEF AskAdmit
  <2> QED
    BY <1>17, <2>1, <2>2, <2>3 DEF AskAdmit
<1>18. ASSUME NEW q \in Questions, AskEnqueue(q)
      PROVE  CoreType'
  <2>1. pending' \in [Workers -> Seq(Questions)]
    BY <1>18 DEF AskEnqueue
  <2>2. ask' \in [Questions -> AskPcs]
    BY <1>18 DEF AskEnqueue, AskPcs
  <2> QED
    BY <1>18, <2>1, <2>2 DEF AskEnqueue
<1>19. ASSUME NEW q \in Questions, AskRefuse(q)
      PROVE  CoreType'
  <2>1. ask' \in [Questions -> AskPcs]
    BY <1>19 DEF AskRefuse, Minus, AskPcs
  <2>2. used' \in Nat
    BY <1>19 DEF AskRefuse, Minus
  <2> QED
    BY <1>19, <2>1, <2>2 DEF AskRefuse, Minus
<1>20. ASSUME NEW q \in Questions, NEW w \in Workers, FollowAdmit(q, w)
      PROVE  CoreType'
  <2>1. used' \in Nat
    BY <1>20 DEF FollowAdmit
  <2>2. ask' \in [Questions -> AskPcs]
    BY <1>20 DEF FollowAdmit, AskPcs
  <2>3. askAt' \in [Questions -> Workers]
    BY <1>20 DEF FollowAdmit
  <2>4. askRound' \in [Questions -> Nat]
    BY <1>20 DEF FollowAdmit
  <2> QED
    BY <1>20, <2>1, <2>2, <2>3, <2>4 DEF FollowAdmit
<1>21. ASSUME NEW q \in Questions, FollowQuestion(q)
      PROVE  CoreType'
  <2>1. turns' \subseteq TurnType
    BY <1>21, AppendType DEF FollowQuestion, Kinds
  <2>2. age' \in Nat
    BY <1>21 DEF FollowQuestion
  <2>3. ask' \in [Questions -> AskPcs]
    BY <1>21 DEF FollowQuestion, AskPcs
  <2> QED
    BY <1>21, <2>1, <2>2, <2>3 DEF FollowQuestion
<1>22. ASSUME NEW q \in Questions, FollowAnswer(q)
      PROVE  CoreType'
  <2>1. turns' \subseteq TurnType
    BY <1>22, AppendType DEF FollowAnswer, Kinds
  <2>2. ask' \in [Questions -> AskPcs]
    BY <1>22 DEF FollowAnswer, AskPcs
  <2> QED
    BY <1>22, <2>1, <2>2 DEF FollowAnswer
<1>23. ASSUME NEW q \in Questions, FollowFails(q)
      PROVE  CoreType'
  <2>1. used' \in Nat
    BY <1>23 DEF FollowFails, Minus
  <2>2. ask' \in [Questions -> AskPcs]
    BY <1>23 DEF FollowFails, AskPcs
  <2> QED
    BY <1>23, <2>1, <2>2 DEF FollowFails
<1>24. ASSUME NEW i \in Injectors, InjectRead(i)
      PROVE  CoreType'
  BY <1>24 DEF InjectRead
<1>25. ASSUME NEW i \in Injectors, InjectCommit(i)
      PROVE  CoreType'
  <2>1. turns' \subseteq TurnType
    BY <1>25, AppendType DEF InjectCommit, Kinds
  <2>2. age' \in Nat
    BY <1>25 DEF InjectCommit
  <2>3. inj' \in [Injectors -> {"new", "read", "done"}]
    BY <1>25 DEF InjectCommit
  <2> QED
    BY <1>25, <2>1, <2>2, <2>3 DEF InjectCommit
<1>26. ASSUME NEW c \in Concluders, NEW w \in Workers, ConcludeStart(c, w)
      PROVE  CoreType'
  BY <1>26, SMTT(30) DEF ConcludeStart, Statuses
<1>27. ASSUME NEW c \in Concluders, ConcludeCommit(c)
      PROVE  CoreType'
  BY <1>27 DEF ConcludeCommit, Statuses
<1>28. ASSUME NEW c \in Concluders, ConcludeFails(c)
      PROVE  CoreType'
  BY <1>28, SMTT(30) DEF ConcludeFails, Minus
<1>29. ASSUME NEW e \in Editors, EditRead(e) \/ EditCommit(e)
      PROVE  CoreType'
  BY <1>29 DEF EditRead, EditCommit
<1>30. ASSUME Delete PROVE CoreType'
  BY <1>30 DEF Delete, TurnType, Kinds
<1>31. ASSUME NEW w \in Workers, Crash(w)
      PROVE  CoreType'
  <2>1. pc' \in [Runs -> RunPcs]
    BY <1>31 DEF Crash, Surviving, Lose, RunPcs
  <2>2. rnd' \in [Runs -> Nat]
    BY <1>31 DEF Crash, Surviving, Lose
  <2>3. idx' \in [Runs -> Nat]
    BY <1>31 DEF Crash, Surviving, Lose
  <2>4. spent' \in [Runs -> Nat]
    BY <1>31 DEF Crash, Surviving, Lose
  <2>5. left' \in [Runs -> Nat]
    BY <1>31 DEF Crash, Surviving, Lose
  <2>6. ahead' \in [Runs -> Seq(Questions)]
    BY <1>31 DEF Crash, Surviving, Lose
  <2>7. doing' \in [Runs -> Questions \cup {Persona}]
    BY <1>31 DEF Crash, Surviving, Lose
  <2>8. cost' \in [Runs -> Nat]
    BY <1>31 DEF Crash, Surviving, Lose
  <2>9. completed' \in [Runs -> Nat]
    BY <1>31 DEF Crash, Surviving, Lose
  <2>10. pending' \in [Workers -> Seq(Questions)]
    BY <1>31 DEF Crash, Surviving, Lose
  <2>11. ask' \in [Questions -> AskPcs]
    BY <1>31 DEF Crash, Surviving, Lose, AskPcs
  <2>12. con' \in [Concluders -> {"new", "thinking", "done", "failed", "lost"}]
    BY <1>31 DEF Crash, Surviving, Lose
  <2>13. crashes' \in Nat
    BY <1>31 DEF Crash, Surviving, Lose
  <2> QED
    BY <1>31, <2>1, <2>2, <2>3, <2>4, <2>5, <2>6, <2>7, <2>8, <2>9, <2>10, <2>11, <2>12, <2>13 DEF Crash, Surviving, Lose
<1>32. ASSUME Tick PROVE CoreType'
  BY <1>32, SMTT(30) DEF Tick
<1>33. CASE UNCHANGED vars
  BY <1>33
<1>34. QED
  BY <1>1, <1>2, <1>3, <1>4, <1>5, <1>6, <1>7, <1>8, <1>9, <1>10, <1>11, <1>12, <1>13, <1>14, <1>15, <1>16, <1>17, <1>18, <1>19, <1>20, <1>21, <1>22, <1>23, <1>24, <1>25, <1>26, <1>27, <1>28, <1>29, <1>30, <1>31, <1>32, <1>33 DEF Next, TaskStep, AskStep

LEMMA SideNext == TypeOK /\ [Next]_vars => SideType'
<1> SUFFICES ASSUME TypeOK, [Next]_vars PROVE SideType'
  OBVIOUS
<1> USE DEF vars, dbVars, rowVars, runVars, taskVars, workVars, billVars,
            askVars, injVars, conVars, histVars
<1>0. /\ ed \in [Editors -> {"new", "read", "done"}]
      /\ raced \in BOOLEAN /\ unpaid \in Nat
  BY DEF TypeOK
<1>1. ASSUME NEW r \in Runs, NEW w \in Workers, RequestRound(r, w) PROVE SideType'
  BY <1>0, <1>1 DEF RequestRound, SideType
<1>2. ASSUME NEW r \in Runs, CommitReply(r) PROVE SideType'
  <2>1. UNCHANGED <<ed, raced>> /\ unpaid' \in {unpaid, unpaid + 1}
    BY <1>2 DEF CommitReply, CommitRow
  <2> QED
    BY <1>0, <2>1 DEF SideType
<1>3. ASSUME NEW r \in Runs, TaskStep(r), ~CommitReply(r) PROVE SideType'
  <2>1. UNCHANGED <<ed, raced, unpaid>>
    BY <1>3 DEF TaskStep, ForceReset, Reserve, QuotaSpent, BeginRound, NothingToRun,
       GatherEnds, TakeQuestion, TakePersona, RoundSpoken, Drain, CommitQuestion,
       CommitAnswer, CommitRow, CommitFails, EndRound, Refund
  <2> QED
    BY <1>0, <2>1 DEF SideType
<1>4. ASSUME NEW q \in Questions,
             AskStep(q) \/ \E w \in Workers : AskAdmit(q, w) \/ FollowAdmit(q, w)
      PROVE  SideType'
  BY <1>0, <1>4 DEF AskStep, AskEnqueue, AskRefuse, FollowQuestion, FollowAnswer,
     FollowFails, AskAdmit, FollowAdmit, SideType
<1>5. ASSUME NEW i \in Injectors, InjectRead(i) \/ InjectCommit(i) PROVE SideType'
  BY <1>0, <1>5 DEF InjectRead, InjectCommit, SideType
<1>6. ASSUME NEW c \in Concluders, \/ \E w \in Workers : ConcludeStart(c, w)
                                   \/ ConcludeCommit(c) \/ ConcludeFails(c)
      PROVE  SideType'
  BY <1>0, <1>6 DEF ConcludeStart, ConcludeCommit, ConcludeFails, SideType
<1>7. ASSUME NEW e \in Editors, EditRead(e) \/ EditCommit(e) PROVE SideType'
  BY <1>0, <1>7 DEF EditRead, EditCommit, SideType
<1>8. ASSUME Delete \/ Tick \/ (\E w \in Workers : Crash(w)) \/ UNCHANGED vars
      PROVE  SideType'
  BY <1>0, <1>8 DEF Delete, Tick, Crash, SideType
<1> QED
  BY <1>1, <1>2, <1>3, <1>4, <1>5, <1>6, <1>7, <1>8 DEF Next

LEMMA NextType == TypeOK /\ [Next]_vars => TypeOK'
<1>1. CoreType' /\ SideType' => TypeOK'
  BY DEF CoreType, SideType, TypeOK, TurnType, Kinds, Statuses, RunPcs, AskPcs
<1> QED
  BY <1>1, CoreNext, SideNext

\* The type invariant holds in every reachable state.
THEOREM TypeCorrect == Spec => []TypeOK
  BY InitType, NextType, PTL DEF Spec

-----------------------------------------------------------------------------
(* Rounds and transcript.  DenseTurns, InjectsLandLast and RoundsOwned are not *)
(* inductive: a turn is committed at the runner's own counter, and nothing in  *)
(* them says how that counter relates to the rows.  RoundInv adds it.          *)

\* Not yet in a round.
Early(r) == pc[r] \in {"idle", "recover", "reserve", "spawned"}

\* No round number in use is above the row's.
Numbered ==
    /\ \A r \in Runs : rnd[r] <= round
    /\ \A t \in turns : t.round <= round
    /\ \A q \in Questions : askRound[q] <= round
    /\ \A i \in Injectors : injRound[i] <= round
\* A round is numbered from 0.
FromZero == \A r \in Runs : Early(r) => idx[r] = 0
\* Live runners own their rounds.
Owned == \A r, s \in Runs : Live(r) /\ Live(s) /\ rnd[r] = rnd[s] => r = s
\* Every index below a runner's counter is in the transcript.
Filled == exists => \A r \in Runs : Live(r) =>
             \A i \in Nat : i < idx[r] => i \in Indices(rnd[r])
\* What was injected into a runner's round is not below its counter.
InjectsAhead == \A r \in Runs : Live(r) =>
             \A t \in OfKind("inject") : t.round = rnd[r] => t.idx >= idx[r]

RoundInv == /\ Numbered /\ FromZero /\ Owned /\ Filled /\ InjectsAhead
            /\ DenseTurns /\ InjectsLandLast

LEMMA InitRound == Init => RoundInv
  BY DEF Init, RoundInv, Numbered, FromZero, Owned, Filled, InjectsAhead,
         DenseTurns, InjectsLandLast, OfKind, Live, Early

\* A step that leaves rounds, rows and counters alone and lets nobody enter a
\* round keeps the invariant.
LEMMA QuietStep ==
    ASSUME RoundInv,
           UNCHANGED <<exists, round, turns, rnd, idx, askRound, injRound>>,
           \A r \in Runs : (Live(r)' => Live(r)) /\ (Early(r)' => Early(r))
    PROVE  RoundInv'
  BY DEF RoundInv, Numbered, FromZero, Owned, Filled, InjectsAhead,
         DenseTurns, InjectsLandLast, OfKind, Indices

\* A request or a task that ends gives its round number and counter back.
LEMMA EndStep ==
    ASSUME TypeOK, RoundInv,
           UNCHANGED <<exists, round, turns, askRound, injRound>>,
           \A r \in Runs : \/ pc'[r] = "idle" /\ rnd'[r] = 0 /\ idx'[r] = 0
                           \/ pc'[r] = pc[r] /\ rnd'[r] = rnd[r] /\ idx'[r] = idx[r]
    PROVE  RoundInv'
<1> USE DEF TypeOK, RoundInv
<1>1. Numbered'
  <2>1. ASSUME NEW r \in Runs PROVE rnd'[r] <= round
    <3>1. rnd[r] <= round /\ 0 <= round
      BY DEF Numbered
    <3>2. rnd'[r] = 0 \/ rnd'[r] = rnd[r]
      OBVIOUS
    <3>3. QED
      BY <3>1, <3>2
  <2>2. QED
    BY <2>1 DEF Numbered
<1>2. FromZero'
  BY DEF FromZero, Early
<1>3. Owned'
  <2> SUFFICES ASSUME NEW r \in Runs, NEW s \in Runs, Live(r)', Live(s)',
                      rnd'[r] = rnd'[s]
               PROVE  r = s
    BY DEF Owned
  <2>1. Live(r) /\ rnd'[r] = rnd[r]
    BY DEF Live
  <2>2. Live(s) /\ rnd'[s] = rnd[s]
    BY DEF Live
  <2>3. QED
    BY <2>1, <2>2 DEF Owned
<1>4. Filled'
  <2> SUFFICES ASSUME exists, NEW r \in Runs, Live(r)' PROVE
               \A i \in Nat : i < idx'[r] => i \in Indices(rnd'[r])
    BY DEF Filled, Indices
  <2>1. Live(r) /\ rnd'[r] = rnd[r] /\ idx'[r] = idx[r]
    BY DEF Live
  <2>2. QED
    BY <2>1 DEF Filled
<1>5. InjectsAhead'
  BY DEF InjectsAhead, Live, OfKind
<1>6. (DenseTurns /\ InjectsLandLast)'
  BY DEF DenseTurns, InjectsLandLast, Indices, OfKind
<1>7. QED
  BY <1>1, <1>2, <1>3, <1>4, <1>5, <1>6

\* A turn appended at the end of a round that was opened.
LEMMA AppendStep ==
    ASSUME TypeOK, RoundInv, exists,
           NEW n \in Nat, n <= round,
           NEW k \in Kinds \ {Persona}, AppendTo(n, k),
           UNCHANGED <<exists, round, pc, rnd, idx, askRound, injRound>>
    PROVE  RoundInv'
<1> USE DEF TypeOK
<1>1. PICK j \in NextIn(n) : IsNext(n, j) /\ turns' = turns \cup {Turn(n, j, k)}
  BY DEF AppendTo
<1>2. j \in Nat
  BY DEF NextIn, Indices, TurnType
<1> DEFINE new == Turn(n, j, k)
<1>3. new.round = n /\ new.idx = j /\ new.kind = k
  BY DEF Turn
<1> HIDE DEF new
<1>4. turns' = turns \cup {new} /\ (\A t \in turns : t.round \in Nat /\ t.idx \in Nat)
  BY <1>1 DEF new, TurnType
<1>5. \A m : Indices(m) \subseteq Indices(m)'
  BY <1>4 DEF Indices
<1>6. \A t \in turns : t.round = n => t.idx < j
  <2>1. \A t \in turns : t.round = n => t.idx \in Indices(n)
    BY DEF Indices
  <2>2. QED
    BY <1>1, <2>1 DEF IsNext
<1>7. j > 0 => j - 1 \in Indices(n)
  BY <1>1, <1>2 DEF IsNext
<1>8. Numbered'
  BY <1>3, <1>4 DEF RoundInv, Numbered
<1>9. FromZero' /\ Owned'
  BY DEF RoundInv, FromZero, Owned, Early, Live
<1>10. Filled'
  BY <1>5 DEF RoundInv, Filled, Live
<1>11. InjectsAhead'
  <2> SUFFICES ASSUME NEW r \in Runs, Live(r)', NEW t \in OfKind("inject")',
                      t.round = rnd[r]
               PROVE  t.idx >= idx[r]
    BY DEF InjectsAhead
  <2>1. Live(r)
    BY DEF Live
  <2>2. CASE t \in turns
    BY <2>1, <2>2 DEF RoundInv, InjectsAhead, OfKind
  <2>3. CASE t = new
    <3>1. rnd[r] = n
      BY <1>3, <2>3
    <3>2. CASE idx[r] = 0
      BY <1>2, <1>3, <2>3, <3>2
    <3>3. CASE idx[r] > 0
      <4>1. idx[r] - 1 \in Indices(n)
        <5>1. idx[r] - 1 \in Nat /\ idx[r] - 1 < idx[r]
          BY <3>3
        <5>2. QED
          BY <2>1, <3>1, <5>1 DEF RoundInv, Filled
      <4>2. PICK u \in turns : u.round = n /\ u.idx = idx[r] - 1
        BY <4>1 DEF Indices
      <4>3. QED
        BY <1>2, <1>3, <1>6, <2>3, <4>2, SMTT(30)
    <3>4. QED
      BY <3>2, <3>3
  <2>4. QED
    BY <1>4, <2>2, <2>3 DEF OfKind
<1>12. DenseTurns'
  <2>1. \A t, u \in turns' : t.round = u.round /\ t.idx = u.idx => t = u
    BY <1>2, <1>3, <1>4, <1>6 DEF RoundInv, DenseTurns
  <2>2. \A t \in turns' : t.idx > 0 => t.idx - 1 \in Indices(t.round)'
    BY <1>3, <1>4, <1>5, <1>7 DEF RoundInv, DenseTurns
  <2>3. QED
    BY <2>1, <2>2 DEF DenseTurns
<1>13. InjectsLandLast'
  <2> SUFFICES ASSUME NEW t \in OfKind("inject")', NEW u \in OfKind(Persona)',
                      t.round = u.round
               PROVE  u.idx < t.idx
    BY DEF InjectsLandLast
  <2>1. u \in turns
    BY <1>3, <1>4 DEF OfKind
  <2>2. CASE t \in turns
    BY <2>1, <2>2 DEF RoundInv, InjectsLandLast, OfKind
  <2>3. CASE t = new
    BY <1>3, <1>6, <2>1, <2>3
  <2>4. QED
    BY <1>4, <2>2, <2>3 DEF OfKind
<1>14. QED
  BY <1>8, <1>9, <1>10, <1>11, <1>12, <1>13 DEF RoundInv

\* A runner commits a turn that is not an injection at its own counter.
LEMMA CommitStep ==
    ASSUME TypeOK, RoundInv, exists,
           NEW r \in Runs, Live(r), pc'[r] \in {"speak", "boundary"},
           NEW k \in Kinds \ {"inject"},
           Free(rnd[r], idx[r]),
           turns' = turns \cup {Turn(rnd[r], idx[r], k)},
           idx' = [idx EXCEPT ![r] = @ + 1],
           \A s \in Runs \ {r} : pc'[s] = pc[s],
           UNCHANGED <<exists, round, rnd, askRound, injRound>>
    PROVE  RoundInv'
<1> USE DEF TypeOK
<1> DEFINE new == Turn(rnd[r], idx[r], k)
<1>1. new.round = rnd[r] /\ new.idx = idx[r] /\ new.kind = k
  BY DEF Turn
<1> HIDE DEF new
<1>2. turns' = turns \cup {new} /\ (\A t \in turns : t.round \in Nat /\ t.idx \in Nat)
  BY DEF new, TurnType
<1>3. \A m : Indices(m) \subseteq Indices(m)'
  BY <1>2 DEF Indices
<1>4. idx[r] \in Indices(rnd[r])'
  BY <1>1, <1>2 DEF Indices
<1>5. \A s \in Runs : Live(s)' => Live(s)
  BY DEF Live
<1>6. \A s \in Runs : idx'[s] = IF s = r THEN idx[r] + 1 ELSE idx[s]
  OBVIOUS
<1>7. \A t \in turns : ~(t.round = rnd[r] /\ t.idx = idx[r])
  BY DEF Free, Indices
<1>8. Numbered'
  BY <1>1, <1>2 DEF RoundInv, Numbered
<1>9. FromZero'
  BY <1>6 DEF RoundInv, FromZero, Early
<1>10. Owned'
  BY <1>5 DEF RoundInv, Owned
<1>11. Filled'
  <2> SUFFICES ASSUME NEW s \in Runs, Live(s)', NEW i \in Nat, i < idx'[s]
               PROVE  i \in Indices(rnd[s])'
    BY DEF Filled
  <2>1. CASE i < idx[s]
    BY <1>3, <1>5, <2>1 DEF RoundInv, Filled
  <2>2. CASE ~(i < idx[s])
    <3>1. s = r /\ i = idx[r]
      BY <1>6, <2>2
    <3>2. QED
      BY <1>4, <3>1
  <2>3. QED
    BY <2>1, <2>2
<1>12. InjectsAhead'
  <2> SUFFICES ASSUME NEW s \in Runs, Live(s)', NEW t \in OfKind("inject")',
                      t.round = rnd[s]
               PROVE  t.idx >= idx'[s]
    BY DEF InjectsAhead
  <2>1. t \in turns /\ t \in OfKind("inject")
    BY <1>1, <1>2 DEF OfKind
  <2>2. t.idx >= idx[s] /\ t.idx \in Nat
    BY <1>2, <1>5, <2>1 DEF RoundInv, InjectsAhead
  <2>3. CASE s = r
    <3>1. t.idx # idx[r]
      BY <1>7, <2>1, <2>3
    <3>2. idx'[s] = idx[r] + 1 /\ idx[r] \in Nat
      BY <1>6, <2>3
    <3> HIDE DEF TypeOK
    <3>3. QED
      BY <2>2, <2>3, <3>1, <3>2
  <2>4. CASE s # r
    BY <1>6, <2>2, <2>4
  <2>5. QED
    BY <2>3, <2>4
<1>13. DenseTurns'
  <2>1. \A t, u \in turns' : t.round = u.round /\ t.idx = u.idx => t = u
    BY <1>1, <1>2, <1>7, SMTT(30) DEF RoundInv, DenseTurns
  <2>2. idx[r] > 0 => idx[r] - 1 \in Indices(rnd[r])
    <3>1. \A i \in Nat : i < idx[r] => i \in Indices(rnd[r])
      BY DEF RoundInv, Filled
    <3>2. idx[r] > 0 => idx[r] - 1 \in Nat /\ idx[r] - 1 < idx[r]
      <4>1. idx[r] \in Nat
        OBVIOUS
      <4> QED
        BY <4>1
    <3> QED
      BY <3>1, <3>2
  <2>3. \A t \in turns' : t.idx > 0 => t.idx - 1 \in Indices(t.round)'
    BY <1>1, <1>2, <1>3, <2>2 DEF RoundInv, DenseTurns
  <2>4. QED
    BY <2>1, <2>3 DEF DenseTurns
<1>14. InjectsLandLast'
  <2> SUFFICES ASSUME NEW t \in OfKind("inject")', NEW u \in OfKind(Persona)',
                      t.round = u.round
               PROVE  u.idx < t.idx
    BY DEF InjectsLandLast
  <2>1. t \in turns /\ t \in OfKind("inject")
    BY <1>1, <1>2 DEF OfKind
  <2>2. CASE u \in turns
    BY <2>1, <2>2 DEF RoundInv, InjectsLandLast, OfKind
  <2>3. CASE u = new
    <3>1. t.idx >= idx[r]
      BY <1>1, <2>1, <2>3 DEF RoundInv, InjectsAhead
    <3>2. QED
      BY <1>1, <1>2, <1>7, <2>1, <2>3, <3>1, SMTT(30)
  <2>4. QED
    BY <1>2, <2>2, <2>3 DEF OfKind
<1>15. QED
  BY <1>8, <1>9, <1>10, <1>11, <1>12, <1>13, <1>14 DEF RoundInv

LEMMA NextRound == TypeOK /\ RoundInv /\ [Next]_vars => RoundInv'
<1> SUFFICES ASSUME TypeOK, RoundInv, [Next]_vars PROVE RoundInv'
  OBVIOUS
<1> USE DEF vars, dbVars, rowVars, runVars, taskVars, workVars, billVars,
            askVars, injVars, conVars, histVars
<1>1. ASSUME NEW r \in Runs, NEW w \in Workers, RequestRound(r, w)
      PROVE  RoundInv'
  <2>1. \A s \in Runs : (Live(s)' => Live(s)) /\ (Early(s)' => Early(s))
    BY <1>1 DEF RequestRound, TypeOK, Live, Early
  <2> QED
    BY <1>1, <2>1, QuietStep DEF RequestRound
<1>2. ASSUME NEW r \in Runs, ForceReset(r)
      PROVE  RoundInv'
  <2>1. \A s \in Runs : (Live(s)' => Live(s)) /\ (Early(s)' => Early(s))
    BY <1>2 DEF ForceReset, ResetRow, TypeOK, Live, Early
  <2> QED
    BY <1>2, <2>1, QuietStep DEF ForceReset, ResetRow
<1>3. ASSUME NEW r \in Runs, Reserve(r)
      PROVE  RoundInv'
  <2>1. \A s \in Runs : (Live(s)' => Live(s)) /\ (Early(s)' => Early(s))
    BY <1>3 DEF Reserve, TypeOK, Live, Early
  <2> QED
    BY <1>3, <2>1, QuietStep DEF Reserve
<1>4. ASSUME NEW r \in Runs, QuotaSpent(r)
      PROVE  RoundInv'
  BY <1>4, EndStep DEF QuotaSpent, Settled, TypeOK
<1>5. ASSUME NEW r \in Runs, BeginRound(r)
      PROVE  RoundInv'
  <2> USE DEF TypeOK
  <2>1. /\ round' = round + 1 /\ \A s \in Runs : rnd'[s] = IF s = r THEN round + 1 ELSE rnd[s]
        /\ \A s \in Runs \ {r} : pc'[s] = pc[s]
        /\ UNCHANGED <<exists, turns, idx, askRound, injRound>>
        /\ pc[r] = "spawned" /\ pc'[r] = "gather"
    BY <1>5 DEF BeginRound
  <2>2. \A s \in Runs \ {r} : (Live(s)' <=> Live(s)) /\ (Early(s)' <=> Early(s))
    BY <2>1 DEF Live, Early
  <2>3. \A t \in turns : t.round \in Nat /\ t.round # round + 1
    BY SMTT(30) DEF RoundInv, Numbered, TurnType
  <2>4. idx[r] = 0
    BY <2>1 DEF RoundInv, FromZero, Early
  <2>5. Numbered'
    <3>1. /\ \A s \in Runs : rnd[s] \in Nat /\ rnd[s] <= round
          /\ \A t \in turns : t.round \in Nat /\ t.round <= round
          /\ \A q \in Questions : askRound[q] \in Nat /\ askRound[q] <= round
          /\ \A i \in Injectors : injRound[i] \in Nat /\ injRound[i] <= round
      BY DEF RoundInv, Numbered, TurnType
    <3>2. ASSUME NEW s \in Runs PROVE rnd'[s] <= round + 1
      <4>1. rnd'[s] = round + 1 \/ rnd'[s] = rnd[s]
        BY <2>1
      <4>2. rnd[s] <= round /\ rnd[s] \in Nat
        BY <3>1
      <4>3. rnd[s] <= round + 1
        BY <4>2
      <4>4. round + 1 <= round + 1
        OBVIOUS
      <4>5. QED
        BY <4>1, <4>3, <4>4
    <3>3. /\ \A t \in turns : t.round <= round + 1
          /\ \A q \in Questions : askRound[q] <= round + 1
          /\ \A i \in Injectors : injRound[i] <= round + 1
      BY <3>1, SMTT(30)
    <3>4. QED
      BY <2>1, <3>2, <3>3 DEF Numbered
  <2>6. FromZero' /\ Filled'
    <3>1. FromZero'
      BY <2>1, <2>2 DEF RoundInv, FromZero, Early
    <3>2. \A i \in Nat : ~(i < idx[r])
      BY <2>4
    <3>3. \A s \in Runs \ {r} : Live(s)' /\ exists =>
             \A i \in Nat : i < idx[s] => i \in Indices(rnd'[s])
      BY <2>1, <2>2 DEF RoundInv, Filled
    <3>4. ASSUME exists', NEW s \in Runs, Live(s)', NEW i \in Nat, i < idx'[s]
          PROVE  i \in Indices(rnd'[s])
      BY <2>1, <3>2, <3>3, <3>4
    <3>5. \A n : Indices(n)' = Indices(n)
      BY <2>1 DEF Indices
    <3>6. QED
      BY <3>1, <3>4, <3>5 DEF Filled
  <2>7. Owned'
    <3>1. \A s \in Runs : rnd[s] \in Nat /\ rnd[s] # round + 1
      BY DEF RoundInv, Numbered
    <3> SUFFICES ASSUME NEW p \in Runs, NEW s \in Runs, Live(p)', Live(s)',
                        rnd'[p] = rnd'[s]
                 PROVE  p = s
      BY DEF Owned
    <3>2. CASE p = r
      BY <2>1, <3>1, <3>2
    <3>3. CASE s = r
      BY <2>1, <3>1, <3>3
    <3>4. CASE p # r /\ s # r
      BY <2>1, <2>2, <3>4 DEF RoundInv, Owned
    <3>5. QED
      BY <3>2, <3>3, <3>4
  <2>8. InjectsAhead'
    BY <2>1, <2>2, <2>3 DEF RoundInv, InjectsAhead, OfKind
  <2>9. (DenseTurns /\ InjectsLandLast)'
    BY <2>1 DEF RoundInv, DenseTurns, InjectsLandLast, Indices, OfKind
  <2> QED
    BY <2>5, <2>6, <2>7, <2>8, <2>9 DEF RoundInv
<1>6. ASSUME NEW r \in Runs, NothingToRun(r)
      PROVE  RoundInv'
  <2>1. \A s \in Runs : (Live(s)' => Live(s)) /\ (Early(s)' => Early(s))
    BY <1>6 DEF NothingToRun, TypeOK, Live, Early
  <2> QED
    BY <1>6, <2>1, QuietStep DEF NothingToRun
<1>7. ASSUME NEW r \in Runs, GatherEnds(r)
      PROVE  RoundInv'
  <2>1. \A s \in Runs : (Live(s)' => Live(s)) /\ (Early(s)' => Early(s))
    BY <1>7 DEF GatherEnds, TypeOK, Live, Early
  <2> QED
    BY <1>7, <2>1, QuietStep DEF GatherEnds
<1>8. ASSUME NEW r \in Runs, TakeQuestion(r)
      PROVE  RoundInv'
  <2>1. \A s \in Runs : (Live(s)' => Live(s)) /\ (Early(s)' => Early(s))
    BY <1>8 DEF TakeQuestion, Drain, TypeOK, Live, Early
  <2> QED
    BY <1>8, <2>1, QuietStep DEF TakeQuestion, Drain
<1>9. ASSUME NEW r \in Runs, TakePersona(r)
      PROVE  RoundInv'
  <2>1. \A s \in Runs : (Live(s)' => Live(s)) /\ (Early(s)' => Early(s))
    BY <1>9 DEF TakePersona, Drain, TypeOK, Live, Early
  <2> QED
    BY <1>9, <2>1, QuietStep DEF TakePersona, Drain
<1>10. ASSUME NEW r \in Runs, RoundSpoken(r)
      PROVE  RoundInv'
  <2>1. \A s \in Runs : (Live(s)' => Live(s)) /\ (Early(s)' => Early(s))
    BY <1>10 DEF RoundSpoken, Drain, TypeOK, Live, Early
  <2> QED
    BY <1>10, <2>1, QuietStep DEF RoundSpoken, Drain
<1>11. ASSUME NEW r \in Runs, CommitQuestion(r)
      PROVE  RoundInv'
  <2>1. Live(r) /\ "question" \in Kinds \ {"inject"}
    BY <1>11 DEF CommitQuestion, Live, Kinds, Persona
  <2> QED
    BY <1>11, <2>1, CommitStep DEF CommitQuestion, TypeOK
<1>12. ASSUME NEW r \in Runs, CommitReply(r)
      PROVE  RoundInv'
  <2>1. Live(r) /\ Persona \in Kinds \ {"inject"}
    BY <1>12 DEF CommitReply, CommitRow, Live, Kinds, Persona
  <2> QED
    BY <1>12, <2>1, CommitStep DEF CommitReply, CommitRow, TypeOK
<1>13. ASSUME NEW r \in Runs, CommitAnswer(r)
      PROVE  RoundInv'
  <2>1. Live(r) /\ "answer" \in Kinds \ {"inject"}
    BY <1>13 DEF CommitAnswer, CommitRow, Live, Kinds, Persona
  <2> QED
    BY <1>13, <2>1, CommitStep DEF CommitAnswer, CommitRow, TypeOK
<1>14. ASSUME NEW r \in Runs, CommitFails(r)
      PROVE  RoundInv'
  <2>1. \A s \in Runs : (Live(s)' => Live(s)) /\ (Early(s)' => Early(s))
    BY <1>14 DEF CommitFails, TypeOK, Live, Early
  <2> QED
    BY <1>14, <2>1, QuietStep DEF CommitFails
<1>15. ASSUME NEW r \in Runs, EndRound(r)
      PROVE  RoundInv'
  <2>1. \A s \in Runs : (Live(s)' => Live(s)) /\ (Early(s)' => Early(s))
    BY <1>15 DEF EndRound, ResetRow, TypeOK, Live, Early
  <2> QED
    BY <1>15, <2>1, QuietStep DEF EndRound, ResetRow
<1>16. ASSUME NEW r \in Runs, Refund(r)
      PROVE  RoundInv'
  BY <1>16, EndStep DEF Refund, Settled, TypeOK
<1>17. ASSUME NEW q \in Questions, NEW w \in Workers, AskAdmit(q, w)
      PROVE  RoundInv'
  BY <1>17, QuietStep DEF AskAdmit, Live, Early
<1>18. ASSUME NEW q \in Questions, AskEnqueue(q)
      PROVE  RoundInv'
  BY <1>18, QuietStep DEF AskEnqueue, Live, Early
<1>19. ASSUME NEW q \in Questions, AskRefuse(q)
      PROVE  RoundInv'
  BY <1>19, QuietStep DEF AskRefuse, Live, Early
<1>20. ASSUME NEW q \in Questions, NEW w \in Workers, FollowAdmit(q, w)
      PROVE  RoundInv'
  <2>1. \A x \in Questions : askRound'[x] \in {askRound[x], round}
    BY <1>20 DEF FollowAdmit, TypeOK
  <2>2. Numbered'
    BY <1>20, <2>1 DEF FollowAdmit, RoundInv, Numbered, TypeOK
  <2>3. FromZero' /\ Owned' /\ Filled' /\ InjectsAhead' /\ DenseTurns' /\ InjectsLandLast'
    BY <1>20 DEF FollowAdmit, RoundInv, FromZero, Owned, Filled, InjectsAhead, DenseTurns,
                    InjectsLandLast, Indices, OfKind, Live, Early
  <2> QED
    BY <2>2, <2>3 DEF RoundInv
<1>21. ASSUME NEW q \in Questions, FollowQuestion(q)
      PROVE  RoundInv'
  <2>1. askRound[q] \in Nat /\ askRound[q] <= round /\ "question" \in Kinds \ {Persona}
    BY DEF TypeOK, RoundInv, Numbered, Kinds, Persona
  <2> QED
    BY <1>21, <2>1, AppendStep DEF FollowQuestion
<1>22. ASSUME NEW q \in Questions, FollowAnswer(q)
      PROVE  RoundInv'
  <2>1. askRound[q] \in Nat /\ askRound[q] <= round /\ "answer" \in Kinds \ {Persona}
    BY DEF TypeOK, RoundInv, Numbered, Kinds, Persona
  <2> QED
    BY <1>22, <2>1, AppendStep DEF FollowAnswer
<1>23. ASSUME NEW q \in Questions, FollowFails(q)
      PROVE  RoundInv'
  BY <1>23, QuietStep DEF FollowFails, Live, Early
<1>24. ASSUME NEW i \in Injectors, InjectRead(i)
      PROVE  RoundInv'
  <2>1. \A x \in Injectors : injRound'[x] \in {injRound[x], round}
    BY <1>24 DEF InjectRead, TypeOK
  <2>2. Numbered'
    BY <1>24, <2>1 DEF InjectRead, RoundInv, Numbered, TypeOK
  <2>3. FromZero' /\ Owned' /\ Filled' /\ InjectsAhead' /\ DenseTurns' /\ InjectsLandLast'
    BY <1>24 DEF InjectRead, RoundInv, FromZero, Owned, Filled, InjectsAhead, DenseTurns,
                    InjectsLandLast, Indices, OfKind, Live, Early
  <2> QED
    BY <2>2, <2>3 DEF RoundInv
<1>25. ASSUME NEW i \in Injectors, InjectCommit(i)
      PROVE  RoundInv'
  <2>1. injRound[i] \in Nat /\ injRound[i] <= round /\ "inject" \in Kinds \ {Persona}
    BY DEF TypeOK, RoundInv, Numbered, Kinds, Persona
  <2>2. CASE exists /\ AppendTo(injRound[i], "inject")
    BY <1>25, <2>1, <2>2, AppendStep DEF InjectCommit
  <2>3. CASE UNCHANGED turns
    BY <1>25, <2>3, QuietStep DEF InjectCommit, Live, Early
  <2> QED
    BY <1>25, <2>2, <2>3 DEF InjectCommit
<1>26. ASSUME NEW c \in Concluders, NEW w \in Workers, ConcludeStart(c, w)
      PROVE  RoundInv'
  BY <1>26, QuietStep DEF ConcludeStart, Live, Early
<1>27. ASSUME NEW c \in Concluders, ConcludeCommit(c)
      PROVE  RoundInv'
  BY <1>27, QuietStep DEF ConcludeCommit, Live, Early
<1>28. ASSUME NEW c \in Concluders, ConcludeFails(c)
      PROVE  RoundInv'
  BY <1>28, QuietStep DEF ConcludeFails, Live, Early
<1>29. ASSUME NEW e \in Editors, EditRead(e) \/ EditCommit(e)
      PROVE  RoundInv'
  BY <1>29, QuietStep DEF EditRead, EditCommit, Live, Early
<1>30. ASSUME Delete PROVE RoundInv'
  BY <1>30 DEF Delete, RoundInv, Numbered, FromZero, Owned, Filled, InjectsAhead,
                DenseTurns, InjectsLandLast, OfKind, Live, Early
<1>31. ASSUME NEW w \in Workers, Crash(w)
      PROVE  RoundInv'
  BY <1>31, EndStep DEF Crash, Surviving, TypeOK
<1>32. ASSUME Tick PROVE RoundInv'
  BY <1>32, QuietStep DEF Tick, Live, Early
<1>33. CASE UNCHANGED vars
  BY <1>33, QuietStep DEF Live, Early
<1>34. QED
  BY <1>1, <1>2, <1>3, <1>4, <1>5, <1>6, <1>7, <1>8, <1>9, <1>10, <1>11, <1>12, <1>13, <1>14, <1>15, <1>16, <1>17, <1>18, <1>19, <1>20, <1>21, <1>22, <1>23, <1>24, <1>25, <1>26, <1>27, <1>28, <1>29, <1>30, <1>31, <1>32, <1>33 DEF Next, TaskStep, AskStep

THEOREM RoundInvariant == Spec => []RoundInv
  BY InitRound, NextRound, TypeCorrect, PTL DEF Spec

\* Overlapping rounds never write under the same number.
THEOREM RoundsAreOwned == Spec => []RoundsOwned
<1>1. RoundInv => RoundsOwned
  BY DEF RoundInv, Numbered, Owned, RoundsOwned
<1>2. QED
  BY <1>1, RoundInvariant, PTL

\* The transcript has no hole and no two turns in one place.
THEOREM TranscriptIsDense == Spec => []DenseTurns
<1>1. RoundInv => DenseTurns
  BY DEF RoundInv
<1>2. QED
  BY <1>1, RoundInvariant, PTL

\* An injection sits after every persona reply of its round.
THEOREM InjectionsLandLast == Spec => []InjectsLandLast
<1>1. RoundInv => InjectsLandLast
  BY DEF RoundInv
<1>2. QED
  BY <1>1, RoundInvariant, PTL

-----------------------------------------------------------------------------
(* What it takes for two rounds to overlap.  A runner that has committed a    *)
(* reply is heard from within every turn (Beat), so the stale test of a POST  *)
(* cannot find it dead; then SerialInv holds until one of the three things    *)
(* that raced records has happened.                                           *)

\* _stale_threshold_seconds is twice the longest persona turn.
TurnFits == TurnMax <= StaleAfter

\* A reply counted, the row was touched within the turn that is being spoken.
BeatOf(r) ==
    /\ Early(r) \/ pc[r] = "gather" => completed[r] = 0
    /\ pc[r] \in {"boundary", "question"} => spent[r] = 0
    /\ pc[r] = "speak" => spent[r] <= TurnMax
    /\ completed[r] > 0 /\ Live(r) => age <= spent[r]
    /\ pc[r] = "ending" => spent[r] = 0
Beat == \A r \in Runs : BeatOf(r)

Busy(r) == Live(r) \/ Opening(r)

\* At most one request is opening a round or in one.
Alone == \A r, s \in Runs : Busy(r) /\ Busy(s) => r = s
\* A round that is being spoken shows in the row.
Running == \A r \in Runs : Live(r) => status = "running"
\* Nobody speaks in a round an injection is on its way to.
Apart == \A i \in Injectors : inj[i] = "read" =>
            \A r \in Runs : Live(r) => rnd[r] # injRound[i]

SerialInv == Alone /\ Running /\ Apart

LEMMA InitSerial == Init => Beat /\ SerialInv
  BY DEF Init, Beat, BeatOf, SerialInv, Alone, Running, Apart, Busy, Live, Opening, Early

\* What a step of a task does to the row's status and silence, and to the task:
\* every other task stays where it is, and a round is entered by BeginRound alone.
TaskMoves(r) ==
    /\ \A s \in Runs \ {r} : /\ pc'[s] = pc[s] /\ spent'[s] = spent[s]
                             /\ rnd'[s] = rnd[s] /\ completed'[s] = completed[s]
    /\ UNCHANGED <<inj, injRound, raced>>
    /\ age' \in {age, 0}
    /\ Busy(r)' => Busy(r)
    /\ BeatOf(r) => BeatOf(r)'
    /\ \/ pc[r] = "spawned" /\ pc'[r] = "gather" /\ rnd'[r] = round + 1
          /\ status' = "running"
       \/ /\ Live(r)' => Live(r) /\ rnd'[r] = rnd[r]
          /\ \/ status' = status
             \/ (pc[r] = "recover" \/ pc[r] = "ending") /\ ~Live(r)'

LEMMA TaskEffects ==
    ASSUME TypeOK, NEW r \in Runs, TaskStep(r)
    PROVE  TaskMoves(r)
<1> USE DEF vars, dbVars, rowVars, runVars, taskVars, workVars, billVars,
            askVars, injVars, conVars, histVars
<1>0. /\ pc \in [Runs -> RunPcs] /\ rnd \in [Runs -> Nat] /\ spent \in [Runs -> Nat]
      /\ completed \in [Runs -> Nat] /\ age \in Nat
  BY DEF TypeOK
<1>1. CASE ForceReset(r)
  BY <1>0, <1>1 DEF ForceReset, ResetRow, TaskMoves, BeatOf, Busy, Live, Opening, Early
<1>2. CASE Reserve(r)
  BY <1>0, <1>2 DEF Reserve, TaskMoves, BeatOf, Busy, Live, Opening, Early
<1>3. CASE QuotaSpent(r)
  BY <1>0, <1>3 DEF QuotaSpent, Settled, TaskMoves, BeatOf, Busy, Live, Opening, Early
<1>4. CASE BeginRound(r)
  BY <1>0, <1>4 DEF BeginRound, TaskMoves, BeatOf, Busy, Live, Opening, Early
<1>5. CASE NothingToRun(r)
  BY <1>0, <1>5 DEF NothingToRun, TaskMoves, BeatOf, Busy, Live, Opening, Early
<1>6. CASE GatherEnds(r)
  BY <1>0, <1>6 DEF GatherEnds, TaskMoves, BeatOf, Busy, Live, Opening, Early
<1>7. CASE TakeQuestion(r)
  BY <1>0, <1>7 DEF TakeQuestion, Drain, TaskMoves, BeatOf, Busy, Live, Opening, Early
<1>8. CASE TakePersona(r)
  BY <1>0, <1>8 DEF TakePersona, Drain, TaskMoves, BeatOf, Busy, Live, Opening, Early
<1>9. CASE RoundSpoken(r)
  BY <1>0, <1>9 DEF RoundSpoken, Drain, TaskMoves, BeatOf, Busy, Live, Opening, Early
<1>10. CASE CommitQuestion(r)
  BY <1>0, <1>10 DEF CommitQuestion, TaskMoves, BeatOf, Busy, Live, Opening, Early
<1>11. CASE CommitReply(r)
  BY <1>0, <1>11
     DEF CommitReply, CommitRow, AgeAfterTurn, TaskMoves, BeatOf, Busy, Live, Opening, Early
<1>12. CASE CommitAnswer(r)
  BY <1>0, <1>12
     DEF CommitAnswer, CommitRow, AgeAfterTurn, TaskMoves, BeatOf, Busy, Live, Opening, Early
<1>13. CASE CommitFails(r)
  BY <1>0, <1>13 DEF CommitFails, TaskMoves, BeatOf, Busy, Live, Opening, Early
<1>14. CASE EndRound(r)
  BY <1>0, <1>14 DEF EndRound, ResetRow, TaskMoves, BeatOf, Busy, Live, Opening, Early
<1>15. CASE Refund(r)
  BY <1>0, <1>15 DEF Refund, Settled, TaskMoves, BeatOf, Busy, Live, Opening, Early
<1> QED
  BY <1>1, <1>2, <1>3, <1>4, <1>5, <1>6, <1>7, <1>8, <1>9, <1>10, <1>11, <1>12, <1>13,
     <1>14, <1>15 DEF TaskStep

\* What a step of the other actors does: the row may be touched, nobody moves.
Bystands ==
    /\ UNCHANGED <<status, pc, rnd, spent, completed, injRound, raced>>
    /\ age' \in {age, 0}
    /\ \A i \in Injectors : inj'[i] = "read" => inj[i] = "read"

LEMMA OtherEffects ==
    ASSUME TypeOK, [Next]_vars
    PROVE  \/ \E r \in Runs : TaskStep(r) \/ \E w \in Workers : RequestRound(r, w)
           \/ Bystands
           \/ \E i \in Injectors : InjectRead(i)
           \/ \E c \in Concluders : ConcludeCommit(c)
           \/ \E w \in Workers : Crash(w)
           \/ Tick
<1> USE DEF vars, dbVars, rowVars, runVars, taskVars, workVars, billVars,
            askVars, injVars, conVars, histVars
<1>1. ASSUME NEW q \in Questions,
             AskStep(q) \/ \E w \in Workers : AskAdmit(q, w) \/ FollowAdmit(q, w)
      PROVE  Bystands
  BY <1>1 DEF Bystands, AskStep, AskEnqueue, AskRefuse, FollowQuestion, FollowAnswer,
              FollowFails, AskAdmit, FollowAdmit
<1>2. ASSUME NEW i \in Injectors, InjectCommit(i) PROVE Bystands
  BY <1>2 DEF Bystands, InjectCommit, TypeOK
<1>3. ASSUME NEW c \in Concluders,
             (\E w \in Workers : ConcludeStart(c, w)) \/ ConcludeFails(c)
      PROVE  Bystands
  BY <1>3 DEF Bystands, ConcludeStart, ConcludeFails
<1>4. ASSUME (\E e \in Editors : EditRead(e) \/ EditCommit(e)) \/ Delete \/ UNCHANGED vars
      PROVE  Bystands
  BY <1>4 DEF Bystands, EditRead, EditCommit, Delete
<1> QED
  BY <1>1, <1>2, <1>3, <1>4 DEF Next

LEMMA NextBeat == TypeOK /\ Beat /\ [Next]_vars => Beat'
<1> SUFFICES ASSUME TypeOK, Beat, [Next]_vars, NEW r \in Runs PROVE BeatOf(r)'
  BY DEF Beat
<1>0. /\ BeatOf(r) /\ spent[r] \in Nat /\ completed[r] \in Nat /\ age \in Nat
      /\ pc \in [Runs -> RunPcs] /\ spent \in [Runs -> Nat]
  BY DEF Beat, TypeOK
<1>1. ASSUME NEW s \in Runs, TaskStep(s) PROVE BeatOf(r)'
  <2>1. TaskMoves(s)
    BY <1>1, TaskEffects
  <2>2. CASE s = r
    BY <1>0, <2>1, <2>2 DEF TaskMoves
  <2>3. CASE s # r
    <3>1. /\ pc'[r] = pc[r] /\ spent'[r] = spent[r] /\ completed'[r] = completed[r]
          /\ age' \in {age, 0}
      BY <2>1, <2>3 DEF TaskMoves
    <3> QED
      BY <1>0, <3>1 DEF BeatOf, Live, Early
  <2> QED
    BY <2>2, <2>3
<1>2. ASSUME NEW s \in Runs, NEW w \in Workers, RequestRound(s, w) PROVE BeatOf(r)'
  <2>1. UNCHANGED <<spent, completed, age>>
    BY <1>2 DEF RequestRound, dbVars, rowVars
  <2>2. pc'[r] = pc[r] \/ (pc[r] = "idle" /\ pc'[r] \in {"recover", "reserve"})
    BY <1>0, <1>2 DEF RequestRound
  <2> QED
    BY <1>0, <2>1, <2>2 DEF BeatOf, Live, Early
<1>3. CASE Bystands
  BY <1>0, <1>3 DEF Bystands, BeatOf, Live, Early
<1>4. ASSUME NEW i \in Injectors, InjectRead(i) PROVE BeatOf(r)'
  <2>1. UNCHANGED <<pc, spent, completed, age>>
    BY <1>4 DEF InjectRead, dbVars, rowVars, runVars, taskVars, billVars
  <2> QED
    BY <1>0, <2>1 DEF BeatOf, Live, Early
<1>5. ASSUME NEW c \in Concluders, ConcludeCommit(c) PROVE BeatOf(r)'
  <2>1. UNCHANGED <<pc, spent, completed>> /\ age' = 0
    BY <1>5 DEF ConcludeCommit, runVars, taskVars, billVars
  <2> QED
    BY <1>0, <2>1 DEF BeatOf, Live, Early
<1>6. ASSUME NEW w \in Workers, Crash(w) PROVE BeatOf(r)'
  <2>1. /\ age' = age
        /\ \/ pc'[r] = "idle" /\ spent'[r] = 0 /\ completed'[r] = 0
           \/ pc'[r] = pc[r] /\ spent'[r] = spent[r] /\ completed'[r] = completed[r]
    BY <1>6 DEF Crash, Surviving, dbVars, rowVars
  <2> QED
    BY <1>0, <2>1 DEF BeatOf, Live, Early
<1>7. CASE Tick
  <2>1. /\ UNCHANGED <<pc, completed>> /\ age' = age + 1
        /\ spent'[r] = IF pc[r] \in {"gather", "speak"} THEN spent[r] + 1 ELSE spent[r]
        /\ pc[r] \notin {"boundary", "question", "ending"}
        /\ pc[r] = "speak" => spent[r] < TurnMax
    BY <1>7 DEF Tick, billVars
  <2> QED
    BY <1>0, <2>1 DEF BeatOf, Live, Early
<1> QED
  BY <1>1, <1>2, <1>3, <1>4, <1>5, <1>6, <1>7, OtherEffects

THEOREM AlwaysBeat == Spec => [](TypeOK /\ Beat)
  BY InitType, NextType, InitSerial, NextBeat, PTL DEF Spec

\* A request that finds the row stale finds no runner that has spoken.
LEMMA StaleIsSilent ==
    ASSUME TypeOK, Beat, TurnFits, Stale, NEW s \in Runs, Live(s)
    PROVE  completed[s] = 0
<1>1. BeatOf(s) /\ completed[s] \in Nat /\ spent[s] \in Nat /\ age \in Nat
  BY DEF Beat, TypeOK
<1>2. age > StaleAfter
  BY DEF Stale
<1>3. ASSUME completed[s] > 0 PROVE FALSE
  <2>1. age <= spent[s] /\ spent[s] <= TurnMax
    BY <1>1, <1>3 DEF BeatOf, Live, Early
  <2> QED
    BY <1>1, <1>2, <2>1 DEF TurnFits
<1> QED
  BY <1>1, <1>3

\* Nobody enters a round or opens one, and the row stays RUNNING while one runs.
LEMMA NobodyEnters ==
    ASSUME SerialInv,
           \A r \in Runs : (Busy(r)' => Busy(r)) /\ (Live(r)' => Live(r) /\ rnd'[r] = rnd[r]),
           status' = status \/ \A r \in Runs : ~Live(r)',
           \A i \in Injectors : inj'[i] = "read" => inj[i] = "read",
           injRound' = injRound
    PROVE  SerialInv'
  BY DEF SerialInv, Alone, Running, Apart

LEMMA NextSerial ==
    ASSUME TurnFits
    PROVE  TypeOK /\ RoundInv /\ Beat /\ (raced \/ SerialInv) /\ [Next]_vars
           => (raced \/ SerialInv)'
<1> SUFFICES ASSUME TypeOK, RoundInv, Beat, raced \/ SerialInv, [Next]_vars, ~raced'
             PROVE  SerialInv'
  OBVIOUS
<1> USE DEF vars, dbVars, rowVars, runVars, taskVars, workVars, billVars,
            askVars, injVars, conVars, histVars
<1>0. /\ pc \in [Runs -> RunPcs] /\ raced \in BOOLEAN
      /\ rnd \in [Runs -> Nat] /\ inj \in [Injectors -> {"new", "read", "done"}]
  BY DEF TypeOK
<1>1. ASSUME NEW r \in Runs, TaskStep(r) PROVE SerialInv'
  <2>1. TaskMoves(r)
    BY <1>1, TaskEffects
  <2>2. SerialInv
    BY <2>1 DEF TaskMoves
  <2>3. \A s \in Runs : Busy(s)' => Busy(s)
    BY <2>1 DEF TaskMoves, Busy, Live, Opening
  <2>4. \A s \in Runs \ {r} : Live(s)' => Live(s) /\ rnd'[s] = rnd[s]
    BY <2>1 DEF TaskMoves, Live
  <2>5. CASE pc[r] = "spawned" /\ pc'[r] = "gather" /\ rnd'[r] = round + 1 /\ status' = "running"
    <3>1. \A s \in Runs \ {r} : ~Busy(s) /\ ~Busy(s)'
      BY <2>2, <2>3, <2>5 DEF SerialInv, Alone, Busy, Opening
    <3>2. Alone' /\ Running'
      BY <2>5, <3>1 DEF Alone, Running
    <3>3. \A i \in Injectors : injRound[i] # round + 1
      BY DEF TypeOK, RoundInv, Numbered
    <3>4. Apart'
      BY <2>1, <2>5, <3>1, <3>3 DEF Apart, Busy, TaskMoves
    <3> QED
      BY <3>2, <3>4 DEF SerialInv
  <2>6. CASE (Live(r)' => Live(r) /\ rnd'[r] = rnd[r]) /\ status' = status
    BY <2>1, <2>2, <2>3, <2>4, <2>6, NobodyEnters DEF TaskMoves
  <2>7. CASE (pc[r] = "recover" \/ pc[r] = "ending") /\ ~Live(r)'
    <3>1. \A s \in Runs \ {r} : ~Live(s)
      BY <2>2, <2>7 DEF SerialInv, Alone, Busy, Live, Opening
    <3>2. \A s \in Runs : ~Live(s)'
      BY <2>4, <2>7, <3>1
    <3> QED
      BY <2>1, <2>2, <2>3, <3>2, NobodyEnters DEF TaskMoves
  <2> QED
    BY <2>1, <2>5, <2>6, <2>7 DEF TaskMoves
<1>2. ASSUME NEW r \in Runs, NEW w \in Workers, RequestRound(r, w) PROVE SerialInv'
  <2>1. /\ ~raced /\ \A s \in Runs : ~Opening(s) /\ ~(Live(s) /\ completed[s] = 0)
        /\ status = "running" => Stale
        /\ pc'[r] \in {"recover", "reserve"} /\ \A s \in Runs \ {r} : pc'[s] = pc[s]
        /\ UNCHANGED <<status, rnd, inj, injRound>>
    BY <1>0, <1>2 DEF RequestRound, Silent
  <2>2. \A s \in Runs : ~Live(s)
    BY <2>1, StaleIsSilent DEF SerialInv, Running
  <2>3. \A s \in Runs : ~Live(s)' /\ (s # r => ~Opening(s)')
    BY <2>1, <2>2 DEF Live, Opening
  <2> QED
    BY <2>3 DEF SerialInv, Alone, Running, Apart, Busy
<1>3. CASE Bystands
  BY <1>3, NobodyEnters DEF Bystands, Busy, Live, Opening
<1>4. ASSUME NEW i \in Injectors, InjectRead(i) PROVE SerialInv'
  <2>1. UNCHANGED <<status, pc, rnd, raced>> /\ status # "running"
    BY <1>4 DEF InjectRead
  <2>2. SerialInv /\ \A r \in Runs : ~Live(r)
    BY <2>1 DEF SerialInv, Running
  <2> QED
    BY <2>1, <2>2 DEF SerialInv, Alone, Running, Apart, Busy, Live, Opening
<1>5. ASSUME NEW c \in Concluders, ConcludeCommit(c) PROVE SerialInv'
  <2>1. UNCHANGED <<pc, rnd, inj, injRound>> /\ ~raced /\ \A r \in Runs : ~Live(r)
    BY <1>0, <1>5 DEF ConcludeCommit
  <2>2. \A r \in Runs : ~Live(r)' /\ (Busy(r)' => Busy(r))
    BY <2>1 DEF Live, Busy, Opening
  <2> QED
    BY <2>1, <2>2, NobodyEnters
<1>6. ASSUME NEW w \in Workers, Crash(w) PROVE SerialInv'
  <2>1. /\ UNCHANGED <<status, inj, injRound, raced>>
        /\ \A r \in Runs : \/ pc'[r] = "idle"
                           \/ pc'[r] = pc[r] /\ rnd'[r] = rnd[r]
    BY <1>6 DEF Crash, Surviving
  <2>2. \A r \in Runs : /\ Busy(r)' => Busy(r)
                        /\ Live(r)' => Live(r) /\ rnd'[r] = rnd[r]
    BY <2>1 DEF Busy, Live, Opening
  <2> QED
    BY <2>1, <2>2, NobodyEnters
<1>7. CASE Tick
  <2>1. UNCHANGED <<status, pc, rnd, inj, injRound, raced>>
    BY <1>7 DEF Tick
  <2> QED
    BY <2>1, NobodyEnters DEF Busy, Live, Opening
<1> QED
  BY <1>1, <1>2, <1>3, <1>4, <1>5, <1>6, <1>7, OtherEffects

THEOREM SerialUntilRaced == ASSUME TurnFits PROVE Spec => [](raced \/ SerialInv)
<1>1. TypeOK /\ RoundInv /\ Beat /\ (raced \/ SerialInv) /\ [Next]_vars
      => (raced \/ SerialInv)'
  BY NextSerial
<1>2. QED
  BY <1>1, InitSerial, AlwaysBeat, RoundInvariant, PTL DEF Spec

\* Two rounds overlap only after two requests were between reading the row and opening
\* their rounds at once, or a round was found stale before its first reply, or a
\* conclusion was committed into a round: the 409 of POST /round stops everything else,
\* whoever posts, for any number of tabs, workers, crashes and failed commits.
THEOREM OneRunnerUntilRaced == ASSUME TurnFits PROVE Spec => [](raced \/ OneRunner)
<1>1. SerialInv => OneRunner
  BY DEF SerialInv, Alone, Busy, OneRunner
<1>2. QED
  BY <1>1, SerialUntilRaced, PTL

\* A request that recovers a discussion for its silence takes it from no runner that has
\* committed a reply: whatever the posts, edits, conclusions and crashes around it, only
\* the gathering of the context and the first turn can outlast the threshold.
THEOREM StaleIsDead ==
    ASSUME TurnFits
    PROVE  Spec => [][\A r \in Runs : pc[r] = "idle" /\ pc'[r] = "recover"
                      => \A s \in Runs : Live(s) => completed[s] = 0]_vars
<1>1. TypeOK /\ Beat /\ [Next]_vars
      => [\A r \in Runs : pc[r] = "idle" /\ pc'[r] = "recover"
          => \A s \in Runs : Live(s) => completed[s] = 0]_vars
  <2> SUFFICES ASSUME TypeOK, Beat, [Next]_vars, NEW r \in Runs, pc[r] = "idle",
                      pc'[r] = "recover", NEW s \in Runs, Live(s)
               PROVE  completed[s] = 0
    OBVIOUS
  <2>0. pc \in [Runs -> RunPcs]
    BY DEF TypeOK
  <2> USE DEF vars, dbVars, rowVars, runVars, taskVars, workVars, billVars,
              askVars, injVars, conVars, histVars
  <2>1. ASSUME NEW t \in Runs, NEW w \in Workers, RequestRound(t, w) PROVE Stale
    BY <2>0, <2>1 DEF RequestRound
  <2>2. ASSUME NEW t \in Runs, TaskStep(t) PROVE FALSE
    <3>1. TaskMoves(t)
      BY <2>2, TaskEffects
    <3> QED
      BY <3>1 DEF TaskMoves, Busy, Live, Opening
  <2>3. pc' # pc
    OBVIOUS
  <2>4. ASSUME NEW w \in Workers, Crash(w) PROVE FALSE
    BY <2>4 DEF Crash, Surviving
  <2>5. \E t \in Runs : \E w \in Workers : RequestRound(t, w)
    BY <2>2, <2>3, <2>4, OtherEffects DEF Bystands, InjectRead, ConcludeCommit, Tick
  <2> QED
    BY <2>1, <2>5, StaleIsSilent
<1>2. QED
  BY <1>1, AlwaysBeat, PTL DEF Spec

\* Under the same three exceptions an injection is never committed into a round that is
\* still being spoken: the status is checked on a row read earlier, but a round opened
\* meanwhile is another round.
THEOREM InjectsBetween ==
    ASSUME TurnFits
    PROVE  Spec => [][raced \/ \A i \in Injectors :
                        inj[i] = "read" /\ inj'[i] = "done" /\ turns' # turns
                        => \A r \in Runs : Live(r) => rnd[r] # injRound[i]]_vars
<1>1. raced \/ SerialInv => [raced \/ \A i \in Injectors :
         inj[i] = "read" /\ inj'[i] = "done" /\ turns' # turns
         => \A r \in Runs : Live(r) => rnd[r] # injRound[i]]_vars
  BY DEF SerialInv, Apart
<1>2. QED
  BY <1>1, SerialUntilRaced, PTL

-----------------------------------------------------------------------------
(* Interjections: where they are kept.                                       *)

Items(s) == {s[k] : k \in 1..Len(s)}
\* A worker has the question queued, or a round has drained it.
Held(q) == \/ \E w \in Workers : q \in Items(pending[w])
           \/ \E r \in Runs : q \in Items(ahead[r]) \/ doing[r] = q
\* A question that was queued is charged for good.
Carried == {"queued", "asking", "answered", "lost"}
Carry == \A q \in Questions : Held(q) => ask[q] \in Carried

LEMMA ItemsOf ==
    ASSUME NEW s \in Seq(Questions), NEW t \in Seq(Questions)
    PROVE  /\ Items(<<>>) = {} /\ Items(s) \subseteq Questions
           /\ Items(s \o t) = Items(s) \cup Items(t)
           /\ \A q \in Questions : Items(Append(s, q)) = Items(s) \cup {q}
           /\ s # <<>> => Head(s) \in Items(s) /\ Items(Tail(s)) \subseteq Items(s)
<1>1. Items(<<>>) = {} /\ Items(s) \subseteq Questions
  BY DEF Items
<1>2. Items(s \o t) = Items(s) \cup Items(t)
  <2>1. ASSUME NEW k \in 1..Len(s \o t) PROVE (s \o t)[k] \in Items(s) \cup Items(t)
    <3>1. CASE k <= Len(s)
      BY <3>1 DEF Items
    <3>2. CASE k > Len(s)
      <4>1. (s \o t)[k] = t[k - Len(s)] /\ k - Len(s) \in 1..Len(t)
        BY <3>2
      <4> QED
        BY <4>1 DEF Items
    <3> QED
      BY <3>1, <3>2
  <2>2. ASSUME NEW k \in 1..Len(s) PROVE s[k] \in Items(s \o t)
    <3>1. k \in 1..Len(s \o t) /\ (s \o t)[k] = s[k]
      OBVIOUS
    <3> QED
      BY <3>1 DEF Items
  <2>3. ASSUME NEW k \in 1..Len(t) PROVE t[k] \in Items(s \o t)
    <3>1. Len(s) + k \in 1..Len(s \o t) /\ (s \o t)[Len(s) + k] = t[k]
      OBVIOUS
    <3> QED
      BY <3>1 DEF Items
  <2> QED
    BY <2>1, <2>2, <2>3 DEF Items
<1>3. ASSUME NEW q \in Questions PROVE Items(Append(s, q)) = Items(s) \cup {q}
  <2>1. Len(Append(s, q)) = Len(s) + 1 /\ Append(s, q)[Len(s) + 1] = q
        /\ \A k \in 1..Len(s) : Append(s, q)[k] = s[k]
    OBVIOUS
  <2>2. 1..(Len(s) + 1) = (1..Len(s)) \cup {Len(s) + 1}
    OBVIOUS
  <2> QED
    BY <2>1, <2>2 DEF Items
<1>4. ASSUME s # <<>> PROVE Head(s) \in Items(s) /\ Items(Tail(s)) \subseteq Items(s)
  <2>1. 1 \in 1..Len(s) /\ Head(s) = s[1]
    BY <1>4
  <2>2. \A k \in 1..Len(Tail(s)) : k + 1 \in 1..Len(s) /\ Tail(s)[k] = s[k + 1]
    BY <1>4
  <2> QED
    BY <2>1, <2>2 DEF Items
<1> QED
  BY <1>1, <1>2, <1>3, <1>4

LEMMA InitAsk == Init => Carry
  BY DEF Init, Carry, Held, Items

\* Nothing is put anywhere, and what is carried stays so.
LEMMA CarryStep ==
    ASSUME Carry,
           \A q \in Questions : ask[q] \in Carried => ask'[q] \in Carried,
           \A q \in Questions : Held(q)' => Held(q) \/ ask'[q] \in Carried
    PROVE  Carry'
  BY DEF Carry

LEMMA HeldSame ==
    ASSUME UNCHANGED <<pending, ahead, doing>> PROVE \A q : Held(q)' = Held(q)
  BY DEF Held

\* A boundary takes what its worker has queued.
LEMMA DrainStep ==
    ASSUME TypeOK, Carry, NEW r \in Runs, Drain(r),
           TakeQuestion(r) \/ TakePersona(r) \/ RoundSpoken(r)
    PROVE  /\ Carry'
           /\ \A q \in Questions : ask'[q] = ask[q] \/ (Held(q) /\ ask'[q] = "asking")
<1> DEFINE D == pending[at[r]]
<1>0. /\ pending \in [Workers -> Seq(Questions)] /\ ahead \in [Runs -> Seq(Questions)]
      /\ at \in [Runs -> Workers] /\ D \in Seq(Questions) /\ ahead[r] \in Seq(Questions)
      /\ doing \in [Runs -> Questions \cup {Persona}] /\ askAt \in [Questions -> Workers]
  BY DEF TypeOK
<1>1. /\ pending' = IF D = <<>> THEN pending ELSE [pending EXCEPT ![at[r]] = <<>>]
      /\ ask' = [q \in Questions |-> IF q \in Items(D) THEN "asking" ELSE ask[q]]
      /\ askAt' = askAt
  <2>1. \A q : (\E k \in 1..Len(D) : D[k] = q) <=> q \in Items(D)
    BY DEF Items
  <2> QED
    BY <2>1 DEF Drain, Drained, askVars
<1>2. Items(Waiting(r)) = Items(D) \cup Items(ahead[r]) /\ Waiting(r) \in Seq(Questions)
  BY <1>0, ItemsOf, WaitingType DEF Waiting, Drained
<1>3. \A w \in Workers : Items(pending'[w]) \subseteq Items(pending[w])
  <2>1. Items(<<>>) = {}
    BY <1>0, ItemsOf
  <2> QED
    BY <1>0, <1>1, <2>1
<1>4. \A s \in Runs : Items(ahead'[s]) \subseteq Items(ahead[s]) \cup Items(D)
  <2>1. CASE TakeQuestion(r)
    <3>1. ahead' = [ahead EXCEPT ![r] = Tail(Waiting(r))] /\ Waiting(r) # <<>>
      BY <2>1 DEF TakeQuestion
    <3>2. Items(Tail(Waiting(r))) \subseteq Items(Waiting(r))
      BY <1>2, <3>1, ItemsOf
    <3> HIDE DEF D
    <3> QED
      BY <1>0, <1>2, <3>1, <3>2
  <2>2. CASE ahead' = ahead
    BY <2>2
  <2> QED
    BY <2>1, <2>2 DEF TakePersona, RoundSpoken, workVars
<1>5. \A s \in Runs : doing'[s] = doing[s] \/ doing'[s] \in Items(D) \cup Items(ahead[r])
  <2>1. CASE TakeQuestion(r)
    <3>1. doing' = [doing EXCEPT ![r] = Head(Waiting(r))] /\ Waiting(r) # <<>>
      BY <2>1 DEF TakeQuestion
    <3>2. Head(Waiting(r)) \in Items(Waiting(r))
      BY <1>2, <3>1, ItemsOf
    <3> HIDE DEF D
    <3> QED
      BY <1>0, <1>2, <3>1, <3>2
  <2>2. CASE doing' = doing
    BY <2>2
  <2> QED
    BY <2>1, <2>2 DEF TakePersona, RoundSpoken, workVars
<1>6. \A q \in Items(D) : q \in Questions /\ Held(q)
  BY <1>0, ItemsOf DEF Held
<1>7. \A q \in Questions : Held(q)' => Held(q)
  <2> HIDE DEF D
  <2> QED
    BY <1>3, <1>4, <1>5, <1>6 DEF Held
<1>8. \A q \in Questions : ask'[q] = ask[q] \/ (Held(q) /\ ask'[q] = "asking")
  BY <1>1, <1>6
<1>9. \A q \in Questions : ask[q] \in Carried => ask'[q] \in Carried
  BY <1>8 DEF Carried
<1> QED
  BY <1>7, <1>8, <1>9, CarryStep

LEMMA NextAsk == TypeOK /\ Carry /\ [Next]_vars => Carry'
<1> SUFFICES ASSUME TypeOK, Carry, [Next]_vars PROVE Carry'
  OBVIOUS
<1> USE DEF vars, dbVars, rowVars, runVars, taskVars, workVars, billVars,
            askVars, injVars, conVars, histVars
<1>0. /\ pending \in [Workers -> Seq(Questions)] /\ ahead \in [Runs -> Seq(Questions)]
      /\ doing \in [Runs -> Questions \cup {Persona}] /\ askAt \in [Questions -> Workers]
      /\ ask \in [Questions -> AskPcs] /\ at \in [Runs -> Workers]
      /\ Items(<<>>) = {}
  <2>1. <<>> \in Seq(Questions)
    OBVIOUS
  <2> QED
    BY <2>1, ItemsOf DEF TypeOK
<1>1. ASSUME UNCHANGED askVars,
             \A r \in Runs : Items(ahead'[r]) \subseteq Items(ahead[r]),
             \A r \in Runs : doing'[r] \in {doing[r], Persona}
      PROVE  Carry'
  <2>1. \A q \in Questions : Held(q)' => Held(q)
    BY <1>1 DEF Held
  <2> QED
    BY <1>1, <2>1, CarryStep
<1>2. ASSUME NEW r \in Runs, TaskStep(r) PROVE Carry'
  <2>1. CASE ForceReset(r) \/ Reserve(r) \/ BeginRound(r) \/ NothingToRun(r) \/ GatherEnds(r)
             \/ CommitQuestion(r) \/ EndRound(r)
    BY <1>0, <1>1, <2>1
       DEF ForceReset, Reserve, BeginRound, NothingToRun, GatherEnds, CommitQuestion, EndRound
  <2>2. CASE QuotaSpent(r) \/ Refund(r)
    BY <1>0, <1>1, <2>2 DEF QuotaSpent, Refund, Settled
  <2>3. CASE TakeQuestion(r) \/ TakePersona(r) \/ RoundSpoken(r)
    BY <2>3, DrainStep DEF TakeQuestion, TakePersona, RoundSpoken
  <2>4. CASE CommitReply(r)
    BY <1>0, <1>1, <2>4 DEF CommitReply, CommitRow
  <2>5. CASE CommitAnswer(r)
    <3>1. /\ UNCHANGED <<pending, askAt, ahead>> /\ doing[r] \in Questions
          /\ doing' = [doing EXCEPT ![r] = Persona]
          /\ ask' = [ask EXCEPT ![doing[r]] = "answered"]
      BY <1>0, <2>5 DEF CommitAnswer, CommitRow
    <3>2. \A q \in Questions : Held(q)' => Held(q)
      BY <1>0, <3>1 DEF Held
    <3>3. \A q \in Questions : ask'[q] = ask[q] \/ ask'[q] = "answered"
      BY <1>0, <3>1
    <3> QED
      BY <3>2, <3>3, CarryStep DEF Carried
  <2>6. CASE CommitFails(r)
    <3>1. /\ UNCHANGED <<pending, askAt>>
          /\ ahead' = [ahead EXCEPT ![r] = <<>>]
          /\ doing' = [doing EXCEPT ![r] = Persona]
          /\ ask' = Lose(Dropped(r))
      BY <2>6 DEF CommitFails
    <3>2. \A q \in Questions : Held(q)' => Held(q)
      BY <1>0, <3>1 DEF Held
    <3>3. \A q \in Questions : ask'[q] = ask[q] \/ ask'[q] = "lost"
      BY <3>1 DEF Lose
    <3> QED
      BY <3>2, <3>3, CarryStep DEF Carried
  <2> QED
    BY <1>2, <2>1, <2>2, <2>3, <2>4, <2>5, <2>6 DEF TaskStep
<1>3. ASSUME NEW q \in Questions, AskStep(q) \/ \E w \in Workers : AskAdmit(q, w) \/ FollowAdmit(q, w)
      PROVE  Carry'
  <2>1. CASE AskEnqueue(q)
    <3>1. /\ ask[q] = "admitted" /\ ask' = [ask EXCEPT ![q] = "queued"]
          /\ pending' = [pending EXCEPT ![askAt[q]] = Append(@, q)]
          /\ UNCHANGED <<askAt, ahead, doing>>
      BY <2>1 DEF AskEnqueue
    <3>2. askAt[q] \in Workers /\ pending[askAt[q]] \in Seq(Questions)
      BY <1>0
    <3>3. Items(Append(pending[askAt[q]], q)) = Items(pending[askAt[q]]) \cup {q}
      BY <3>2, ItemsOf
    <3>4. \A w \in Workers : Items(pending'[w]) = IF w = askAt[q] THEN Items(pending[w]) \cup {q}
                                                                  ELSE Items(pending[w])
      BY <1>0, <3>1, <3>2, <3>3
    <3>5. \A p \in Questions : Held(p)' => Held(p) \/ p = q
      <4>1. \A p : (\E w \in Workers : p \in Items(pending'[w]))
                  => (\E w \in Workers : p \in Items(pending[w])) \/ p = q
        BY <3>4
      <4>2. \A p : Held(p)' => (\E w \in Workers : p \in Items(pending'[w]))
                               \/ (\E r \in Runs : p \in Items(ahead[r]) \/ doing[r] = p)
        BY <3>1 DEF Held
      <4> QED
        BY <4>1, <4>2 DEF Held
    <3>6. ask'[q] = "queued" /\ \A p \in Questions : p # q => ask'[p] = ask[p]
      BY <1>0, <3>1
    <3> QED
      BY <3>1, <3>5, <3>6, CarryStep DEF Carried
  <2>2. ASSUME ask[q] \notin Carried, UNCHANGED <<pending, ahead, doing>>,
               \E s \in AskPcs : ask' = [ask EXCEPT ![q] = s]
        PROVE  Carry'
    <3>1. \A p \in Questions : p # q => ask'[p] = ask[p]
      BY <1>0, <2>2
    <3>2. \A p \in Questions : Held(p)' => Held(p)
      BY <2>2, HeldSame
    <3> QED
      BY <2>2, <3>1, <3>2, CarryStep
  <2>3. CASE AskRefuse(q)
    BY <2>2, <2>3 DEF AskRefuse, Carried, AskPcs
  <2>4. CASE FollowQuestion(q)
    BY <2>2, <2>4 DEF FollowQuestion, Carried, AskPcs
  <2>5. CASE FollowAnswer(q)
    BY <2>2, <2>5 DEF FollowAnswer, Carried, AskPcs
  <2>6. CASE FollowFails(q)
    BY <2>2, <2>6 DEF FollowFails, Carried, AskPcs
  <2>7. ASSUME NEW w \in Workers, AskAdmit(q, w) PROVE Carry'
    BY <1>0, <2>2, <2>7 DEF AskAdmit, Carried, AskPcs
  <2>8. ASSUME NEW w \in Workers, FollowAdmit(q, w) PROVE Carry'
    BY <1>0, <2>2, <2>8 DEF FollowAdmit, Carried, AskPcs
  <2> QED
    BY <1>3, <2>1, <2>3, <2>4, <2>5, <2>6, <2>7, <2>8 DEF AskStep
<1>4. ASSUME NEW w \in Workers, Crash(w) PROVE Carry'
  <2>1. /\ pending' = [pending EXCEPT ![w] = <<>>] /\ UNCHANGED askAt
        /\ ahead' = [r \in Runs |-> IF at[r] = w THEN <<>> ELSE ahead[r]]
        /\ doing' = [r \in Runs |-> IF at[r] = w THEN Persona ELSE doing[r]]
        /\ \A q \in Questions : ask'[q] = IF askAt[q] = w /\ ask[q] \in {"admitted", "queued", "asking", "followQ", "followA"}
                                          THEN "lost" ELSE ask[q]
    BY <1>4 DEF Crash, Surviving, Lose
  <2>2. \A q \in Questions : Held(q)' => Held(q)
    BY <1>0, <2>1 DEF Held
  <2>3. \A q \in Questions : ask[q] \in Carried => ask'[q] \in Carried
    BY <2>1 DEF Carried
  <2> QED
    BY <2>2, <2>3, CarryStep
<1>5. ASSUME UNCHANGED <<askVars, ahead, doing>> PROVE Carry'
  BY <1>1, <1>5
<1>6. ASSUME NEW r \in Runs, NEW w \in Workers, RequestRound(r, w) PROVE Carry'
  BY <1>5, <1>6 DEF RequestRound
<1>7. ASSUME NEW i \in Injectors, InjectRead(i) \/ InjectCommit(i) PROVE Carry'
  BY <1>5, <1>7 DEF InjectRead, InjectCommit
<1>8. ASSUME NEW c \in Concluders, \/ \E w \in Workers : ConcludeStart(c, w)
                                   \/ ConcludeCommit(c) \/ ConcludeFails(c)
      PROVE  Carry'
  BY <1>5, <1>8 DEF ConcludeStart, ConcludeCommit, ConcludeFails
<1>9. ASSUME (\E e \in Editors : EditRead(e) \/ EditCommit(e)) \/ Delete \/ Tick \/ UNCHANGED vars PROVE Carry'
  BY <1>5, <1>9 DEF EditRead, EditCommit, Delete, Tick
<1> QED
  BY <1>2, <1>3, <1>4, <1>6, <1>7, <1>8, <1>9 DEF Next

-----------------------------------------------------------------------------
(* Quota: what is charged, and what it is charged for.                       *)

\* Finitely many requests are made.
FiniteActors == IsFiniteSet(Runs) /\ IsFiniteSet(Questions) /\ IsFiniteSet(Concluders)

\* One unit of quota for each turn still due, f[r] of them for run r.
Units(f) == UNION {{r} \X (1..f[r]) : r \in Runs}
Due == [r \in Runs |-> IF Reserved(r) THEN Minus(cost[r], completed[r]) ELSE 0]
Charged == AskPcs \ {"new", "refused"}
Concluding == {"thinking", "done"}

\* What is outstanding is what each run is due.
DueCounted == Outstanding = Units(Due)
DueTyped == TypeOK => Due \in [Runs -> Nat]
LEMMA OutstandingIs == DueCounted
<1>1. \A r \in Runs : ~Reserved(r) => 1..Due[r] = {}
  BY DEF Due
<1>2. \A r \in Runs : Reserved(r) => Due[r] = Minus(cost[r], completed[r])
  BY DEF Due
<1>3. ASSUME NEW e \in Outstanding PROVE e \in Units(Due)
  <2>1. PICK r \in Runs : Reserved(r) /\ e \in {r} \X (1..Minus(cost[r], completed[r]))
    BY DEF Outstanding
  <2> QED
    BY <1>2, <2>1 DEF Units
<1>4. ASSUME NEW e \in Units(Due) PROVE e \in Outstanding
  <2>1. PICK r \in Runs : e \in {r} \X (1..Due[r])
    BY DEF Units
  <2>2. Reserved(r)
    BY <1>1, <2>1
  <2> QED
    BY <1>2, <2>1, <2>2 DEF Outstanding
<1> QED
  BY <1>3, <1>4 DEF DueCounted

LEMMA DueType == DueTyped
  BY DEF Due, Minus, TypeOK, DueTyped

\* The same in the next state.
LEMMA DueThen == DueCounted' /\ DueTyped'
  BY OutstandingIs, DueType, PTL

LEMMA UnitsFinite ==
    ASSUME NEW R \in SUBSET Runs, IsFiniteSet(R), NEW f \in [Runs -> Nat]
    PROVE  IsFiniteSet(UNION {{r} \X (1..f[r]) : r \in R})
<1> DEFINE m == [r \in R |-> {r} \X (1..f[r])]
<1>1. IsFiniteSet(Image(m, R))
  BY ImageFinite
<1>2. Image(m, R) = {{r} \X (1..f[r]) : r \in R}
  BY DEF Image
<1>3. ASSUME NEW r \in R PROVE IsFiniteSet({r} \X (1..f[r]))
  <2>1. f[r] \in Nat
    OBVIOUS
  <2>2. IsFiniteSet({r})
    BY FS_Singleton
  <2>3. IsFiniteSet(1..f[r])
    BY <2>1, FS_Interval
  <2> QED
    BY <2>2, <2>3, FS_Product
<1> QED
  BY <1>1, <1>2, <1>3, FS_UNION

\* One run's share of the units changes.
LEMMA UnitsChange ==
    ASSUME IsFiniteSet(Runs), NEW f \in [Runs -> Nat], NEW g \in [Runs -> Nat],
           NEW r \in Runs, \A s \in Runs : s # r => g[s] = f[s]
    PROVE  /\ Cardinality(Units(f)) \in Nat /\ Cardinality(Units(g)) \in Nat
           /\ Cardinality(Units(g)) = Cardinality(Units(f)) - f[r] + g[r]
           /\ Cardinality(Units(f)) >= f[r]
<1> DEFINE Others(h) == UNION {{s} \X (1..h[s]) : s \in Runs \ {r}}
<1>1. ASSUME NEW h \in [Runs -> Nat]
      PROVE  /\ IsFiniteSet(Others(h)) /\ Cardinality(Others(h)) \in Nat
             /\ Cardinality(Units(h)) = h[r] + Cardinality(Others(h))
  <2> DEFINE B == {r} \X (1..h[r])
  <2>1. h[r] \in Nat
    OBVIOUS
  <2>2. IsFiniteSet(B) /\ Cardinality(B) = h[r]
    <3>1. IsFiniteSet({r}) /\ Cardinality({r}) = 1
      BY FS_Singleton
    <3>2. IsFiniteSet(1..h[r]) /\ Cardinality(1..h[r]) = h[r]
      BY <2>1, FS_Interval
    <3>3. IsFiniteSet(B) /\ Cardinality(B) = Cardinality({r}) * Cardinality(1..h[r])
      BY <3>1, <3>2, FS_Product
    <3> QED
      BY <2>1, <3>1, <3>2, <3>3
  <2>3. IsFiniteSet(Others(h))
    <3>1. IsFiniteSet(Runs \ {r}) /\ Runs \ {r} \in SUBSET Runs
      BY FS_Subset
    <3> QED
      BY <3>1, UnitsFinite
  <2>4. Units(h) = B \cup Others(h)
    BY DEF Units
  <2>5. B \cap Others(h) = {}
    <3> SUFFICES ASSUME NEW e \in B, e \in Others(h) PROVE FALSE
      OBVIOUS
    <3>1. PICK s \in Runs \ {r} : e \in {s} \X (1..h[s])
      OBVIOUS
    <3> QED
      BY <3>1
  <2>6. Cardinality({}) = 0
    BY FS_EmptySet
  <2>7. Cardinality(Others(h)) \in Nat
    BY <2>3, FS_CardinalityType
  <2>8. Cardinality(Units(h)) = Cardinality(B) + Cardinality(Others(h)) - Cardinality(B \cap Others(h))
    <3> HIDE DEF B, Others
    <3> QED
      BY <2>2, <2>3, <2>4, FS_Union
  <2>9. Cardinality(B \cap Others(h)) = 0
    BY <2>5, <2>6
  <2> HIDE DEF B, Others
  <2> QED
    BY <2>1, <2>2, <2>3, <2>7, <2>8, <2>9
<1>2. Others(g) = Others(f)
  OBVIOUS
<1>3. f[r] \in Nat /\ g[r] \in Nat
  OBVIOUS
<1> HIDE DEF Others
<1> QED
  BY <1>1, <1>2, <1>3

LEMMA UnitsShrink ==
    ASSUME IsFiniteSet(Runs), NEW f \in [Runs -> Nat], NEW g \in [Runs -> Nat],
           \A s \in Runs : g[s] <= f[s]
    PROVE  /\ Cardinality(Units(f)) \in Nat /\ Cardinality(Units(g)) \in Nat
           /\ Cardinality(Units(g)) <= Cardinality(Units(f))
<1>1. IsFiniteSet(Units(f))
  BY UnitsFinite DEF Units
<1>2. Units(g) \subseteq Units(f)
  <2>1. \A s \in Runs : 1..g[s] \subseteq 1..f[s]
    OBVIOUS
  <2> QED
    BY <2>1 DEF Units
<1> QED
  BY <1>1, <1>2, FS_Subset, FS_CardinalityType

\* One element enters a finite set or leaves it.
LEMMA CountChange ==
    ASSUME NEW T, IsFiniteSet(T), NEW F \in SUBSET T, NEW G \in SUBSET T, NEW x \in T,
           \A y \in T : y # x => (y \in F <=> y \in G)
    PROVE  /\ Cardinality(F) \in Nat /\ Cardinality(G) \in Nat
           /\ (x \in F <=> x \in G) => Cardinality(G) = Cardinality(F)
           /\ x \in F /\ x \notin G => Cardinality(G) = Cardinality(F) - 1
           /\ x \notin F /\ x \in G => Cardinality(G) = Cardinality(F) + 1
<1>1. IsFiniteSet(F) /\ IsFiniteSet(G)
  BY FS_Subset
<1>2. Cardinality(F) \in Nat /\ Cardinality(G) \in Nat
  BY <1>1, FS_CardinalityType
<1>3. (x \in F <=> x \in G) => G = F
  OBVIOUS
<1>4. x \in F /\ x \notin G => G = F \ {x}
  OBVIOUS
<1>5. x \notin F /\ x \in G => G = F \cup {x}
  OBVIOUS
<1>6. Cardinality(F \cup {x}) = IF x \in F THEN Cardinality(F) ELSE Cardinality(F) + 1
  BY <1>1, FS_AddElement
<1>7. Cardinality(F \ {x}) = IF x \in F THEN Cardinality(F) - 1 ELSE Cardinality(F)
  BY <1>1, FS_RemoveElement
<1> QED
  BY <1>2, <1>3, <1>4, <1>5, <1>6, <1>7

-----------------------------------------------------------------------------
(* The bill: the counter against what was produced and what is reserved.  The *)
(* replies beyond what their round was charged for are counted apart, so that  *)
(* what can be given back (the first conjunct) does not lean on them.          *)

Spoken == Cardinality(OfKind(Persona))
Still == Cardinality(Outstanding)
Asked == Cardinality(AskedIn(Charged))
Concluded == Cardinality(ConcludedIn(Concluding))
Finite == IsFiniteSet(turns)
Paid == used + unpaid
Bill == /\ used >= Still + Asked + Concluded
        /\ Paid >= Spoken + Still + Asked + Concluded
        /\ crashes = 0 /\ exists => Paid = Spoken + Still + Asked + Concluded

LEMMA CountTypes ==
    ASSUME TypeOK, FiniteActors, Finite
    PROVE  Spoken \in Nat /\ Still \in Nat /\ Asked \in Nat /\ Concluded \in Nat
<1>1. IsFiniteSet(OfKind(Persona)) /\ IsFiniteSet(AskedIn(Charged))
      /\ IsFiniteSet(ConcludedIn(Concluding))
  BY FS_Subset DEF OfKind, AskedIn, ConcludedIn, FiniteActors, Finite
<1>2. IsFiniteSet(Outstanding)
  BY OutstandingIs, DueType, UnitsFinite DEF DueCounted, DueTyped, Units, FiniteActors
<1> QED
  BY <1>1, <1>2, FS_CardinalityType DEF Spoken, Still, Asked, Concluded

\* A turn is written in a free place.
LEMMA TurnWritten ==
    ASSUME Finite, NEW n, NEW i, NEW k, Free(n, i), turns' = turns \cup {Turn(n, i, k)}
    PROVE  /\ Finite'
           /\ k # Persona => Spoken' = Spoken
           /\ k = Persona => Spoken' = Spoken + 1
<1> DEFINE t == Turn(n, i, k)
<1>1. t \notin turns /\ t.kind = k
  BY DEF Free, Indices, Turn
<1>2. Finite'
  BY FS_AddElement DEF Finite
<1>3. k # Persona => OfKind(Persona)' = OfKind(Persona)
  BY <1>1 DEF OfKind
<1>4. k = Persona => OfKind(Persona)' = OfKind(Persona) \cup {t} /\ t \notin OfKind(Persona)
  BY <1>1 DEF OfKind
<1>5. IsFiniteSet(OfKind(Persona))
  BY FS_Subset DEF OfKind, Finite
<1> HIDE DEF t
<1> QED
  BY <1>2, <1>3, <1>4, <1>5, FS_AddElement DEF Spoken

LEMMA TurnAppended ==
    ASSUME Finite, NEW n, NEW k, AppendTo(n, k), k # Persona
    PROVE  Finite' /\ Spoken' = Spoken
<1>1. PICK i : turns' = turns \cup {Turn(n, i, k)}
  BY DEF AppendTo
<1>2. Finite'
  BY <1>1, FS_AddElement DEF Finite
<1>3. OfKind(Persona)' = OfKind(Persona)
  <2>1. Turn(n, i, k).kind = k
    BY DEF Turn
  <2> QED
    BY <1>1, <2>1 DEF OfKind
<1> QED
  BY <1>2, <1>3 DEF Spoken

LEMMA SameTurns == UNCHANGED turns => Finite' = Finite /\ Spoken' = Spoken
  BY DEF Finite, Spoken, OfKind
LEMMA SameRuns == UNCHANGED <<pc, cost, completed>> => Still' = Still /\ Due' = Due
  BY DEF Still, Outstanding, Due, Reserved, Live
LEMMA SameAsks ==
    ASSUME \A q \in Questions : ask'[q] \in Charged <=> ask[q] \in Charged
    PROVE  Asked' = Asked
<1>1. AskedIn(Charged)' = AskedIn(Charged)
  BY DEF AskedIn, Charged, AskPcs
<1> QED
  BY <1>1 DEF Asked
LEMMA SameConclusions ==
    ASSUME \A c \in Concluders : con'[c] \in Concluding <=> con[c] \in Concluding
    PROVE  Concluded' = Concluded
<1>1. ConcludedIn(Concluding)' = ConcludedIn(Concluding)
  BY DEF ConcludedIn, Concluding
<1> QED
  BY <1>1 DEF Concluded

\* A run's share of what is reserved changes.
LEMMA DueStep ==
    ASSUME TypeOK, TypeOK', FiniteActors, NEW r \in Runs,
           \A s \in Runs : s # r => Due'[s] = Due[s]
    PROVE  Still' = Still - Due[r] + Due'[r] /\ Still >= Due[r]
<1>1. Due \in [Runs -> Nat] /\ Due' \in [Runs -> Nat]
  BY DueType, DueThen DEF DueTyped
<1>2. Outstanding = Units(Due) /\ Outstanding' = Units(Due')
  BY OutstandingIs, DueThen DEF DueCounted, Units
<1> HIDE DEF Due
<1> QED
  BY <1>1, <1>2, UnitsChange DEF Still, FiniteActors

LEMMA AskChange ==
    ASSUME TypeOK, FiniteActors, NEW q \in Questions, NEW s \in AskPcs,
           ask' = [ask EXCEPT ![q] = s]
    PROVE  /\ (ask[q] \in Charged <=> s \in Charged) => Asked' = Asked
           /\ ask[q] \in Charged /\ s \notin Charged => Asked' = Asked - 1
           /\ ask[q] \notin Charged /\ s \in Charged => Asked' = Asked + 1
<1>1. /\ ask'[q] = s /\ \A p \in Questions : p # q => ask'[p] = ask[p]
      /\ Charged' = Charged
  BY DEF TypeOK, Charged, AskPcs
<1>2. AskedIn(Charged) = {y \in Questions : ask[y] \in Charged}
      /\ AskedIn(Charged)' = {y \in Questions : ask'[y] \in Charged}
  BY <1>1 DEF AskedIn
<1> HIDE DEF Charged
<1>3. \A y \in Questions : y # q => (y \in AskedIn(Charged) <=> y \in AskedIn(Charged)')
  BY <1>1, <1>2
<1> QED
  BY <1>1, <1>2, <1>3, CountChange DEF Asked, FiniteActors

LEMMA ConcludeChange ==
    ASSUME TypeOK, FiniteActors, NEW c \in Concluders, NEW s,
           con' = [con EXCEPT ![c] = s]
    PROVE  /\ (con[c] \in Concluding <=> s \in Concluding) => Concluded' = Concluded
           /\ con[c] \in Concluding /\ s \notin Concluding => Concluded' = Concluded - 1
           /\ con[c] \notin Concluding /\ s \in Concluding => Concluded' = Concluded + 1
<1>1. /\ con'[c] = s /\ \A p \in Concluders : p # c => con'[p] = con[p]
      /\ Concluding' = Concluding
  BY DEF TypeOK, Concluding
<1>2. ConcludedIn(Concluding) = {y \in Concluders : con[y] \in Concluding}
      /\ ConcludedIn(Concluding)' = {y \in Concluders : con'[y] \in Concluding}
  BY <1>1 DEF ConcludedIn
<1> HIDE DEF Concluding
<1>3. \A y \in Concluders : y # c => (y \in ConcludedIn(Concluding) <=> y \in ConcludedIn(Concluding)')
  BY <1>1, <1>2
<1> QED
  BY <1>1, <1>2, <1>3, CountChange DEF Concluded, FiniteActors

LEMMA Balance ==
    \A a, b, c, d, u, p, a1, b1, c1, d1, u1, p1 \in Int :
       /\ u >= b + c + d
       /\ u + p >= a + b + c + d
       /\ (u1 + p1) - (u + p) = (a1 - a) + (b1 - b) + (c1 - c) + (d1 - d)
       /\ p1 - p <= a1 - a
       => /\ u1 >= b1 + c1 + d1
          /\ u1 + p1 >= a1 + b1 + c1 + d1
          /\ u + p = a + b + c + d => u1 + p1 = a1 + b1 + c1 + d1
  OBVIOUS

LEMMA InitBill == ASSUME FiniteActors PROVE Init => Finite /\ Bill
<1> SUFFICES ASSUME Init PROVE Finite /\ Bill
  OBVIOUS
<1>1. OfKind(Persona) = {} /\ AskedIn(Charged) = {} /\ ConcludedIn(Concluding) = {}
  BY DEF Init, OfKind, AskedIn, ConcludedIn, Charged, Concluding
<1>2. Outstanding = {}
  BY DEF Init, Outstanding, Reserved, Live
<1>3. Spoken = 0 /\ Still = 0 /\ Asked = 0 /\ Concluded = 0
  BY <1>1, <1>2, FS_EmptySet DEF Spoken, Still, Asked, Concluded
<1>4. Finite
  BY FS_EmptySet DEF Init, Finite
<1>5. used = 0 /\ unpaid = 0
  BY DEF Init
<1> HIDE DEF Spoken, Still, Asked, Concluded
<1> QED
  BY <1>3, <1>4, <1>5 DEF Bill, Paid

CountTyped == FiniteActors /\ TypeOK /\ Finite
              => Spoken \in Nat /\ Still \in Nat /\ Asked \in Nat /\ Concluded \in Nat
LEMMA CountsAre == CountTyped
  BY CountTypes DEF CountTyped
LEMMA CountsThen == CountTyped'
  BY CountsAre, PTL

LEMMA UsedType == TypeOK => used \in Nat /\ unpaid \in Nat
  BY DEF TypeOK

\* A step that charges what it adds, or counts it as unpaid, keeps the balance.
LEMMA BillKept ==
    ASSUME FiniteActors, TypeOK, TypeOK', Finite, Finite', Bill,
           Paid' - Paid = (Spoken' - Spoken) + (Still' - Still) + (Asked' - Asked)
                          + (Concluded' - Concluded),
           unpaid' - unpaid <= Spoken' - Spoken,
           crashes' = crashes, exists' = exists
    PROVE  Bill'
<1>1. /\ Spoken \in Nat /\ Still \in Nat /\ Asked \in Nat /\ Concluded \in Nat
      /\ used \in Nat /\ unpaid \in Nat
  BY CountsAre, UsedType DEF CountTyped
<1>2. Spoken' \in Nat /\ Still' \in Nat /\ Asked' \in Nat /\ Concluded' \in Nat
  BY CountsThen DEF CountTyped, FiniteActors
<1>3. used' \in Nat /\ unpaid' \in Nat
  BY DEF TypeOK
<1> DEFINE a == Spoken
           b == Still
           c == Asked
           d == Concluded
           u == used
           p == unpaid
           a1 == Spoken'
           b1 == Still'
           c1 == Asked'
           d1 == Concluded'
           u1 == used'
           p1 == unpaid'
<1>4. /\ a \in Int /\ b \in Int /\ c \in Int /\ d \in Int /\ u \in Int /\ p \in Int
      /\ a1 \in Int /\ b1 \in Int /\ c1 \in Int /\ d1 \in Int /\ u1 \in Int /\ p1 \in Int
  BY <1>1, <1>2, <1>3
<1>5. /\ u >= b + c + d /\ u + p >= a + b + c + d
      /\ (u1 + p1) - (u + p) = (a1 - a) + (b1 - b) + (c1 - c) + (d1 - d)
      /\ p1 - p <= a1 - a
  BY DEF Bill, Paid
<1>6. crashes = 0 /\ exists => u + p = a + b + c + d
  BY DEF Bill, Paid
<1> HIDE DEF a, b, c, d, u, p, a1, b1, c1, d1, u1, p1
<1>7. /\ u1 >= b1 + c1 + d1 /\ u1 + p1 >= a1 + b1 + c1 + d1
      /\ u + p = a + b + c + d => u1 + p1 = a1 + b1 + c1 + d1
  BY <1>4, <1>5, Balance
<1>8. crashes' = 0 /\ exists' => u1 + p1 = a1 + b1 + c1 + d1
  BY <1>6, <1>7, Zenon
<1> QED
  BY <1>7, <1>8 DEF Bill, Paid, a1, b1, c1, d1, u1, p1

\* A step of run r: what it is due and what has been spoken.
LEMMA RunBill ==
    ASSUME FiniteActors, TypeOK, TypeOK', Finite, Finite', Bill, NEW r \in Runs,
           \A s \in Runs : s # r => /\ pc'[s] = pc[s] /\ cost'[s] = cost[s]
                                    /\ completed'[s] = completed[s],
           Paid' - Paid = (Spoken' - Spoken) + (Due'[r] - Due[r]),
           unpaid' - unpaid <= Spoken' - Spoken,
           Asked' = Asked, UNCHANGED <<conVars, crashes, exists>>
    PROVE  Bill'
<1>1. \A s \in Runs : s # r => Due'[s] = Due[s]
  BY DEF Due, Reserved, Live
<1>2. Still' = Still - Due[r] + Due'[r]
  BY <1>1, DueStep
<1>3. Concluded' = Concluded
  BY SameConclusions DEF conVars
<1>4. Spoken \in Nat /\ Still \in Nat /\ Asked \in Nat /\ Concluded \in Nat /\ Paid \in Nat
  BY CountsAre, UsedType DEF CountTyped, Paid
<1>5. Spoken' \in Nat /\ Still' \in Nat
  BY CountsThen DEF CountTyped, FiniteActors
<1>6. Paid' \in Nat /\ Due[r] \in Nat /\ Due'[r] \in Nat
  <2>1. used' \in Nat /\ unpaid' \in Nat
    BY DEF TypeOK
  <2> DEFINE v == used'
             w == unpaid'
  <2>2. v \in Nat /\ w \in Nat
    BY <2>1
  <2>3. Paid' = v + w
    BY DEF Paid
  <2> HIDE DEF v, w
  <2>4. Paid' \in Nat
    BY <2>2, <2>3
  <2> QED
    BY <2>4, DueType, DueThen DEF DueTyped
<1>7. Paid' - Paid = (Spoken' - Spoken) + (Still' - Still) + (Asked' - Asked)
                     + (Concluded' - Concluded)
  <2> DEFINE d == Due[r]
             e == Due'[r]
  <2>1. d \in Nat /\ e \in Nat /\ Still' = Still - d + e /\ Paid' - Paid = (Spoken' - Spoken) + (e - d)
    BY <1>2, <1>6
  <2> HIDE DEF d, e
  <2> QED
    BY <1>3, <1>4, <1>5, <1>6, <2>1
<1> QED
  BY <1>7, BillKept DEF conVars

\* What a run is due, by where it is.
DueShape == TypeOK
            => \A r \in Runs : /\ Reserved(r) => Due[r] = Minus(cost[r], completed[r])
                               /\ ~Reserved(r) => Due[r] = 0
LEMMA DueShapeIs == DueShape
  BY DEF DueShape, Due
LEMMA DueShapeThen == DueShape'
  BY DueShapeIs, PTL

LEMMA TaskBill ==
    ASSUME FiniteActors, TypeOK, TypeOK', Beat, Carry, Finite, Bill,
           NEW r \in Runs, TaskStep(r)
    PROVE  Finite' /\ Bill'
<1> USE DEF vars, dbVars, rowVars, runVars, taskVars, workVars, billVars,
            askVars, injVars, conVars, histVars
<1>0. /\ pc \in [Runs -> RunPcs] /\ cost \in [Runs -> Nat] /\ completed \in [Runs -> Nat]
      /\ used \in Nat /\ used' \in Nat /\ ask \in [Questions -> AskPcs]
      /\ unpaid \in Nat /\ unpaid' \in Nat /\ Spoken \in Nat /\ Due[r] \in Nat
  <2>1. Spoken \in Nat /\ Due \in [Runs -> Nat]
    BY CountsAre, DueType DEF CountTyped, DueTyped
  <2> QED
    BY <2>1 DEF TypeOK
<1>a. \A s \in Runs : /\ Reserved(s) => Due[s] = Minus(cost[s], completed[s])
                      /\ ~Reserved(s) => Due[s] = 0
  BY DueShapeIs DEF DueShape
<1>b. \A s \in Runs : /\ Reserved(s)' => Due'[s] = Minus(cost'[s], completed'[s])
                      /\ ~Reserved(s)' => Due'[s] = 0
  BY DueShapeThen DEF DueShape, Minus
\* Nothing is charged, spoken or counted.
<1>1. ASSUME UNCHANGED <<used, unpaid, conVars, crashes, exists>>, Finite', Spoken' = Spoken,
             Asked' = Asked,
             \A s \in Runs : s # r => /\ pc'[s] = pc[s] /\ cost'[s] = cost[s]
                                      /\ completed'[s] = completed[s],
             Due'[r] = Due[r]
      PROVE  Finite' /\ Bill'
  <2>1. /\ Paid' - Paid = (Spoken' - Spoken) + (Due'[r] - Due[r])
        /\ unpaid' - unpaid <= Spoken' - Spoken
    BY <1>0, <1>1 DEF Paid
  <2> QED
    BY <1>1, <2>1, RunBill
\* The same, of a run that stays where its quota is reserved.
<1>2. ASSUME UNCHANGED <<used, unpaid, conVars, crashes, exists, cost, completed>>, Finite',
             Spoken' = Spoken, Asked' = Asked, \A s \in Runs : s # r => pc'[s] = pc[s],
             Reserved(r), Reserved(r)'
      PROVE  Finite' /\ Bill'
  <2>1. Due'[r] = Due[r]
    BY <1>a, <1>b, <1>2
  <2> QED
    BY <1>1, <1>2, <2>1
<1>3. UNCHANGED turns => (Finite' /\ Spoken' = Spoken)
  BY SameTurns
<1>4. UNCHANGED ask => Asked' = Asked
  BY SameAsks
<1>5. CASE ForceReset(r)
  <2>1. ~Reserved(r) /\ ~Reserved(r)'
    BY <1>0, <1>5 DEF ForceReset, Reserved, Live
  <2>2. Due'[r] = Due[r]
    BY <2>1, <1>a, <1>b
  <2> QED
    BY <1>0, <1>1, <1>3, <1>4, <1>5, <2>2 DEF ForceReset, ResetRow
<1>6. CASE QuotaSpent(r)
  <2>1. ~Reserved(r) /\ ~Reserved(r)'
    BY <1>0, <1>6 DEF QuotaSpent, Settled, Reserved, Live
  <2>2. Due'[r] = Due[r]
    BY <2>1, <1>a, <1>b
  <2> QED
    BY <1>0, <1>1, <1>3, <1>4, <1>6, <2>2 DEF QuotaSpent, Settled
<1>7. CASE Reserve(r)
  <2>1. ~Reserved(r) /\ Reserved(r)' /\ cost' = cost /\ completed' = completed /\ completed[r] = 0
    BY <1>0, <1>7 DEF Reserve, Reserved, Live, Beat, BeatOf, Early
  <2>2. Due[r] = 0 /\ Due'[r] = cost[r]
    <3>1. Due[r] = 0 /\ Due'[r] = Minus(cost[r], 0)
      BY <1>a, <1>b, <2>1
    <3>2. cost[r] \in Nat
      BY <1>0
    <3>3. Minus(cost[r], 0) = cost[r]
      BY <3>2 DEF Minus
    <3> QED
      BY <3>1, <3>3
  <2>3. Finite' /\ Spoken' = Spoken /\ Asked' = Asked /\ used' = used + cost[r] /\ unpaid' = unpaid
    BY <1>3, <1>4, <1>7 DEF Reserve
  <2>4. /\ Paid' - Paid = (Spoken' - Spoken) + (Due'[r] - Due[r])
        /\ unpaid' - unpaid <= Spoken' - Spoken
    BY <1>0, <2>2, <2>3 DEF Paid
  <2>5. /\ \A s \in Runs : s # r => pc'[s] = pc[s] /\ cost'[s] = cost[s]
                                    /\ completed'[s] = completed[s]
        /\ UNCHANGED <<conVars, crashes, exists>>
    BY <1>0, <1>7 DEF Reserve
  <2> QED
    BY <2>3, <2>4, <2>5, RunBill
<1>8. CASE BeginRound(r) \/ NothingToRun(r) \/ GatherEnds(r) \/ EndRound(r)
  <2>1. Reserved(r) /\ Reserved(r)'
    BY <1>0, <1>8 DEF BeginRound, NothingToRun, GatherEnds, EndRound, Reserved, Live
  <2>2. /\ UNCHANGED <<used, unpaid, conVars, crashes, exists, cost, completed, turns, ask>>
        /\ \A s \in Runs : s # r => pc'[s] = pc[s]
    BY <1>0, <1>8 DEF BeginRound, NothingToRun, GatherEnds, EndRound, ResetRow
  <2> QED
    BY <1>2, <1>3, <1>4, <2>1, <2>2
<1>9. CASE TakeQuestion(r) \/ TakePersona(r) \/ RoundSpoken(r)
  <2>1. Reserved(r) /\ Reserved(r)'
    BY <1>0, <1>9 DEF TakeQuestion, TakePersona, RoundSpoken, Drain, Reserved, Live
  <2>2. /\ UNCHANGED <<used, unpaid, conVars, crashes, exists, cost, completed, turns>>
        /\ \A s \in Runs : s # r => pc'[s] = pc[s]
    BY <1>0, <1>9 DEF TakeQuestion, TakePersona, RoundSpoken, Drain
  <2>3. \A q \in Questions : ask'[q] = ask[q] \/ (ask[q] \in Carried /\ ask'[q] = "asking")
    BY <1>9, DrainStep DEF Carry, TakeQuestion, TakePersona, RoundSpoken
  <2>4. Asked' = Asked
    BY <2>3, SameAsks DEF Charged, AskPcs, Carried
  <2> QED
    BY <1>2, <1>3, <2>1, <2>2, <2>4
<1>10. CASE CommitQuestion(r)
  <2>1. Reserved(r) /\ Reserved(r)'
    BY <1>0, <1>10 DEF CommitQuestion, Reserved, Live
  <2>2. /\ UNCHANGED <<used, unpaid, conVars, crashes, exists, cost, completed, ask>>
        /\ \A s \in Runs : s # r => pc'[s] = pc[s]
    BY <1>0, <1>10 DEF CommitQuestion
  <2>3. Finite' /\ Spoken' = Spoken
    BY <1>10, TurnWritten DEF CommitQuestion, Persona
  <2> QED
    BY <1>2, <1>4, <2>1, <2>2, <2>3
<1>11. CASE CommitAnswer(r)
  <2>1. Reserved(r) /\ Reserved(r)'
    BY <1>0, <1>11 DEF CommitAnswer, CommitRow, Reserved, Live
  <2>2. /\ UNCHANGED <<used, unpaid, conVars, crashes, exists, cost, completed>>
        /\ \A s \in Runs : s # r => pc'[s] = pc[s]
    BY <1>0, <1>11 DEF CommitAnswer, CommitRow
  <2>3. Finite' /\ Spoken' = Spoken
    BY <1>11, TurnWritten DEF CommitAnswer, CommitRow, Persona
  <2>4. /\ doing[r] \in Questions /\ ask[doing[r]] \in Carried
        /\ ask' = [ask EXCEPT ![doing[r]] = "answered"]
    BY <1>11 DEF CommitAnswer, Carry, Held, TypeOK
  <2>5. Asked' = Asked
    BY <1>0, <2>4, SameAsks DEF Charged, AskPcs, Carried
  <2> QED
    BY <1>2, <2>1, <2>2, <2>3, <2>5
<1>12. CASE CommitFails(r)
  <2>1. Reserved(r) /\ Reserved(r)'
    BY <1>0, <1>12 DEF CommitFails, Reserved, Live
  <2>2. /\ UNCHANGED <<used, unpaid, conVars, crashes, exists, cost, completed, turns>>
        /\ \A s \in Runs : s # r => pc'[s] = pc[s]
    BY <1>0, <1>12 DEF CommitFails
  <2>3. \A q \in Dropped(r) : ask[q] \in Carried
    BY DEF Dropped, Carry, Held, Items
  <2>4. \A q \in Questions : ask'[q] = ask[q] \/ (ask[q] \in Carried /\ ask'[q] = "lost")
    BY <1>12, <2>3 DEF CommitFails, Lose
  <2>5. Asked' = Asked
    BY <2>4, SameAsks DEF Charged, AskPcs, Carried
  <2> QED
    BY <1>2, <1>3, <2>1, <2>2, <2>5
<1>13. CASE CommitReply(r)
  <2>1. Reserved(r) /\ Reserved(r)' /\ cost' = cost /\ completed'[r] = completed[r] + 1
    BY <1>0, <1>13 DEF CommitReply, CommitRow, Reserved, Live
  <2>2. Due'[r] - Due[r] = IF completed[r] < cost[r] THEN -1 ELSE 0
    <3>1. /\ Due[r] = Minus(cost[r], completed[r]) /\ Due'[r] = Minus(cost[r], completed[r] + 1)
          /\ cost[r] \in Nat /\ completed[r] \in Nat
      BY <1>0, <1>a, <1>b, <2>1
    <3>2. \A m, n \in Nat : Minus(m, n + 1) - Minus(m, n) = IF n < m THEN -1 ELSE 0
      BY DEF Minus
    <3> HIDE DEF Due
    <3> QED
      BY <3>1, <3>2
  <2>3. Finite' /\ Spoken' = Spoken + 1
    BY <1>13, TurnWritten DEF CommitReply, CommitRow
  <2>4. /\ Asked' = Asked /\ used' = used
        /\ unpaid' = IF completed[r] < cost[r] THEN unpaid ELSE unpaid + 1
    BY <1>4, <1>13 DEF CommitReply, CommitRow
  <2>5. /\ Paid' - Paid = (Spoken' - Spoken) + (Due'[r] - Due[r])
        /\ unpaid' - unpaid <= Spoken' - Spoken
    <3> DEFINE d == Due'[r] - Due[r]
    <3>1. d = IF completed[r] < cost[r] THEN -1 ELSE 0
      BY <2>2
    <3> HIDE DEF d
    <3>2. Paid' - Paid = (Spoken' - Spoken) + d /\ unpaid' - unpaid <= Spoken' - Spoken
      BY <1>0, <2>3, <2>4, <3>1 DEF Paid
    <3> QED
      BY <3>2 DEF d
  <2>6. /\ \A s \in Runs : s # r => pc'[s] = pc[s] /\ cost'[s] = cost[s]
                                    /\ completed'[s] = completed[s]
        /\ UNCHANGED <<conVars, crashes, exists>>
    BY <1>0, <1>13 DEF CommitReply, CommitRow
  <2> QED
    BY <2>3, <2>4, <2>5, <2>6, RunBill
<1>14. CASE Refund(r)
  <2>1. Reserved(r) /\ ~Reserved(r)'
    BY <1>0, <1>14 DEF Refund, Settled, Reserved, Live
  <2>2. Due'[r] = 0 /\ Due[r] = Minus(cost[r], completed[r])
    <3>1. Due'[r] = 0
      BY <1>b, <2>1
    <3> QED
      BY <2>1, <3>1 DEF Due
  <2>3. used >= Due[r]
    <3>1. Still >= Due[r]
      <4>1. Due \in [Runs -> Nat] /\ Outstanding = Units(Due)
        BY DueType, OutstandingIs DEF DueTyped, DueCounted
      <4> HIDE DEF Due
      <4> QED
        BY <4>1, UnitsChange DEF Still, FiniteActors
    <3>2. used >= Still + Asked + Concluded
      BY DEF Bill
    <3>3. Still \in Nat /\ Asked \in Nat /\ Concluded \in Nat
      BY CountsAre DEF CountTyped
    <3> QED
      BY <1>0, <3>1, <3>2, <3>3
  <2>4. used' = used - Due[r]
    <3>1. used' = Minus(used, Due[r])
      BY <1>14, <2>2 DEF Refund
    <3> QED
      BY <1>0, <2>3, <3>1 DEF Minus
  <2>5. Finite' /\ Spoken' = Spoken /\ Asked' = Asked /\ unpaid' = unpaid
    BY <1>3, <1>4, <1>14 DEF Refund
  <2>6. /\ Paid' - Paid = (Spoken' - Spoken) + (Due'[r] - Due[r])
        /\ unpaid' - unpaid <= Spoken' - Spoken
    BY <1>0, <2>2, <2>4, <2>5 DEF Paid
  <2>7. /\ \A s \in Runs : s # r => pc'[s] = pc[s] /\ cost'[s] = cost[s]
                                    /\ completed'[s] = completed[s]
        /\ UNCHANGED <<conVars, crashes, exists>>
    BY <1>0, <1>14 DEF Refund, Settled
  <2> QED
    BY <2>5, <2>6, <2>7, RunBill
<1> QED
  BY <1>5, <1>6, <1>7, <1>8, <1>9, <1>10, <1>11, <1>12, <1>13, <1>14 DEF TaskStep

\* A worker has died or the discussion is gone: something paid for may be lost.
Excused == ~(crashes = 0 /\ exists)

\* A crash or a deletion: what was charged stays, what it was charged for may go.
LEMMA BillShrinks ==
    ASSUME FiniteActors, TypeOK, TypeOK', Finite, Finite', Bill, used' = used, unpaid' = unpaid,
           Spoken' <= Spoken, Still' <= Still, Asked' = Asked, Concluded' <= Concluded,
           Excused'
    PROVE  Bill'
<1>1. /\ Spoken \in Nat /\ Still \in Nat /\ Asked \in Nat /\ Concluded \in Nat
      /\ used \in Nat /\ unpaid \in Nat
  BY CountsAre, UsedType DEF CountTyped
<1>2. Spoken' \in Nat /\ Still' \in Nat /\ Asked' \in Nat /\ Concluded' \in Nat
  BY CountsThen DEF CountTyped, FiniteActors
<1>3. used >= Still + Asked + Concluded /\ used + unpaid >= Spoken + Still + Asked + Concluded
  BY DEF Bill, Paid
<1>4. /\ used' >= Still' + Asked' + Concluded'
      /\ used' + unpaid' >= Spoken' + Still' + Asked' + Concluded'
  <2> DEFINE a == Spoken
             b == Still
             c == Asked
             d == Concluded
             e == Spoken'
             f == Still'
             g == Asked'
             h == Concluded'
             u == used
             p == unpaid
  <2>1. a \in Nat /\ b \in Nat /\ c \in Nat /\ d \in Nat /\ u \in Nat /\ p \in Nat
    BY <1>1
  <2>2. e \in Nat /\ f \in Nat /\ g \in Nat /\ h \in Nat
    BY <1>2
  <2>3. e <= a /\ f <= b /\ g = c /\ h <= d
    OBVIOUS
  <2>4. u >= b + c + d /\ u + p >= a + b + c + d /\ used' = u /\ unpaid' = p
    BY <1>3
  <2> HIDE DEF a, b, c, d, e, f, g, h, u, p
  <2>5. u >= f + g + h /\ u + p >= e + f + g + h
    BY <2>1, <2>2, <2>3, <2>4
  <2> QED
    BY <2>4, <2>5 DEF e, f, g, h
<1>5. ~(crashes' = 0 /\ exists')
  BY Zenon DEF Excused
<1> QED
  BY <1>4, <1>5 DEF Bill, Paid

LEMMA OtherBill ==
    ASSUME FiniteActors, TypeOK, TypeOK', Finite, Bill,
           UNCHANGED <<pc, cost, completed, crashes, exists, unpaid>>, Finite', Spoken' = Spoken,
           used' - used = (Asked' - Asked) + (Concluded' - Concluded)
    PROVE  Bill'
<1>1. Still' = Still
  BY SameRuns
<1>2. /\ Spoken \in Nat /\ Still \in Nat /\ Asked \in Nat /\ Concluded \in Nat
      /\ used \in Nat /\ unpaid \in Nat
  BY CountsAre, UsedType DEF CountTyped
<1>3. Spoken' \in Nat /\ Still' \in Nat /\ Asked' \in Nat /\ Concluded' \in Nat
  BY CountsThen DEF CountTyped, FiniteActors
<1>4. used' \in Nat /\ unpaid' \in Nat
  BY DEF TypeOK
<1>5. /\ Paid' - Paid = (Spoken' - Spoken) + (Still' - Still) + (Asked' - Asked)
                         + (Concluded' - Concluded)
      /\ unpaid' - unpaid <= Spoken' - Spoken
  <2> HIDE DEF Spoken, Still, Asked, Concluded
  <2> QED
    BY <1>1, <1>2, <1>3, <1>4 DEF Paid
<1> QED
  BY <1>5, BillKept

LEMMA CrashBill ==
    ASSUME FiniteActors, TypeOK, TypeOK', Finite, Bill, NEW w \in Workers, Crash(w)
    PROVE  Finite' /\ Bill'
<1>1. /\ UNCHANGED <<turns, used, unpaid, exists>> /\ crashes' # 0
      /\ pc' = [r \in Runs |-> IF at[r] = w THEN "idle" ELSE pc[r]]
      /\ cost' = [r \in Runs |-> IF at[r] = w THEN 0 ELSE cost[r]]
      /\ completed' = [r \in Runs |-> IF at[r] = w THEN 0 ELSE completed[r]]
      /\ \A q \in Questions : ask'[q] = IF askAt[q] = w /\ ask[q] \in {"admitted", "queued", "asking", "followQ", "followA"}
                                        THEN "lost" ELSE ask[q]
      /\ \A c \in Concluders : con'[c] = IF conAt[c] = w /\ con[c] = "thinking" THEN "lost" ELSE con[c]
  BY DEF Crash, Surviving, Lose, dbVars, rowVars, histVars, TypeOK
<1>2. Finite' /\ Spoken' = Spoken
  BY <1>1, SameTurns
<1>3. Still' <= Still
  <2>1. Due \in [Runs -> Nat] /\ Due' \in [Runs -> Nat]
    BY DueType, DueThen DEF DueTyped
  <2>2. Outstanding = Units(Due) /\ Outstanding' = Units(Due')
    BY OutstandingIs, DueThen DEF DueCounted, Units
  <2>3. \A r \in Runs : Due'[r] <= Due[r]
    <3> SUFFICES ASSUME NEW r \in Runs PROVE Due'[r] <= Due[r]
      OBVIOUS
    <3>1. CASE at[r] = w
      <4>1. Due'[r] = 0
        BY <1>1, <3>1 DEF Due, Reserved, Live
      <4> QED
        BY <2>1, <4>1
    <3>2. CASE at[r] # w
      <4>1. Due'[r] = Due[r]
        BY <1>1, <3>2 DEF Due, Reserved, Live
      <4> QED
        BY <2>1, <4>1
    <3> QED
      BY <3>1, <3>2
  <2> HIDE DEF Due
  <2> QED
    BY <2>1, <2>2, <2>3, UnitsShrink DEF Still, FiniteActors
<1>4. Asked' = Asked
  <2>1. \A q \in Questions : ask'[q] \in Charged <=> ask[q] \in Charged
    BY <1>1 DEF Charged, AskPcs
  <2> QED
    BY <2>1, SameAsks
<1>5. Concluded' <= Concluded
  <2>1. ConcludedIn(Concluding)' \subseteq ConcludedIn(Concluding)
    BY <1>1 DEF ConcludedIn, Concluding
  <2>2. IsFiniteSet(ConcludedIn(Concluding))
    BY FS_Subset DEF ConcludedIn, FiniteActors
  <2> QED
    BY <2>1, <2>2, FS_Subset DEF Concluded
<1>6. Spoken' <= Spoken
  <2>1. Spoken \in Nat
    BY CountsAre DEF CountTyped
  <2> QED
    BY <1>2, <2>1
<1>7. Excused'
  BY <1>1 DEF Excused
<1> QED
  BY <1>1, <1>2, <1>3, <1>4, <1>5, <1>6, <1>7, BillShrinks

LEMMA DeleteBill ==
    ASSUME FiniteActors, TypeOK, TypeOK', Finite, Bill, Delete
    PROVE  Finite' /\ Bill'
<1>1. turns' = {} /\ exists' = FALSE /\ UNCHANGED <<used, unpaid, pc, cost, completed, ask, con>>
  BY DEF Delete, histVars, runVars, taskVars, billVars, askVars, conVars
<1>2. Finite'
  BY <1>1, FS_EmptySet DEF Finite
<1>3. Spoken' = 0
  <2>1. OfKind(Persona)' = {}
    BY <1>1 DEF OfKind
  <2> QED
    BY <2>1, FS_EmptySet DEF Spoken
<1>4. Still' = Still /\ Asked' = Asked /\ Concluded' = Concluded
  BY <1>1, SameRuns, SameAsks, SameConclusions
<1>5. Spoken \in Nat /\ Still \in Nat /\ Concluded \in Nat
  BY CountsAre DEF CountTyped
<1>6. Spoken' <= Spoken /\ Still' <= Still /\ Concluded' <= Concluded
  BY <1>3, <1>4, <1>5
<1>7. Excused'
  BY <1>1 DEF Excused
<1> QED
  BY <1>1, <1>2, <1>4, <1>6, <1>7, BillShrinks

LEMMA AskBill ==
    ASSUME FiniteActors, TypeOK, TypeOK', Carry, Finite, Bill, NEW q \in Questions,
           AskStep(q) \/ \E w \in Workers : AskAdmit(q, w) \/ FollowAdmit(q, w)
    PROVE  Finite' /\ Bill'
<1> USE DEF vars, dbVars, rowVars, runVars, taskVars, workVars, billVars,
            askVars, injVars, conVars, histVars
<1>0. used \in Nat /\ Asked \in Nat /\ Concluded \in Nat
  BY CountsAre, UsedType DEF CountTyped
\* The request q goes to s for a charge of d.
<1>1. ASSUME NEW s \in AskPcs, ask' = [ask EXCEPT ![q] = s], Finite', Spoken' = Spoken,
             UNCHANGED <<pc, cost, completed, con, crashes, exists, unpaid>>,
             \/ (ask[q] \in Charged <=> s \in Charged) /\ used' = used
             \/ ask[q] \in Charged /\ s \notin Charged /\ used' = used - 1
             \/ ask[q] \notin Charged /\ s \in Charged /\ used' = used + 1
      PROVE  Bill'
  <2>1. Concluded' = Concluded
    BY <1>1, SameConclusions
  <2>2. /\ (ask[q] \in Charged <=> s \in Charged) => Asked' = Asked
        /\ ask[q] \in Charged /\ s \notin Charged => Asked' = Asked - 1
        /\ ask[q] \notin Charged /\ s \in Charged => Asked' = Asked + 1
    BY <1>1, AskChange
  <2>3. \/ Asked' = Asked /\ used' = used
        \/ Asked' = Asked - 1 /\ used' = used - 1
        \/ Asked' = Asked + 1 /\ used' = used + 1
    BY <1>1, <2>2, Zenon
  <2>4. used' - used = (Asked' - Asked) + (Concluded' - Concluded)
    BY <1>0, <2>1, <2>3
  <2> QED
    BY <1>1, <2>4, OtherBill
<1>2. UNCHANGED turns => (Finite' /\ Spoken' = Spoken)
  BY SameTurns
\* Where something is charged it can be given back.
<1>3. ASSUME ask[q] \in Charged, used' = Minus(used, 1) PROVE used' = used - 1
  <2>1. used >= Still + Asked + Concluded
    BY DEF Bill
  <2>2. Spoken \in Nat /\ Still \in Nat
    BY CountsAre DEF CountTyped
  <2>3. Asked # 0
    <3>1. q \in AskedIn(Charged)
      BY <1>3 DEF AskedIn
    <3>2. IsFiniteSet(AskedIn(Charged))
      BY FS_Subset DEF AskedIn, FiniteActors
    <3> QED
      BY <3>1, <3>2, FS_EmptySet DEF Asked
  <2>4. used > 0
    BY <1>0, <2>1, <2>2, <2>3
  <2>5. used > 1 \/ used = 1
    BY <1>0, <2>4
  <2> QED
    BY <1>0, <1>3, <2>5 DEF Minus
<1>4. CASE AskEnqueue(q)
  <2>1. "queued" \in AskPcs /\ "queued" \in Charged /\ ask[q] \in Charged
    BY <1>4 DEF AskEnqueue, AskPcs, Charged
  <2> QED
    BY <1>1, <1>2, <1>4, <2>1 DEF AskEnqueue
<1>5. CASE AskRefuse(q)
  <2>1. "refused" \in AskPcs /\ "refused" \notin Charged /\ ask[q] \in Charged
    BY <1>5 DEF AskRefuse, AskPcs, Charged
  <2>2. used' = used - 1
    BY <1>3, <1>5, <2>1 DEF AskRefuse
  <2> QED
    BY <1>1, <1>2, <1>5, <2>1, <2>2 DEF AskRefuse
<1>6. CASE FollowQuestion(q)
  <2>1. "followA" \in AskPcs /\ "followA" \in Charged /\ ask[q] \in Charged
    BY <1>6 DEF FollowQuestion, AskPcs, Charged
  <2>2. Finite' /\ Spoken' = Spoken
    BY <1>6, TurnAppended DEF FollowQuestion, Persona
  <2> QED
    BY <1>1, <1>6, <2>1, <2>2 DEF FollowQuestion
<1>7. CASE FollowAnswer(q)
  <2>1. "followed" \in AskPcs /\ "followed" \in Charged /\ ask[q] \in Charged
    BY <1>7 DEF FollowAnswer, AskPcs, Charged
  <2>2. Finite' /\ Spoken' = Spoken
    BY <1>7, TurnAppended DEF FollowAnswer, Persona
  <2> QED
    BY <1>1, <1>7, <2>1, <2>2 DEF FollowAnswer
<1>8. CASE FollowFails(q)
  <2>1. "refused" \in AskPcs /\ "refused" \notin Charged /\ ask[q] \in Charged
    BY <1>8 DEF FollowFails, AskPcs, Charged
  <2>2. used' = used - 1
    BY <1>3, <1>8, <2>1 DEF FollowFails
  <2> QED
    BY <1>1, <1>2, <1>8, <2>1, <2>2 DEF FollowFails
<1>9. ASSUME NEW w \in Workers, AskAdmit(q, w) PROVE Finite' /\ Bill'
  <2>1. "admitted" \in AskPcs /\ "admitted" \in Charged /\ ask[q] \notin Charged
    BY <1>9 DEF AskAdmit, AskPcs, Charged
  <2> QED
    BY <1>1, <1>2, <1>9, <2>1 DEF AskAdmit
<1>10. ASSUME NEW w \in Workers, FollowAdmit(q, w) PROVE Finite' /\ Bill'
  <2>1. "followQ" \in AskPcs /\ "followQ" \in Charged /\ ask[q] \notin Charged
    BY <1>10 DEF FollowAdmit, AskPcs, Charged
  <2> QED
    BY <1>1, <1>2, <1>10, <2>1 DEF FollowAdmit
<1> QED
  BY <1>4, <1>5, <1>6, <1>7, <1>8, <1>9, <1>10 DEF AskStep

LEMMA ConcludeBill ==
    ASSUME FiniteActors, TypeOK, TypeOK', Finite, Bill, NEW c \in Concluders,
           \/ \E w \in Workers : ConcludeStart(c, w)
           \/ ConcludeCommit(c) \/ ConcludeFails(c)
    PROVE  Finite' /\ Bill'
<1> USE DEF vars, dbVars, rowVars, runVars, taskVars, workVars, billVars,
            askVars, injVars, conVars, histVars
<1>0. used \in Nat /\ Asked \in Nat /\ Concluded \in Nat
  BY CountsAre, UsedType DEF CountTyped
<1>1. ASSUME NEW s, con' = [con EXCEPT ![c] = s], Finite', Spoken' = Spoken,
             UNCHANGED <<pc, cost, completed, ask, crashes, exists, unpaid>>,
             \/ (con[c] \in Concluding <=> s \in Concluding) /\ used' = used
             \/ con[c] \in Concluding /\ s \notin Concluding /\ used' = used - 1
             \/ con[c] \notin Concluding /\ s \in Concluding /\ used' = used + 1
      PROVE  Bill'
  <2>1. Asked' = Asked
    BY <1>1, SameAsks
  <2>2. /\ (con[c] \in Concluding <=> s \in Concluding) => Concluded' = Concluded
        /\ con[c] \in Concluding /\ s \notin Concluding => Concluded' = Concluded - 1
        /\ con[c] \notin Concluding /\ s \in Concluding => Concluded' = Concluded + 1
    BY <1>1, ConcludeChange
  <2>3. \/ Concluded' = Concluded /\ used' = used
        \/ Concluded' = Concluded - 1 /\ used' = used - 1
        \/ Concluded' = Concluded + 1 /\ used' = used + 1
    BY <1>1, <2>2, Zenon
  <2>4. used' - used = (Asked' - Asked) + (Concluded' - Concluded)
    BY <1>0, <2>1, <2>3
  <2> QED
    BY <1>1, <2>4, OtherBill
<1>2. UNCHANGED turns => (Finite' /\ Spoken' = Spoken)
  BY SameTurns
<1>3. ASSUME NEW w \in Workers, ConcludeStart(c, w) PROVE Finite' /\ Bill'
  <2>1. "thinking" \in Concluding /\ con[c] \notin Concluding
    BY <1>3 DEF ConcludeStart, Concluding
  <2> QED
    BY <1>1, <1>2, <1>3, <2>1 DEF ConcludeStart
<1>4. CASE ConcludeCommit(c)
  <2>1. "done" \in Concluding /\ con[c] \in Concluding
    BY <1>4 DEF ConcludeCommit, Concluding
  <2> QED
    BY <1>1, <1>2, <1>4, <2>1 DEF ConcludeCommit
<1>5. CASE ConcludeFails(c)
  <2>1. "failed" \notin Concluding /\ con[c] \in Concluding
    BY <1>5 DEF ConcludeFails, Concluding
  <2>2. used > 0
    <3>1. used >= Still + Asked + Concluded
      BY DEF Bill
    <3>2. Spoken \in Nat /\ Still \in Nat
      BY CountsAre DEF CountTyped
    <3>3. Concluded # 0
      <4>1. c \in ConcludedIn(Concluding)
        BY <2>1 DEF ConcludedIn
      <4>2. IsFiniteSet(ConcludedIn(Concluding))
        BY FS_Subset DEF ConcludedIn, FiniteActors
      <4> QED
        BY <4>1, <4>2, FS_EmptySet DEF Concluded
    <3> QED
      BY <1>0, <3>1, <3>2, <3>3
  <2>3. used' = used - 1
    <3>1. used > 1 \/ used = 1
      BY <1>0, <2>2
    <3> QED
      BY <1>0, <1>5, <3>1 DEF ConcludeFails, Minus
  <2> QED
    BY <1>1, <1>2, <1>5, <2>1, <2>3 DEF ConcludeFails
<1> QED
  BY <1>3, <1>4, <1>5

LEMMA NextBill ==
    ASSUME FiniteActors
    PROVE  TypeOK /\ TypeOK' /\ Beat /\ Carry /\ Finite /\ Bill /\ [Next]_vars
           => Finite' /\ Bill'
<1> SUFFICES ASSUME TypeOK, TypeOK', Beat, Carry, Finite, Bill, [Next]_vars
             PROVE  Finite' /\ Bill'
  OBVIOUS
<1> USE DEF vars, dbVars, rowVars, runVars, taskVars, workVars, billVars,
            askVars, injVars, conVars, histVars
\* Nothing is charged, spoken or counted.
<1>1. ASSUME UNCHANGED <<pc, cost, completed, used, ask, con, crashes, exists, unpaid>>, Finite',
             Spoken' = Spoken
      PROVE  Finite' /\ Bill'
  <2>1. Asked' = Asked /\ Concluded' = Concluded
    BY <1>1, SameAsks, SameConclusions
  <2>2. used \in Nat /\ Asked \in Nat /\ Concluded \in Nat
    BY CountsAre, UsedType DEF CountTyped
  <2>3. used' - used = (Asked' - Asked) + (Concluded' - Concluded)
    BY <1>1, <2>1, <2>2
  <2> QED
    BY <1>1, <2>3, OtherBill
<1>2. UNCHANGED turns => (Finite' /\ Spoken' = Spoken)
  BY SameTurns
<1>3. ASSUME NEW r \in Runs, NEW w \in Workers, RequestRound(r, w) PROVE Finite' /\ Bill'
  <2>1. /\ UNCHANGED <<turns, used, unpaid, ask, completed, conVars, crashes, exists>>
        /\ \A s \in Runs : s # r => pc'[s] = pc[s] /\ cost'[s] = cost[s]
                                    /\ completed'[s] = completed[s]
        /\ ~Reserved(r) /\ ~Reserved(r)'
    BY <1>3 DEF RequestRound, Reserved, Live, TypeOK
  <2>2. Due[r] = 0 /\ Due'[r] = 0
    BY <2>1, DueShapeIs, DueShapeThen DEF DueShape
  <2>3. Asked' = Asked /\ Finite' /\ Spoken' = Spoken
    BY <1>2, <2>1, SameAsks
  <2>4. /\ Paid' - Paid = (Spoken' - Spoken) + (Due'[r] - Due[r])
        /\ unpaid' - unpaid <= Spoken' - Spoken
    <3>1. used \in Nat /\ unpaid \in Nat /\ Spoken \in Nat
      BY CountsAre, UsedType DEF CountTyped
    <3> QED
      BY <2>1, <2>2, <2>3, <3>1 DEF Paid
  <2> QED
    BY <2>1, <2>3, <2>4, RunBill
<1>4. ASSUME NEW i \in Injectors, InjectRead(i) PROVE Finite' /\ Bill'
  BY <1>1, <1>2, <1>4 DEF InjectRead
<1>5. ASSUME NEW i \in Injectors, InjectCommit(i) PROVE Finite' /\ Bill'
  <2>1. Finite' /\ Spoken' = Spoken
    BY <1>2, <1>5, TurnAppended DEF InjectCommit, Persona
  <2> QED
    BY <1>1, <1>5, <2>1 DEF InjectCommit
<1>6. ASSUME (\E e \in Editors : EditRead(e) \/ EditCommit(e)) \/ Tick \/ UNCHANGED vars
      PROVE  Finite' /\ Bill'
  BY <1>1, <1>2, <1>6 DEF EditRead, EditCommit, Tick
<1> QED
  BY <1>3, <1>4, <1>5, <1>6, TaskBill, AskBill, ConcludeBill, DeleteBill, CrashBill DEF Next

LEMMA AlwaysBill ==
    ASSUME FiniteActors PROVE Spec => [](WorkIsPaid /\ QuotaBalances)
<1>1. Init => TypeOK /\ Beat /\ Carry /\ Finite /\ Bill
  BY InitType, InitSerial, InitAsk, InitBill
<1>2. TypeOK /\ Beat /\ Carry /\ Finite /\ Bill /\ [Next]_vars
      => (TypeOK /\ Beat /\ Carry /\ Finite /\ Bill)'
  BY NextType, NextBeat, NextAsk, NextBill
<1>3. TypeOK /\ Finite /\ Bill => WorkIsPaid /\ QuotaBalances
  <2> SUFFICES ASSUME TypeOK, Finite, Bill PROVE WorkIsPaid /\ QuotaBalances
    OBVIOUS
  <2>1. QuotaBalances
    BY DEF Bill, Paid, QuotaBalances, Spoken, Still, Asked, Concluded, Charged, Concluding
  <2>2. Cardinality(AskedIn({"answered", "followed"})) \in Nat
        /\ Cardinality(AskedIn({"answered", "followed"})) <= Asked
    <3>1. AskedIn({"answered", "followed"}) \subseteq AskedIn(Charged)
      BY DEF AskedIn, Charged, AskPcs
    <3>2. IsFiniteSet(AskedIn(Charged))
      BY FS_Subset DEF AskedIn, FiniteActors
    <3> QED
      BY <3>1, <3>2, FS_Subset, FS_CardinalityType DEF Asked
  <2>3. Cardinality(ConcludedIn({"done"})) \in Nat /\ Cardinality(ConcludedIn({"done"})) <= Concluded
    <3>1. ConcludedIn({"done"}) \subseteq ConcludedIn(Concluding)
      BY DEF ConcludedIn, Concluding
    <3>2. IsFiniteSet(ConcludedIn(Concluding))
      BY FS_Subset DEF ConcludedIn, FiniteActors
    <3> QED
      BY <3>1, <3>2, FS_Subset, FS_CardinalityType DEF Concluded
  <2>4. Spoken \in Nat /\ Still \in Nat /\ Asked \in Nat /\ Concluded \in Nat /\ used \in Nat
        /\ unpaid \in Nat
    BY CountsAre, UsedType DEF CountTyped
  <2>5. used + unpaid >= Spoken + Still + Asked + Concluded
    BY DEF Bill, Paid
  <2>6. used + unpaid >= Spoken + Still + Cardinality(AskedIn({"answered", "followed"}))
                         + Cardinality(ConcludedIn({"done"}))
    BY <2>2, <2>3, <2>4, <2>5
  <2>7. WorkIsPaid
    BY <2>6 DEF WorkIsPaid, Spoken, Still
  <2> QED
    BY <2>1, <2>7
<1> QED
  BY <1>1, <1>2, <1>3, PTL DEF Spec

\* The counter covers at every moment what was produced and what is still reserved, but
\* for the replies of personas that an edit added between charge and round: nobody else
\* works for nothing, whichever rounds overlap, abort, crash or lose their discussion.
THEOREM WorkPaidFor == ASSUME FiniteActors PROVE Spec => []WorkIsPaid
  BY AlwaysBill, PTL

\* While no worker has died and the discussion is there the counter is exactly that:
\* nothing is refunded twice and nothing is forgotten.
THEOREM QuotaExact == ASSUME FiniteActors PROVE Spec => []QuotaBalances
  BY AlwaysBill, PTL
=============================================================================
