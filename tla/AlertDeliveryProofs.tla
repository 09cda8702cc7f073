------------------------- MODULE AlertDeliveryProofs -------------------------
(***************************************************************************)
(* Proofs about AlertDelivery and its two halves, for every value of the   *)
(* constants.                                                              *)
(***************************************************************************)
EXTENDS AlertDelivery, TLAPS

USE AlertAssumption, SocketAssumption

\* A step of the fan-out itself; the other one announces a message.
OwnStep == (\E s \in Sockets : Handler(s)) \/ (\E w \in Workers : Process(w)) \/ UNCHANGED socketVars
-----------------------------------------------------------------------------
(* Price alerts. *)

\* Every step keeps the types of the rules ...
LEMMA RuleStep == AlertTypeOK /\ [AlertNext]_alertVars => RuleTypes'
<1> SUFFICES ASSUME AlertTypeOK, [AlertNext]_alertVars PROVE RuleTypes'
  OBVIOUS
<1> USE DEF AlertTypeOK, RuleTypes, JobTypes, EditTypes, Jobs, Sides, EditKinds, NoSide,
    NoKind, NoNumber
<1>1. ASSUME NEW a \in Alerts, NEW l \in Levels \cup {NoNumber}, NEW r \in BOOLEAN,
      Create(a, l, r) PROVE RuleTypes'
  BY <1>1 DEF Create, ruleVars, jobVars, editVars, ghostVars, budgetVars
<1>2. ASSUME NEW u \in Edits, NEW a \in Alerts, NEW k \in EditKinds, NEW l \in Levels
      \cup {NoNumber}, EditLoad(u, a, k, l) PROVE RuleTypes'
  BY <1>2 DEF EditLoad, ruleVars, jobVars, editVars, ghostVars, budgetVars
<1>3. ASSUME NEW u \in Edits, EditCommit(u) PROVE RuleTypes'
  <2> DEFINE a == editOf[u]
  <2>1. a \in Alerts
    BY <1>3 DEF EditCommit
  <2>2. /\ level' = level \/ level' = [level EXCEPT ![a] = editLevel[u]]
        /\ repeat' = repeat \/ repeat' = [repeat EXCEPT ![a] = editKind[u] = "repeat"]
        /\ cooling' = cooling \/ cooling' = [cooling EXCEPT ![a] = ~cooling[a]]
    BY <1>3 DEF EditCommit
  <2>a. level' \in [Alerts -> Nat]
    <3>1. editLevel[u] \in Nat /\ level \in [Alerts -> Nat]
      OBVIOUS
    <3>2. QED
      BY <2>1, <2>2, <3>1
  <2>b. repeat' \in [Alerts -> BOOLEAN]
    <3>1. (editKind[u] = "repeat") \in BOOLEAN /\ repeat \in [Alerts -> BOOLEAN]
      OBVIOUS
    <3>2. CASE repeat' = repeat
      BY <3>1, <3>2
    <3>3. CASE repeat' = [repeat EXCEPT ![a] = editKind[u] = "repeat"]
      BY <2>1, <3>1, <3>3
    <3>4. QED
      BY <2>2, <3>2, <3>3
  <2>c. cooling' \in [Alerts -> BOOLEAN]
    <3>1. cooling \in [Alerts -> BOOLEAN]
      OBVIOUS
    <3>2. CASE cooling' = cooling
      BY <3>1, <3>2
    <3>3. CASE cooling' = [cooling EXCEPT ![a] = ~cooling[a]]
      BY <2>1, <3>1, <3>3
    <3>4. QED
      BY <2>2, <3>2, <3>3
  <2>3. side' \in [Alerts -> Sides \cup {NoSide}]
    BY <1>3, <2>1 DEF EditCommit
  <2>4. blurred' \subseteq Alerts
    BY <1>3 DEF EditCommit, ghostVars
  <2>5. QED
    BY <1>3, <2>a, <2>b, <2>c, <2>3, <2>4 DEF EditCommit, ghostVars
<1>4. ASSUME NEW a \in Alerts, Delete(a) PROVE RuleTypes'
  BY <1>4 DEF Delete, Locked, ruleVars, jobVars, editVars, ghostVars, budgetVars
<1>5. ASSUME NEW a \in Alerts, CooldownEnds(a) PROVE RuleTypes'
  BY <1>5 DEF CooldownEnds, ruleVars, jobVars, editVars, ghostVars, budgetVars
<1>6. ASSUME NEW t \in Ticks, Poll(t) PROVE RuleTypes'
  BY <1>6 DEF Poll, ruleVars, jobVars, editVars, ghostVars, budgetVars
<1>7. ASSUME NEW t \in Ticks, NEW p \in Prices, TickLoad(t, p) PROVE RuleTypes'
  <2>1. CASE Untriggered \subseteq Daily
    BY <1>7, <2>1 DEF TickLoad, Untriggered, Locked, Room, ruleVars, jobVars, editVars,
       ghostVars, budgetVars
  <2>2. CASE ~(Untriggered \subseteq Daily)
    BY <1>7, <2>2 DEF TickLoad, Untriggered, Locked, Room, ruleVars, jobVars, editVars,
       ghostVars, budgetVars
  <2>3. QED
    BY <2>1, <2>2
<1>8. ASSUME NEW t \in Ticks, NEW known \in SUBSET seen[t], TickCommit(t, known) PROVE
      RuleTypes'
  BY <1>8 DEF TickCommit, Fire, Firings, Unlocked, Matches, Relation, ruleVars, jobVars,
     editVars, ghostVars, budgetVars
<1>9. ASSUME StreakLoad PROVE RuleTypes'
  BY <1>9 DEF StreakLoad, Untriggered, Room, ruleVars, jobVars, editVars, ghostVars,
     budgetVars
<1>10. ASSUME NEW F \in SUBSET seen[Streak], StreakCommit(F) PROVE RuleTypes'
  BY <1>10 DEF StreakCommit, Fire, Firings, Locked, ruleVars, jobVars, editVars,
     ghostVars, budgetVars
<1>11. ASSUME NEW j \in Jobs, NEW n \in outbox[j], Notify(j, n) PROVE RuleTypes'
  BY <1>11 DEF Notify, ruleVars, jobVars, editVars, ghostVars, budgetVars
<1>12. ASSUME NEW j \in Jobs, JobFails(j) PROVE RuleTypes'
  BY <1>12 DEF JobFails, Unlocked, ruleVars, jobVars, editVars, ghostVars, budgetVars
<1>13. CASE UNCHANGED alertVars
  BY <1>13 DEF alertVars, ruleVars, jobVars, editVars, ghostVars, budgetVars
<1> HIDE DEF AlertTypeOK, RuleTypes, JobTypes, EditTypes, Jobs, Sides, EditKinds,
    NoSide, NoKind, NoNumber
<1>14. CASE Owner
  <2>1. CASE \E a \in Alerts, l \in Levels \cup {NoNumber}, r \in BOOLEAN : Create(a, l, r)
    BY <2>1, <1>1
  <2>2. CASE \E u \in Edits, a \in Alerts, k \in EditKinds, l \in Levels \cup {NoNumber} : EditLoad(u, a, k, l)
    BY <2>2, <1>2
  <2>3. CASE \E u \in Edits : EditCommit(u)
    BY <2>3, <1>3
  <2>4. CASE \E a \in Alerts : Delete(a)
    BY <2>4, <1>4
  <2>5. CASE \E a \in Alerts : CooldownEnds(a)
    BY <2>5, <1>5
  <2>6. QED
    BY <1>14, <2>1, <2>2, <2>3, <2>4, <2>5 DEF Owner
<1>15. CASE Evaluate
  BY <1>15, <1>7, <1>8, <1>9, <1>10 DEF Evaluate
<1>16. QED
  BY <1>6, <1>11, <1>12, <1>14, <1>15, <1>13 DEF AlertNext

\* ... of the jobs ...
LEMMA JobStep == AlertTypeOK /\ [AlertNext]_alertVars => JobTypes'
<1> SUFFICES ASSUME AlertTypeOK, [AlertNext]_alertVars PROVE JobTypes'
  OBVIOUS
<1> USE DEF AlertTypeOK, RuleTypes, JobTypes, EditTypes, Jobs, Sides, EditKinds, NoSide,
    NoKind, NoNumber
<1>1. ASSUME NEW a \in Alerts, NEW l \in Levels \cup {NoNumber}, NEW r \in BOOLEAN,
      Create(a, l, r) PROVE JobTypes'
  BY <1>1 DEF Create, ruleVars, jobVars, editVars, ghostVars, budgetVars
<1>2. ASSUME NEW u \in Edits, NEW a \in Alerts, NEW k \in EditKinds, NEW l \in Levels
      \cup {NoNumber}, EditLoad(u, a, k, l) PROVE JobTypes'
  BY <1>2 DEF EditLoad, ruleVars, jobVars, editVars, ghostVars, budgetVars
<1>3. ASSUME NEW u \in Edits, EditCommit(u) PROVE JobTypes'
  BY <1>3 DEF EditCommit, Locked, ruleVars, jobVars, editVars, ghostVars, budgetVars
<1>4. ASSUME NEW a \in Alerts, Delete(a) PROVE JobTypes'
  BY <1>4 DEF Delete, Locked, ruleVars, jobVars, editVars, ghostVars, budgetVars
<1>5. ASSUME NEW a \in Alerts, CooldownEnds(a) PROVE JobTypes'
  BY <1>5 DEF CooldownEnds, ruleVars, jobVars, editVars, ghostVars, budgetVars
<1>6. ASSUME NEW t \in Ticks, Poll(t) PROVE JobTypes'
  BY <1>6 DEF Poll, ruleVars, jobVars, editVars, ghostVars, budgetVars
<1>7. ASSUME NEW t \in Ticks, NEW p \in Prices, TickLoad(t, p) PROVE JobTypes'
  <2>1. CASE Untriggered \subseteq Daily
    BY <1>7, <2>1 DEF TickLoad, Untriggered, Locked, Room, ruleVars, jobVars, editVars,
       ghostVars, budgetVars
  <2>2. CASE ~(Untriggered \subseteq Daily)
    <3>1. /\ job' = [job EXCEPT ![t] = "evaluating"]
          /\ seen' = [seen EXCEPT ![t] = Untriggered \ Daily]
          /\ price' = [price EXCEPT ![t] = p]
          /\ UNCHANGED <<single, outbox>>
      BY <1>7, <2>2 DEF TickLoad
    <3>2. Untriggered \ Daily \in SUBSET Alerts /\ p \in Nat /\ t \in Jobs
      BY DEF Untriggered
    <3>3. job' \in [Jobs -> {"idle", "quoting", "evaluating", "notifying"}]
      BY <3>1, <3>2
    <3>4. seen' \in [Jobs -> SUBSET Alerts]
      BY <3>1, <3>2
    <3>5. QED
      BY <3>1, <3>2, <3>3, <3>4
  <2>3. QED
    BY <2>1, <2>2
<1>8. ASSUME NEW t \in Ticks, NEW known \in SUBSET seen[t], TickCommit(t, known) PROVE
      JobTypes'
  BY <1>8 DEF TickCommit, Fire, Firings, Unlocked, Matches, ruleVars, jobVars, editVars,
     ghostVars, budgetVars
<1>9. ASSUME StreakLoad PROVE JobTypes'
  BY <1>9 DEF StreakLoad, Untriggered, Room, ruleVars, jobVars, editVars, ghostVars,
     budgetVars
<1>10. ASSUME NEW F \in SUBSET seen[Streak], StreakCommit(F) PROVE JobTypes'
  BY <1>10 DEF StreakCommit, Fire, Firings, Locked, ruleVars, jobVars, editVars,
     ghostVars, budgetVars
<1>11. ASSUME NEW j \in Jobs, NEW n \in outbox[j], Notify(j, n) PROVE JobTypes'
  BY <1>11 DEF Notify, ruleVars, jobVars, editVars, ghostVars, budgetVars
<1>12. ASSUME NEW j \in Jobs, JobFails(j) PROVE JobTypes'
  BY <1>12 DEF JobFails, Unlocked, ruleVars, jobVars, editVars, ghostVars, budgetVars
<1>13. CASE UNCHANGED alertVars
  BY <1>13 DEF alertVars, ruleVars, jobVars, editVars, ghostVars, budgetVars
<1> HIDE DEF AlertTypeOK, RuleTypes, JobTypes, EditTypes, Jobs, Sides, EditKinds,
    NoSide, NoKind, NoNumber
<1>14. CASE Owner
  <2>1. CASE \E a \in Alerts, l \in Levels \cup {NoNumber}, r \in BOOLEAN : Create(a, l, r)
    BY <2>1, <1>1
  <2>2. CASE \E u \in Edits, a \in Alerts, k \in EditKinds, l \in Levels \cup {NoNumber} : EditLoad(u, a, k, l)
    BY <2>2, <1>2
  <2>3. CASE \E u \in Edits : EditCommit(u)
    BY <2>3, <1>3
  <2>4. CASE \E a \in Alerts : Delete(a)
    BY <2>4, <1>4
  <2>5. CASE \E a \in Alerts : CooldownEnds(a)
    BY <2>5, <1>5
  <2>6. QED
    BY <1>14, <2>1, <2>2, <2>3, <2>4, <2>5 DEF Owner
<1>15. CASE Evaluate
  BY <1>15, <1>7, <1>8, <1>9, <1>10 DEF Evaluate
<1>16. QED
  BY <1>6, <1>11, <1>12, <1>14, <1>15, <1>13 DEF AlertNext

\* ... and of the requests.
LEMMA EditStep == AlertTypeOK /\ [AlertNext]_alertVars => EditTypes' /\ BudgetTypes'
<1> SUFFICES ASSUME AlertTypeOK, [AlertNext]_alertVars PROVE EditTypes' /\ BudgetTypes'
  OBVIOUS
<1> USE DEF AlertTypeOK, RuleTypes, JobTypes, EditTypes, Jobs, Sides, EditKinds, NoSide,
    NoKind, NoNumber, BudgetTypes
<1>1. ASSUME NEW a \in Alerts, NEW l \in Levels \cup {NoNumber}, NEW r \in BOOLEAN,
      Create(a, l, r) PROVE EditTypes' /\ BudgetTypes'
  BY <1>1 DEF Create, ruleVars, jobVars, editVars, ghostVars, budgetVars
<1>2. ASSUME NEW u \in Edits, NEW a \in Alerts, NEW k \in EditKinds, NEW l \in Levels
      \cup {NoNumber}, EditLoad(u, a, k, l) PROVE EditTypes' /\ BudgetTypes'
  BY <1>2 DEF EditLoad, ruleVars, jobVars, editVars, ghostVars, budgetVars
<1>3. ASSUME NEW u \in Edits, EditCommit(u) PROVE EditTypes' /\ BudgetTypes'
  BY <1>3 DEF EditCommit, Locked, ruleVars, jobVars, editVars, ghostVars, budgetVars
<1>4. ASSUME NEW a \in Alerts, Delete(a) PROVE EditTypes' /\ BudgetTypes'
  BY <1>4 DEF Delete, Locked, ruleVars, jobVars, editVars, ghostVars, budgetVars
<1>5. ASSUME NEW a \in Alerts, CooldownEnds(a) PROVE EditTypes' /\ BudgetTypes'
  BY <1>5 DEF CooldownEnds, ruleVars, jobVars, editVars, ghostVars, budgetVars
<1>6. ASSUME NEW t \in Ticks, Poll(t) PROVE EditTypes' /\ BudgetTypes'
  BY <1>6 DEF Poll, ruleVars, jobVars, editVars, ghostVars, budgetVars
<1>7. ASSUME NEW t \in Ticks, NEW p \in Prices, TickLoad(t, p) PROVE EditTypes' /\
      BudgetTypes'
  <2>1. CASE Untriggered \subseteq Daily
    BY <1>7, <2>1 DEF TickLoad, Untriggered, Locked, Room, ruleVars, jobVars, editVars,
       ghostVars, budgetVars
  <2>2. CASE ~(Untriggered \subseteq Daily)
    BY <1>7, <2>2 DEF TickLoad, Untriggered, Locked, Room, ruleVars, jobVars, editVars,
       ghostVars, budgetVars
  <2>3. QED
    BY <2>1, <2>2
<1>8. ASSUME NEW t \in Ticks, NEW known \in SUBSET seen[t], TickCommit(t, known) PROVE
      EditTypes' /\ BudgetTypes'
  BY <1>8 DEF TickCommit, Fire, Firings, Unlocked, Matches, ruleVars, jobVars, editVars,
     ghostVars, budgetVars
<1>9. ASSUME StreakLoad PROVE EditTypes' /\ BudgetTypes'
  BY <1>9 DEF StreakLoad, Untriggered, Room, ruleVars, jobVars, editVars, ghostVars,
     budgetVars
<1>10. ASSUME NEW F \in SUBSET seen[Streak], StreakCommit(F) PROVE EditTypes' /\
      BudgetTypes'
  BY <1>10 DEF StreakCommit, Fire, Firings, Locked, ruleVars, jobVars, editVars,
     ghostVars, budgetVars
<1>11. ASSUME NEW j \in Jobs, NEW n \in outbox[j], Notify(j, n) PROVE EditTypes' /\
      BudgetTypes'
  BY <1>11 DEF Notify, ruleVars, jobVars, editVars, ghostVars, budgetVars
<1>12. ASSUME NEW j \in Jobs, JobFails(j) PROVE EditTypes' /\ BudgetTypes'
  BY <1>12 DEF JobFails, Unlocked, ruleVars, jobVars, editVars, ghostVars, budgetVars
<1>13. CASE UNCHANGED alertVars
  BY <1>13 DEF alertVars, ruleVars, jobVars, editVars, ghostVars, budgetVars
<1> HIDE DEF AlertTypeOK, RuleTypes, JobTypes, EditTypes, Jobs, Sides, EditKinds,
    NoSide, NoKind, NoNumber, BudgetTypes
<1>14. CASE Owner
  <2>1. CASE \E a \in Alerts, l \in Levels \cup {NoNumber}, r \in BOOLEAN : Create(a, l, r)
    BY <2>1, <1>1
  <2>2. CASE \E u \in Edits, a \in Alerts, k \in EditKinds, l \in Levels \cup {NoNumber} : EditLoad(u, a, k, l)
    BY <2>2, <1>2
  <2>3. CASE \E u \in Edits : EditCommit(u)
    BY <2>3, <1>3
  <2>4. CASE \E a \in Alerts : Delete(a)
    BY <2>4, <1>4
  <2>5. CASE \E a \in Alerts : CooldownEnds(a)
    BY <2>5, <1>5
  <2>6. QED
    BY <1>14, <2>1, <2>2, <2>3, <2>4, <2>5 DEF Owner
<1>15. CASE Evaluate
  BY <1>15, <1>7, <1>8, <1>9, <1>10 DEF Evaluate
<1>16. QED
  BY <1>6, <1>11, <1>12, <1>14, <1>15, <1>13 DEF AlertNext

\* Every variable keeps its type.
THEOREM AlertTypes == AlertSpec => []AlertTypeOK
<1>1. (\E b \in Budgets : AlertInit(b)) => AlertTypeOK
  BY DEF AlertInit, AlertTypeOK, RuleTypes, JobTypes, EditTypes, BudgetTypes, Jobs, Sides,
     EditKinds, NoSide, NoKind, NoNumber
<1>2. AlertTypeOK /\ [AlertNext]_alertVars => AlertTypeOK'
  BY RuleStep, JobStep, EditStep DEF AlertTypeOK
<1>3. QED
  BY <1>1, <1>2, PTL DEF AlertSpec

\* What a job is evaluating: a refresh job holds the lock of its alerts, all of
\* them untriggered and none of them daily; the streak job has daily ones, and
\* nobody else touches their flag.
Held == \A t \in Ticks : \A a \in seen[t] :
            lock[a] = t /\ row[a] = "live" /\ ~triggered[a] /\ a \notin Daily
HeldByStreak == \A a \in seen[Streak] : a \in Daily /\ ~triggered[a]
\* An alert under evaluation has room for a firing, and so has no other than the
\* bounded number.
Roomy == \A a \in Alerts : /\ fired[a] <= MaxFirings
                           /\ \A j \in Jobs : a \in seen[j] => fired[a] < MaxFirings
Evaluated == Held /\ HeldByStreak /\ Roomy

\* A refresh job evaluates rows it holds.
LEMMA HeldStep == AlertTypeOK /\ Held /\ HeldByStreak /\ [AlertNext]_alertVars => Held'
<1> SUFFICES ASSUME AlertTypeOK, Held, HeldByStreak, [AlertNext]_alertVars PROVE Held'
  OBVIOUS
<1> USE DEF AlertTypeOK, RuleTypes, JobTypes, Jobs, Held, HeldByStreak
<1>1. ASSUME NEW a \in Alerts, NEW l \in Levels \cup {NoNumber}, NEW r \in BOOLEAN,
      Create(a, l, r) PROVE Held'
  BY <1>1 DEF Create, ruleVars, jobVars, editVars, ghostVars, budgetVars
<1>2. ASSUME NEW u \in Edits, NEW a \in Alerts, NEW k \in EditKinds, NEW l \in Levels
      \cup {NoNumber}, EditLoad(u, a, k, l) PROVE Held'
  BY <1>2 DEF EditLoad, ruleVars, jobVars, editVars, ghostVars, budgetVars
<1>3. ASSUME NEW u \in Edits, EditCommit(u) PROVE Held'
  BY <1>3 DEF EditCommit, Locked, ruleVars, jobVars, editVars, ghostVars, budgetVars
<1>4. ASSUME NEW a \in Alerts, Delete(a) PROVE Held'
  BY <1>4 DEF Delete, Locked, ruleVars, jobVars, editVars, ghostVars, budgetVars
<1>5. ASSUME NEW a \in Alerts, CooldownEnds(a) PROVE Held'
  BY <1>5 DEF CooldownEnds, ruleVars, jobVars, editVars, ghostVars, budgetVars
<1>6. ASSUME NEW t \in Ticks, Poll(t) PROVE Held'
  BY <1>6 DEF Poll, ruleVars, jobVars, editVars, ghostVars, budgetVars
<1>7. ASSUME NEW t \in Ticks, NEW p \in Prices, TickLoad(t, p) PROVE Held'
  <2>1. CASE Untriggered \subseteq Daily
    BY <1>7, <2>1 DEF TickLoad, Untriggered, Locked, Room, ruleVars, jobVars, editVars,
       ghostVars, budgetVars
  <2>2. CASE ~(Untriggered \subseteq Daily)
    BY <1>7, <2>2 DEF TickLoad, Untriggered, Locked, Room, ruleVars, jobVars, editVars,
       ghostVars, budgetVars
  <2>3. QED
    BY <2>1, <2>2
<1>8. ASSUME NEW t \in Ticks, NEW known \in SUBSET seen[t], TickCommit(t, known) PROVE
      Held'
  BY <1>8 DEF TickCommit, Fire, Firings, Unlocked, Matches, ruleVars, jobVars, editVars,
     ghostVars, budgetVars
<1>9. ASSUME StreakLoad PROVE Held'
  BY <1>9 DEF StreakLoad, Untriggered, Room, ruleVars, jobVars, editVars, ghostVars,
     budgetVars
<1>10. ASSUME NEW F \in SUBSET seen[Streak], StreakCommit(F) PROVE Held'
  BY <1>10 DEF StreakCommit, Fire, Firings, Locked, ruleVars, jobVars, editVars,
     ghostVars, budgetVars
<1>11. ASSUME NEW j \in Jobs, NEW n \in outbox[j], Notify(j, n) PROVE Held'
  BY <1>11 DEF Notify, ruleVars, jobVars, editVars, ghostVars, budgetVars
<1>12. ASSUME NEW j \in Jobs, JobFails(j) PROVE Held'
  BY <1>12 DEF JobFails, Unlocked, ruleVars, jobVars, editVars, ghostVars, budgetVars
<1>13. CASE UNCHANGED alertVars
  BY <1>13 DEF alertVars, ruleVars, jobVars, editVars, ghostVars, budgetVars
<1> HIDE DEF AlertTypeOK, RuleTypes, JobTypes, Jobs, Held, HeldByStreak
<1>14. CASE Owner
  <2>1. CASE \E a \in Alerts, l \in Levels \cup {NoNumber}, r \in BOOLEAN : Create(a, l, r)
    BY <2>1, <1>1
  <2>2. CASE \E u \in Edits, a \in Alerts, k \in EditKinds, l \in Levels \cup {NoNumber} : EditLoad(u, a, k, l)
    BY <2>2, <1>2
  <2>3. CASE \E u \in Edits : EditCommit(u)
    BY <2>3, <1>3
  <2>4. CASE \E a \in Alerts : Delete(a)
    BY <2>4, <1>4
  <2>5. CASE \E a \in Alerts : CooldownEnds(a)
    BY <2>5, <1>5
  <2>6. QED
    BY <1>14, <2>1, <2>2, <2>3, <2>4, <2>5 DEF Owner
<1>15. CASE Evaluate
  BY <1>15, <1>7, <1>8, <1>9, <1>10 DEF Evaluate
<1>16. QED
  BY <1>6, <1>11, <1>12, <1>14, <1>15, <1>13 DEF AlertNext

\* Nobody but the streak job flips a daily alert.
LEMMA StreakStep == AlertTypeOK /\ Held /\ HeldByStreak /\ [AlertNext]_alertVars =>
    HeldByStreak'
<1> SUFFICES ASSUME AlertTypeOK, Held, HeldByStreak, [AlertNext]_alertVars PROVE
    HeldByStreak'
  OBVIOUS
<1> USE DEF AlertTypeOK, RuleTypes, JobTypes, Jobs, Held, HeldByStreak
<1>1. ASSUME NEW a \in Alerts, NEW l \in Levels \cup {NoNumber}, NEW r \in BOOLEAN,
      Create(a, l, r) PROVE HeldByStreak'
  BY <1>1 DEF Create, ruleVars, jobVars, editVars, ghostVars, budgetVars
<1>2. ASSUME NEW u \in Edits, NEW a \in Alerts, NEW k \in EditKinds, NEW l \in Levels
      \cup {NoNumber}, EditLoad(u, a, k, l) PROVE HeldByStreak'
  BY <1>2 DEF EditLoad, ruleVars, jobVars, editVars, ghostVars, budgetVars
<1>3. ASSUME NEW u \in Edits, EditCommit(u) PROVE HeldByStreak'
  BY <1>3 DEF EditCommit, Locked, ruleVars, jobVars, editVars, ghostVars, budgetVars
<1>4. ASSUME NEW a \in Alerts, Delete(a) PROVE HeldByStreak'
  BY <1>4 DEF Delete, Locked, ruleVars, jobVars, editVars, ghostVars, budgetVars
<1>5. ASSUME NEW a \in Alerts, CooldownEnds(a) PROVE HeldByStreak'
  BY <1>5 DEF CooldownEnds, ruleVars, jobVars, editVars, ghostVars, budgetVars
<1>6. ASSUME NEW t \in Ticks, Poll(t) PROVE HeldByStreak'
  BY <1>6 DEF Poll, ruleVars, jobVars, editVars, ghostVars, budgetVars
<1>7. ASSUME NEW t \in Ticks, NEW p \in Prices, TickLoad(t, p) PROVE HeldByStreak'
  <2>1. CASE Untriggered \subseteq Daily
    BY <1>7, <2>1 DEF TickLoad, Untriggered, Locked, Room, ruleVars, jobVars, editVars,
       ghostVars, budgetVars
  <2>2. CASE ~(Untriggered \subseteq Daily)
    BY <1>7, <2>2 DEF TickLoad, Untriggered, Locked, Room, ruleVars, jobVars, editVars,
       ghostVars, budgetVars
  <2>3. QED
    BY <2>1, <2>2
<1>8. ASSUME NEW t \in Ticks, NEW known \in SUBSET seen[t], TickCommit(t, known) PROVE
      HeldByStreak'
  BY <1>8 DEF TickCommit, Fire, Firings, Unlocked, Matches, ruleVars, jobVars, editVars,
     ghostVars, budgetVars
<1>9. ASSUME StreakLoad PROVE HeldByStreak'
  BY <1>9 DEF StreakLoad, Untriggered, Room, ruleVars, jobVars, editVars, ghostVars,
     budgetVars
<1>10. ASSUME NEW F \in SUBSET seen[Streak], StreakCommit(F) PROVE HeldByStreak'
  BY <1>10 DEF StreakCommit, Fire, Firings, Locked, ruleVars, jobVars, editVars,
     ghostVars, budgetVars
<1>11. ASSUME NEW j \in Jobs, NEW n \in outbox[j], Notify(j, n) PROVE HeldByStreak'
  BY <1>11 DEF Notify, ruleVars, jobVars, editVars, ghostVars, budgetVars
<1>12. ASSUME NEW j \in Jobs, JobFails(j) PROVE HeldByStreak'
  BY <1>12 DEF JobFails, Unlocked, ruleVars, jobVars, editVars, ghostVars, budgetVars
<1>13. CASE UNCHANGED alertVars
  BY <1>13 DEF alertVars, ruleVars, jobVars, editVars, ghostVars, budgetVars
<1> HIDE DEF AlertTypeOK, RuleTypes, JobTypes, Jobs, Held, HeldByStreak
<1>14. CASE Owner
  <2>1. CASE \E a \in Alerts, l \in Levels \cup {NoNumber}, r \in BOOLEAN : Create(a, l, r)
    BY <2>1, <1>1
  <2>2. CASE \E u \in Edits, a \in Alerts, k \in EditKinds, l \in Levels \cup {NoNumber} : EditLoad(u, a, k, l)
    BY <2>2, <1>2
  <2>3. CASE \E u \in Edits : EditCommit(u)
    BY <2>3, <1>3
  <2>4. CASE \E a \in Alerts : Delete(a)
    BY <2>4, <1>4
  <2>5. CASE \E a \in Alerts : CooldownEnds(a)
    BY <2>5, <1>5
  <2>6. QED
    BY <1>14, <2>1, <2>2, <2>3, <2>4, <2>5 DEF Owner
<1>15. CASE Evaluate
  BY <1>15, <1>7, <1>8, <1>9, <1>10 DEF Evaluate
<1>16. QED
  BY <1>6, <1>11, <1>12, <1>14, <1>15, <1>13 DEF AlertNext

\* A firing of one job keeps within the bound of the others.
LEMMA RoomStep == AlertTypeOK /\ Evaluated /\ [AlertNext]_alertVars => Roomy'
<1> SUFFICES ASSUME AlertTypeOK, Evaluated, [AlertNext]_alertVars PROVE Roomy'
  OBVIOUS
<1> USE DEF AlertTypeOK, RuleTypes, JobTypes, Jobs, Evaluated, Held, HeldByStreak, Roomy
<1>1. ASSUME NEW a \in Alerts, NEW l \in Levels \cup {NoNumber}, NEW r \in BOOLEAN,
      Create(a, l, r) PROVE Roomy'
  BY <1>1 DEF Create, ruleVars, jobVars, editVars, ghostVars, budgetVars
<1>2. ASSUME NEW u \in Edits, NEW a \in Alerts, NEW k \in EditKinds, NEW l \in Levels
      \cup {NoNumber}, EditLoad(u, a, k, l) PROVE Roomy'
  BY <1>2 DEF EditLoad, ruleVars, jobVars, editVars, ghostVars, budgetVars
<1>3. ASSUME NEW u \in Edits, EditCommit(u) PROVE Roomy'
  BY <1>3 DEF EditCommit, Locked, ruleVars, jobVars, editVars, ghostVars, budgetVars
<1>4. ASSUME NEW a \in Alerts, Delete(a) PROVE Roomy'
  BY <1>4 DEF Delete, Locked, ruleVars, jobVars, editVars, ghostVars, budgetVars
<1>5. ASSUME NEW a \in Alerts, CooldownEnds(a) PROVE Roomy'
  BY <1>5 DEF CooldownEnds, ruleVars, jobVars, editVars, ghostVars, budgetVars
<1>6. ASSUME NEW t \in Ticks, Poll(t) PROVE Roomy'
  BY <1>6 DEF Poll, ruleVars, jobVars, editVars, ghostVars, budgetVars
<1>7. ASSUME NEW t \in Ticks, NEW p \in Prices, TickLoad(t, p) PROVE Roomy'
  <2>1. CASE Untriggered \subseteq Daily
    BY <1>7, <2>1 DEF TickLoad, Untriggered, Locked, Room, ruleVars, jobVars, editVars,
       ghostVars, budgetVars
  <2>2. CASE ~(Untriggered \subseteq Daily)
    BY <1>7, <2>2 DEF TickLoad, Untriggered, Locked, Room, ruleVars, jobVars, editVars,
       ghostVars, budgetVars
  <2>3. QED
    BY <2>1, <2>2
<1>8. ASSUME NEW t \in Ticks, NEW known \in SUBSET seen[t], TickCommit(t, known) PROVE
      Roomy'
  BY <1>8 DEF TickCommit, Fire, Firings, Unlocked, Matches, ruleVars, jobVars, editVars,
     ghostVars, budgetVars
<1>9. ASSUME StreakLoad PROVE Roomy'
  BY <1>9 DEF StreakLoad, Untriggered, Room, ruleVars, jobVars, editVars, ghostVars,
     budgetVars
<1>10. ASSUME NEW F \in SUBSET seen[Streak], StreakCommit(F) PROVE Roomy'
  BY <1>10 DEF StreakCommit, Fire, Firings, Locked, ruleVars, jobVars, editVars,
     ghostVars, budgetVars
<1>11. ASSUME NEW j \in Jobs, NEW n \in outbox[j], Notify(j, n) PROVE Roomy'
  BY <1>11 DEF Notify, ruleVars, jobVars, editVars, ghostVars, budgetVars
<1>12. ASSUME NEW j \in Jobs, JobFails(j) PROVE Roomy'
  BY <1>12 DEF JobFails, Unlocked, ruleVars, jobVars, editVars, ghostVars, budgetVars
<1>13. CASE UNCHANGED alertVars
  BY <1>13 DEF alertVars, ruleVars, jobVars, editVars, ghostVars, budgetVars
<1> HIDE DEF AlertTypeOK, RuleTypes, JobTypes, Jobs, Evaluated, Held, HeldByStreak,
    Roomy
<1>14. CASE Owner
  <2>1. CASE \E a \in Alerts, l \in Levels \cup {NoNumber}, r \in BOOLEAN : Create(a, l, r)
    BY <2>1, <1>1
  <2>2. CASE \E u \in Edits, a \in Alerts, k \in EditKinds, l \in Levels \cup {NoNumber} : EditLoad(u, a, k, l)
    BY <2>2, <1>2
  <2>3. CASE \E u \in Edits : EditCommit(u)
    BY <2>3, <1>3
  <2>4. CASE \E a \in Alerts : Delete(a)
    BY <2>4, <1>4
  <2>5. CASE \E a \in Alerts : CooldownEnds(a)
    BY <2>5, <1>5
  <2>6. QED
    BY <1>14, <2>1, <2>2, <2>3, <2>4, <2>5 DEF Owner
<1>15. CASE Evaluate
  BY <1>15, <1>7, <1>8, <1>9, <1>10 DEF Evaluate
<1>16. QED
  BY <1>6, <1>11, <1>12, <1>14, <1>15, <1>13 DEF AlertNext

\* The three hold throughout.
LEMMA EvaluatedAlways == AlertSpec => []Evaluated
<1>1. (\E b \in Budgets : AlertInit(b)) => Evaluated
  BY DEF AlertInit, Evaluated, Held, HeldByStreak, Roomy, Jobs
<1>2. AlertTypeOK /\ Evaluated /\ [AlertNext]_alertVars => Evaluated'
  BY HeldStep, StreakStep, RoomStep DEF Evaluated
<1>3. QED
  BY <1>1, <1>2, AlertTypes, PTL DEF AlertSpec

\* Only an alert that has not fired for good fires, and once in a step.
LEMMA FiringStep == AlertTypeOK /\ Evaluated /\ [AlertNext]_alertVars => \A a \in Alerts
    : fired'[a] # fired[a] => ~triggered[a] /\ fired'[a] = fired[a] + 1
<1> SUFFICES ASSUME AlertTypeOK, Evaluated, [AlertNext]_alertVars PROVE \A x \in Alerts
    : fired'[x] # fired[x] => ~triggered[x] /\ fired'[x] = fired[x] + 1
  OBVIOUS
<1> USE DEF AlertTypeOK, RuleTypes, JobTypes, Jobs, Evaluated, Held, HeldByStreak
<1>1. ASSUME NEW a \in Alerts, NEW l \in Levels \cup {NoNumber}, NEW r \in BOOLEAN,
      Create(a, l, r) PROVE \A x \in Alerts : fired'[x] # fired[x] => ~triggered[x] /\
      fired'[x] = fired[x] + 1
  BY <1>1 DEF Create, ruleVars, jobVars, editVars, ghostVars, budgetVars
<1>2. ASSUME NEW u \in Edits, NEW a \in Alerts, NEW k \in EditKinds, NEW l \in Levels
      \cup {NoNumber}, EditLoad(u, a, k, l) PROVE \A x \in Alerts : fired'[x] # fired[x]
      => ~triggered[x] /\ fired'[x] = fired[x] + 1
  BY <1>2 DEF EditLoad, ruleVars, jobVars, editVars, ghostVars, budgetVars
<1>3. ASSUME NEW u \in Edits, EditCommit(u) PROVE \A x \in Alerts : fired'[x] # fired[x]
      => ~triggered[x] /\ fired'[x] = fired[x] + 1
  BY <1>3 DEF EditCommit, Locked, ruleVars, jobVars, editVars, ghostVars, budgetVars
<1>4. ASSUME NEW a \in Alerts, Delete(a) PROVE \A x \in Alerts : fired'[x] # fired[x] =>
      ~triggered[x] /\ fired'[x] = fired[x] + 1
  BY <1>4 DEF Delete, Locked, ruleVars, jobVars, editVars, ghostVars, budgetVars
<1>5. ASSUME NEW a \in Alerts, CooldownEnds(a) PROVE \A x \in Alerts : fired'[x] #
      fired[x] => ~triggered[x] /\ fired'[x] = fired[x] + 1
  BY <1>5 DEF CooldownEnds, ruleVars, jobVars, editVars, ghostVars, budgetVars
<1>6. ASSUME NEW t \in Ticks, Poll(t) PROVE \A x \in Alerts : fired'[x] # fired[x] =>
      ~triggered[x] /\ fired'[x] = fired[x] + 1
  BY <1>6 DEF Poll, ruleVars, jobVars, editVars, ghostVars, budgetVars
<1>7. ASSUME NEW t \in Ticks, NEW p \in Prices, TickLoad(t, p) PROVE \A x \in Alerts :
      fired'[x] # fired[x] => ~triggered[x] /\ fired'[x] = fired[x] + 1
  <2>1. CASE Untriggered \subseteq Daily
    BY <1>7, <2>1 DEF TickLoad, Untriggered, Locked, Room, ruleVars, jobVars, editVars,
       ghostVars, budgetVars
  <2>2. CASE ~(Untriggered \subseteq Daily)
    BY <1>7, <2>2 DEF TickLoad, Untriggered, Locked, Room, ruleVars, jobVars, editVars,
       ghostVars, budgetVars
  <2>3. QED
    BY <2>1, <2>2
<1>8. ASSUME NEW t \in Ticks, NEW known \in SUBSET seen[t], TickCommit(t, known) PROVE
      \A x \in Alerts : fired'[x] # fired[x] => ~triggered[x] /\ fired'[x] = fired[x] +
      1
  BY <1>8 DEF TickCommit, Fire, Firings, Unlocked, Matches, ruleVars, jobVars, editVars,
     ghostVars, budgetVars
<1>9. ASSUME StreakLoad PROVE \A x \in Alerts : fired'[x] # fired[x] => ~triggered[x] /\
      fired'[x] = fired[x] + 1
  BY <1>9 DEF StreakLoad, Untriggered, Room, ruleVars, jobVars, editVars, ghostVars,
     budgetVars
<1>10. ASSUME NEW F \in SUBSET seen[Streak], StreakCommit(F) PROVE \A x \in Alerts :
      fired'[x] # fired[x] => ~triggered[x] /\ fired'[x] = fired[x] + 1
  BY <1>10 DEF StreakCommit, Fire, Firings, Locked, ruleVars, jobVars, editVars,
     ghostVars, budgetVars
<1>11. ASSUME NEW j \in Jobs, NEW n \in outbox[j], Notify(j, n) PROVE \A x \in Alerts :
      fired'[x] # fired[x] => ~triggered[x] /\ fired'[x] = fired[x] + 1
  BY <1>11 DEF Notify, ruleVars, jobVars, editVars, ghostVars, budgetVars
<1>12. ASSUME NEW j \in Jobs, JobFails(j) PROVE \A x \in Alerts : fired'[x] # fired[x]
      => ~triggered[x] /\ fired'[x] = fired[x] + 1
  BY <1>12 DEF JobFails, Unlocked, ruleVars, jobVars, editVars, ghostVars, budgetVars
<1>13. CASE UNCHANGED alertVars
  BY <1>13 DEF alertVars, ruleVars, jobVars, editVars, ghostVars, budgetVars
<1> HIDE DEF AlertTypeOK, RuleTypes, JobTypes, Jobs, Evaluated, Held, HeldByStreak
<1>14. CASE Owner
  <2>1. CASE \E a \in Alerts, l \in Levels \cup {NoNumber}, r \in BOOLEAN : Create(a, l, r)
    BY <2>1, <1>1
  <2>2. CASE \E u \in Edits, a \in Alerts, k \in EditKinds, l \in Levels \cup {NoNumber} : EditLoad(u, a, k, l)
    BY <2>2, <1>2
  <2>3. CASE \E u \in Edits : EditCommit(u)
    BY <2>3, <1>3
  <2>4. CASE \E a \in Alerts : Delete(a)
    BY <2>4, <1>4
  <2>5. CASE \E a \in Alerts : CooldownEnds(a)
    BY <2>5, <1>5
  <2>6. QED
    BY <1>14, <2>1, <2>2, <2>3, <2>4, <2>5 DEF Owner
<1>15. CASE Evaluate
  BY <1>15, <1>7, <1>8, <1>9, <1>10 DEF Evaluate
<1>16. QED
  BY <1>6, <1>11, <1>12, <1>14, <1>15, <1>13 DEF AlertNext

\* check_and_fire and the streak job fire an alert at most once for good, whoever runs
\* at once with them.
THEOREM FiringIsFinal == AlertSpec => TriggeredIsFinal
<1>1. AlertTypeOK /\ Evaluated /\ [AlertNext]_alertVars
        => [\A a \in Alerts : fired'[a] # fired[a] => ~triggered[a] /\ fired'[a] = fired[a] + 1]_alertVars
  BY FiringStep
<1>2. QED
  BY <1>1, AlertTypes, EvaluatedAlways, PTL DEF AlertSpec, TriggeredIsFinal

\* While a PATCH of the geometry is under way that read no side, its rule has none, or
\* the overlap is on record: so when it commits, a side it leaves is the exception.
SideInv ==
    /\ SideFitsLevel
    /\ \A u \in Edits, a \in Stateful : Unaware(u, a) => side[a] = NoSide \/ a \in blurred

\* A side is stored with its level, and a new level without a side, but for the overlap.
LEMMA SideStep == AlertTypeOK /\ SideInv /\ [AlertNext]_alertVars =>
    SideInv'
<1> SUFFICES ASSUME AlertTypeOK, SideInv, [AlertNext]_alertVars PROVE
    SideInv'
  OBVIOUS
<1> USE DEF AlertTypeOK, RuleTypes, JobTypes, EditTypes, Jobs, SideInv, SideFitsLevel, Unaware
<1>1. ASSUME NEW a \in Alerts, NEW l \in Levels \cup {NoNumber}, NEW r \in BOOLEAN,
      Create(a, l, r) PROVE SideInv'
  BY <1>1 DEF Create, ruleVars, jobVars, editVars, ghostVars, budgetVars
<1>2. ASSUME NEW u \in Edits, NEW a \in Alerts, NEW k \in EditKinds, NEW l \in Levels
      \cup {NoNumber}, EditLoad(u, a, k, l) PROVE SideInv'
  BY <1>2 DEF EditLoad, ruleVars, jobVars, editVars, ghostVars, budgetVars
<1>3. ASSUME NEW u \in Edits, EditCommit(u) PROVE SideInv'
  BY <1>3 DEF EditCommit, Locked, ruleVars, jobVars, editVars, ghostVars, budgetVars
<1>4. ASSUME NEW a \in Alerts, Delete(a) PROVE SideInv'
  BY <1>4 DEF Delete, Locked, ruleVars, jobVars, editVars, ghostVars, budgetVars
<1>5. ASSUME NEW a \in Alerts, CooldownEnds(a) PROVE SideInv'
  BY <1>5 DEF CooldownEnds, ruleVars, jobVars, editVars, ghostVars, budgetVars
<1>6. ASSUME NEW t \in Ticks, Poll(t) PROVE SideInv'
  BY <1>6 DEF Poll, ruleVars, jobVars, editVars, ghostVars, budgetVars
<1>7. ASSUME NEW t \in Ticks, NEW p \in Prices, TickLoad(t, p) PROVE SideInv'
  <2>1. CASE Untriggered \subseteq Daily
    BY <1>7, <2>1 DEF TickLoad, Untriggered, Locked, Room, ruleVars, jobVars, editVars,
       ghostVars, budgetVars
  <2>2. CASE ~(Untriggered \subseteq Daily)
    BY <1>7, <2>2 DEF TickLoad, Untriggered, Locked, Room, ruleVars, jobVars, editVars,
       ghostVars, budgetVars
  <2>3. QED
    BY <2>1, <2>2
<1>8. ASSUME NEW t \in Ticks, NEW known \in SUBSET seen[t], TickCommit(t, known) PROVE
      SideInv'
  BY <1>8 DEF TickCommit, Fire, Firings, Unlocked, Matches, ruleVars, jobVars, editVars,
     ghostVars, budgetVars
<1>9. ASSUME StreakLoad PROVE SideInv'
  BY <1>9 DEF StreakLoad, Untriggered, Room, ruleVars, jobVars, editVars, ghostVars,
     budgetVars
<1>10. ASSUME NEW F \in SUBSET seen[Streak], StreakCommit(F) PROVE SideInv'
  BY <1>10 DEF StreakCommit, Fire, Firings, Locked, ruleVars, jobVars, editVars,
     ghostVars, budgetVars
<1>11. ASSUME NEW j \in Jobs, NEW n \in outbox[j], Notify(j, n) PROVE SideInv'
  BY <1>11 DEF Notify, ruleVars, jobVars, editVars, ghostVars, budgetVars
<1>12. ASSUME NEW j \in Jobs, JobFails(j) PROVE SideInv'
  BY <1>12 DEF JobFails, Unlocked, ruleVars, jobVars, editVars, ghostVars, budgetVars
<1>13. CASE UNCHANGED alertVars
  BY <1>13 DEF alertVars, ruleVars, jobVars, editVars, ghostVars, budgetVars
<1> HIDE DEF AlertTypeOK, RuleTypes, JobTypes, EditTypes, Jobs, SideInv, SideFitsLevel, Unaware
<1>14. CASE Owner
  <2>1. CASE \E a \in Alerts, l \in Levels \cup {NoNumber}, r \in BOOLEAN : Create(a, l, r)
    BY <2>1, <1>1
  <2>2. CASE \E u \in Edits, a \in Alerts, k \in EditKinds, l \in Levels \cup {NoNumber} : EditLoad(u, a, k, l)
    BY <2>2, <1>2
  <2>3. CASE \E u \in Edits : EditCommit(u)
    BY <2>3, <1>3
  <2>4. CASE \E a \in Alerts : Delete(a)
    BY <2>4, <1>4
  <2>5. CASE \E a \in Alerts : CooldownEnds(a)
    BY <2>5, <1>5
  <2>6. QED
    BY <1>14, <2>1, <2>2, <2>3, <2>4, <2>5 DEF Owner
<1>15. CASE Evaluate
  BY <1>15, <1>7, <1>8, <1>9, <1>10 DEF Evaluate
<1>16. QED
  BY <1>6, <1>11, <1>12, <1>14, <1>15, <1>13 DEF AlertNext

\* A stored side was judged against the level in force, but for the one overlap.
THEOREM SideAlwaysFits == AlertSpec => []SideFitsLevel
<1>1. (\E b \in Budgets : AlertInit(b)) => SideInv
  BY DEF AlertInit, SideInv, SideFitsLevel, Unaware
<1>2. SideInv => SideFitsLevel
  BY DEF SideInv
<1>3. QED
  BY <1>1, <1>2, SideStep, AlertTypes, PTL DEF AlertSpec

-----------------------------------------------------------------------------
(* The fan-out. *)

\* A bounded queue takes a text: it stays a queue, and holds nothing else that it did
\* not hold before.
LEMMA EnqueueType ==
    ASSUME NEW T, NEW q \in Seq(T), NEW x \in T
    PROVE  /\ Enqueue(q, x) \in Seq(T)
           /\ \A i \in 1..Len(Enqueue(q, x)) :
                 Enqueue(q, x)[i] = x \/ \E k \in 1..Len(q) : Enqueue(q, x)[i] = q[k]
<1>1. CASE Len(q) = QueueMax
  <2>1. q # << >> /\ Tail(q) \in Seq(T) /\ Len(Tail(q)) = Len(q) - 1
    BY <1>1
  <2>2. \A i \in 1..Len(Tail(q)) : Tail(q)[i] = q[i + 1]
    BY <2>1
  <2>3. Enqueue(q, x) = Append(Tail(q), x)
    BY <1>1 DEF Enqueue
  <2>4. \A i \in 1..Len(Append(Tail(q), x)) :
          Append(Tail(q), x)[i] = IF i = Len(q) THEN x ELSE Tail(q)[i]
    <3> DEFINE t == Tail(q)
    <3>1. t \in Seq(T) /\ Len(q) = Len(t) + 1
      BY <2>1
    <3> HIDE DEF t
    <3>2. \A i \in 1..Len(Append(t, x)) : Append(t, x)[i] = IF i = Len(t) + 1 THEN x ELSE t[i]
      BY <3>1
    <3>3. QED
      BY <3>1, <3>2 DEF t
  <2>5. Append(Tail(q), x) \in Seq(T) /\ Len(Append(Tail(q), x)) = Len(q)
    BY <2>1
  <2>6. ASSUME NEW i \in 1..Len(q), i # Len(q)
        PROVE  Append(Tail(q), x)[i] = q[i + 1] /\ i + 1 \in 1..Len(q)
    <3>1. Len(q) \in Nat /\ i \in 1..Len(Tail(q)) /\ i + 1 \in 1..Len(q)
      <4>1. Len(q) \in Nat /\ i \in Nat /\ 1 <= i /\ i <= Len(q)
        OBVIOUS
      <4>2. i <= Len(q) - 1
        BY <4>1, <2>6
      <4>3. QED
        BY <4>1, <4>2, <2>1
    <3>2. Append(Tail(q), x)[i] = Tail(q)[i]
      BY <2>4, <2>5, <2>6
    <3>3. QED
      BY <2>2, <3>1, <3>2
  <2>7. QED
    BY <2>3, <2>4, <2>5, <2>6
<1>2. CASE Len(q) # QueueMax
  BY <1>2 DEF Enqueue
<1>3. QED
  BY <1>1, <1>2
\* So does the queue of a socket.
LEMMA QueueType ==
    ASSUME SocketTypeOK
    PROVE  \A s \in Sockets, x \in Notes \cup {Frame} :
               Enqueue(queue[s], x) \in Seq(Notes \cup {Frame})
  BY EnqueueType DEF SocketTypeOK, ConnTypes

\* Every step keeps the types of the connections ...
LEMMA ConnStep == SocketTypeOK /\ [SocketNext]_socketVars => ConnTypes'
<1> SUFFICES ASSUME SocketTypeOK, [SocketNext]_socketVars PROVE ConnTypes'
  OBVIOUS
<1> USE DEF SocketTypeOK, ConnTypes, Managed, WorkerTypes
<1>1. ASSUME NEW s \in Sockets, NEW u \in Users, Connect(s, u) PROVE ConnTypes'
  BY <1>1 DEF Connect, busVars, connVars, keyVars, limitVars
<1>2. ASSUME NEW s \in Sockets, NEW u \in Users, Reauthenticate(s, u) PROVE ConnTypes'
  BY <1>2, QueueType DEF Reauthenticate, Reply, Live, busVars, connVars, keyVars,
     limitVars
<1>3. ASSUME NEW s \in Sockets, Refuse(s) PROVE ConnTypes'
  BY <1>3, QueueType DEF Refuse, Reply, Live, busVars, connVars, keyVars, limitVars
<1>4. ASSUME NEW s \in Sockets, Subscribe(s) PROVE ConnTypes'
  BY <1>4, QueueType DEF Subscribe, Reply, Live, Fresh, Mirror, Union, busVars, connVars,
     keyVars, limitVars
<1>5. ASSUME NEW s \in Sockets, Unsubscribe(s) PROVE ConnTypes'
  BY <1>5 DEF Unsubscribe, Live, Fresh, Mirror, Union, busVars, connVars, keyVars,
     limitVars
<1>6. ASSUME NEW s \in Sockets, Leave(s) PROVE ConnTypes'
  BY <1>6 DEF Leave, Prune, Mirror, Union, busVars, connVars, keyVars, limitVars
<1>7. ASSUME NEW s \in Sockets, TokenExpires(s) PROVE ConnTypes'
  BY <1>7 DEF TokenExpires, busVars, connVars, keyVars, limitVars
<1>8. ASSUME NEW s \in Sockets, Send(s) PROVE ConnTypes'
  BY <1>8 DEF Send, busVars, connVars, keyVars, limitVars
<1>9. ASSUME NEW s \in Sockets, SendFails(s) PROVE ConnTypes'
  BY <1>9 DEF SendFails, Prune, busVars, connVars, keyVars, limitVars
<1>10. ASSUME NEW s \in Sockets, Ping(s) PROVE ConnTypes'
  BY <1>10, QueueType DEF Ping, Reply, busVars, connVars, keyVars, limitVars
<1>11. ASSUME NEW w \in Workers, WorkerStarts(w) PROVE ConnTypes'
  BY <1>11 DEF WorkerStarts, busVars, connVars, keyVars, limitVars
<1>12. ASSUME NEW w \in Workers, WorkerDies(w) PROVE ConnTypes'
  BY <1>12 DEF WorkerDies, Prune, busVars, connVars, keyVars, limitVars
<1>13. ASSUME NEW w \in Workers, Dispatch(w) PROVE ConnTypes'
  BY <1>13, QueueType DEF Dispatch, busVars, connVars, keyVars, limitVars
<1>14. ASSUME NEW w \in Workers, NEW n \in inbox[w], Deliver(w, n) PROVE ConnTypes'
  BY <1>14, QueueType DEF Deliver, busVars, connVars, keyVars, limitVars
<1>15. ASSUME NEW w \in Workers, ListenerDrops(w) PROVE ConnTypes'
  BY <1>15 DEF ListenerDrops, busVars, connVars, keyVars, limitVars
<1>16. ASSUME NEW w \in Workers, ListenerReturns(w) PROVE ConnTypes'
  BY <1>16 DEF ListenerReturns, busVars, connVars, keyVars, limitVars
<1>17. ASSUME NEW w \in Workers, MirrorAgain(w) PROVE ConnTypes'
  BY <1>17 DEF MirrorAgain, Mirror, Union, busVars, connVars, keyVars, limitVars
<1>18. ASSUME NEW w \in Workers, KeyExpires(w) PROVE ConnTypes'
  BY <1>18 DEF KeyExpires, busVars, connVars, keyVars, limitVars
<1>19. ASSUME NEW w \in Workers, NEW v \in writes[w], MirrorLands(w, v) PROVE ConnTypes'
  BY <1>19 DEF MirrorLands, busVars, connVars, keyVars, limitVars
<1>20. ASSUME NEW w \in Workers, NEW v \in writes[w], MirrorLost(w, v) PROVE ConnTypes'
  BY <1>20 DEF MirrorLost, busVars, connVars, keyVars, limitVars
<1>21. ASSUME NEW n \in Notes, Announce(n) PROVE ConnTypes'
  BY <1>21 DEF Announce, busVars, connVars, keyVars, limitVars
<1>22. CASE UNCHANGED socketVars
  BY <1>22 DEF socketVars, busVars, connVars, keyVars, limitVars
<1> HIDE DEF SocketTypeOK, ConnTypes, Managed, WorkerTypes
<1>23. CASE \E s \in Sockets : Handler(s)
  BY <1>23, <1>1, <1>2, <1>3, <1>4, <1>5, <1>6, <1>7, <1>8, <1>9, <1>10 DEF Handler
<1>24. CASE \E w \in Workers : Process(w)
  BY <1>24, <1>11, <1>12, <1>13, <1>14, <1>15, <1>16, <1>17, <1>18, <1>19, <1>20 DEF
     Process
<1>25. QED
  BY <1>21, <1>23, <1>24, <1>22 DEF SocketNext

\* ... and of the workers.
LEMMA WorkerStep == SocketTypeOK /\ [SocketNext]_socketVars => WorkerTypes'
<1> SUFFICES ASSUME SocketTypeOK, [SocketNext]_socketVars PROVE WorkerTypes'
  OBVIOUS
<1> USE DEF SocketTypeOK, ConnTypes, Managed, WorkerTypes
<1>1. ASSUME NEW s \in Sockets, NEW u \in Users, Connect(s, u) PROVE WorkerTypes'
  BY <1>1 DEF Connect, busVars, connVars, keyVars, limitVars
<1>2. ASSUME NEW s \in Sockets, NEW u \in Users, Reauthenticate(s, u) PROVE WorkerTypes'
  BY <1>2 DEF Reauthenticate, Reply, Live, busVars, connVars, keyVars, limitVars
<1>3. ASSUME NEW s \in Sockets, Refuse(s) PROVE WorkerTypes'
  BY <1>3 DEF Refuse, Reply, Live, busVars, connVars, keyVars, limitVars
<1>4. ASSUME NEW s \in Sockets, Subscribe(s) PROVE WorkerTypes'
  BY <1>4 DEF Subscribe, Reply, Live, Fresh, Mirror, Union, busVars, connVars, keyVars,
     limitVars
<1>5. ASSUME NEW s \in Sockets, Unsubscribe(s) PROVE WorkerTypes'
  BY <1>5 DEF Unsubscribe, Live, Fresh, Mirror, Union, busVars, connVars, keyVars,
     limitVars
<1>6. ASSUME NEW s \in Sockets, Leave(s) PROVE WorkerTypes'
  BY <1>6 DEF Leave, Prune, Mirror, Union, busVars, connVars, keyVars, limitVars
<1>7. ASSUME NEW s \in Sockets, TokenExpires(s) PROVE WorkerTypes'
  BY <1>7 DEF TokenExpires, busVars, connVars, keyVars, limitVars
<1>8. ASSUME NEW s \in Sockets, Send(s) PROVE WorkerTypes'
  BY <1>8 DEF Send, busVars, connVars, keyVars, limitVars
<1>9. ASSUME NEW s \in Sockets, SendFails(s) PROVE WorkerTypes'
  BY <1>9 DEF SendFails, Prune, busVars, connVars, keyVars, limitVars
<1>10. ASSUME NEW s \in Sockets, Ping(s) PROVE WorkerTypes'
  BY <1>10 DEF Ping, Reply, busVars, connVars, keyVars, limitVars
<1>11. ASSUME NEW w \in Workers, WorkerStarts(w) PROVE WorkerTypes'
  BY <1>11 DEF WorkerStarts, busVars, connVars, keyVars, limitVars
<1>12. ASSUME NEW w \in Workers, WorkerDies(w) PROVE WorkerTypes'
  BY <1>12 DEF WorkerDies, Prune, busVars, connVars, keyVars, limitVars
<1>13. ASSUME NEW w \in Workers, Dispatch(w) PROVE WorkerTypes'
  BY <1>13 DEF Dispatch, busVars, connVars, keyVars, limitVars
<1>14. ASSUME NEW w \in Workers, NEW n \in inbox[w], Deliver(w, n) PROVE WorkerTypes'
  BY <1>14 DEF Deliver, busVars, connVars, keyVars, limitVars
<1>15. ASSUME NEW w \in Workers, ListenerDrops(w) PROVE WorkerTypes'
  BY <1>15 DEF ListenerDrops, busVars, connVars, keyVars, limitVars
<1>16. ASSUME NEW w \in Workers, ListenerReturns(w) PROVE WorkerTypes'
  BY <1>16 DEF ListenerReturns, busVars, connVars, keyVars, limitVars
<1>17. ASSUME NEW w \in Workers, MirrorAgain(w) PROVE WorkerTypes'
  BY <1>17 DEF MirrorAgain, Mirror, Union, busVars, connVars, keyVars, limitVars
<1>18. ASSUME NEW w \in Workers, KeyExpires(w) PROVE WorkerTypes'
  BY <1>18 DEF KeyExpires, busVars, connVars, keyVars, limitVars
<1>19. ASSUME NEW w \in Workers, NEW v \in writes[w], MirrorLands(w, v) PROVE
      WorkerTypes'
  BY <1>19 DEF MirrorLands, busVars, connVars, keyVars, limitVars
<1>20. ASSUME NEW w \in Workers, NEW v \in writes[w], MirrorLost(w, v) PROVE
      WorkerTypes'
  BY <1>20 DEF MirrorLost, busVars, connVars, keyVars, limitVars
<1>21. ASSUME NEW n \in Notes, Announce(n) PROVE WorkerTypes'
  BY <1>21 DEF Announce, busVars, connVars, keyVars, limitVars
<1>22. CASE UNCHANGED socketVars
  BY <1>22 DEF socketVars, busVars, connVars, keyVars, limitVars
<1> HIDE DEF SocketTypeOK, ConnTypes, Managed, WorkerTypes
<1>23. CASE \E s \in Sockets : Handler(s)
  BY <1>23, <1>1, <1>2, <1>3, <1>4, <1>5, <1>6, <1>7, <1>8, <1>9, <1>10 DEF Handler
<1>24. CASE \E w \in Workers : Process(w)
  BY <1>24, <1>11, <1>12, <1>13, <1>14, <1>15, <1>16, <1>17, <1>18, <1>19, <1>20 DEF
     Process
<1>25. QED
  BY <1>21, <1>23, <1>24, <1>22 DEF SocketNext

\* Every variable keeps its type.
THEOREM SocketTypes == SocketSpec => []SocketTypeOK
<1>1. (\E b \in Limits : SocketInit(b)) => SocketTypeOK
  BY DEF SocketInit, SocketTypeOK, ConnTypes, WorkerTypes
<1>2. SocketTypeOK /\ [SocketNext]_socketVars => SocketTypeOK'
  BY ConnStep, WorkerStep DEF SocketTypeOK
<1>3. QED
  BY <1>1, <1>2, PTL DEF SocketSpec

\* Only a handler of a managed socket makes it routable.
LEMMA RoutedStep == SocketTypeOK /\ RoutedIsManaged /\ [SocketNext]_socketVars =>
    RoutedIsManaged'
<1> SUFFICES ASSUME SocketTypeOK, RoutedIsManaged, [SocketNext]_socketVars PROVE
    RoutedIsManaged'
  OBVIOUS
<1> USE DEF SocketTypeOK, ConnTypes, Managed, RoutedIsManaged
<1>1. ASSUME NEW s \in Sockets, NEW u \in Users, Connect(s, u) PROVE RoutedIsManaged'
  BY <1>1 DEF Connect, busVars, connVars, keyVars, limitVars
<1>2. ASSUME NEW s \in Sockets, NEW u \in Users, Reauthenticate(s, u) PROVE
      RoutedIsManaged'
  BY <1>2 DEF Reauthenticate, Reply, Live, busVars, connVars, keyVars, limitVars
<1>3. ASSUME NEW s \in Sockets, Refuse(s) PROVE RoutedIsManaged'
  BY <1>3 DEF Refuse, Reply, Live, busVars, connVars, keyVars, limitVars
<1>4. ASSUME NEW s \in Sockets, Subscribe(s) PROVE RoutedIsManaged'
  BY <1>4 DEF Subscribe, Reply, Live, Fresh, Mirror, Union, busVars, connVars, keyVars,
     limitVars
<1>5. ASSUME NEW s \in Sockets, Unsubscribe(s) PROVE RoutedIsManaged'
  BY <1>5 DEF Unsubscribe, Live, Fresh, Mirror, Union, busVars, connVars, keyVars,
     limitVars
<1>6. ASSUME NEW s \in Sockets, Leave(s) PROVE RoutedIsManaged'
  BY <1>6 DEF Leave, Prune, Mirror, Union, busVars, connVars, keyVars, limitVars
<1>7. ASSUME NEW s \in Sockets, TokenExpires(s) PROVE RoutedIsManaged'
  BY <1>7 DEF TokenExpires, busVars, connVars, keyVars, limitVars
<1>8. ASSUME NEW s \in Sockets, Send(s) PROVE RoutedIsManaged'
  BY <1>8 DEF Send, busVars, connVars, keyVars, limitVars
<1>9. ASSUME NEW s \in Sockets, SendFails(s) PROVE RoutedIsManaged'
  BY <1>9 DEF SendFails, Prune, busVars, connVars, keyVars, limitVars
<1>10. ASSUME NEW s \in Sockets, Ping(s) PROVE RoutedIsManaged'
  BY <1>10 DEF Ping, Reply, busVars, connVars, keyVars, limitVars
<1>11. ASSUME NEW w \in Workers, WorkerStarts(w) PROVE RoutedIsManaged'
  BY <1>11 DEF WorkerStarts, busVars, connVars, keyVars, limitVars
<1>12. ASSUME NEW w \in Workers, WorkerDies(w) PROVE RoutedIsManaged'
  BY <1>12 DEF WorkerDies, Prune, busVars, connVars, keyVars, limitVars
<1>13. ASSUME NEW w \in Workers, Dispatch(w) PROVE RoutedIsManaged'
  BY <1>13 DEF Dispatch, Fresh, busVars, connVars, keyVars, limitVars
<1>14. ASSUME NEW w \in Workers, NEW n \in inbox[w], Deliver(w, n) PROVE
      RoutedIsManaged'
  BY <1>14 DEF Deliver, WorkerTypes, busVars, connVars, keyVars, limitVars
<1>15. ASSUME NEW w \in Workers, ListenerDrops(w) PROVE RoutedIsManaged'
  BY <1>15 DEF ListenerDrops, busVars, connVars, keyVars, limitVars
<1>16. ASSUME NEW w \in Workers, ListenerReturns(w) PROVE RoutedIsManaged'
  BY <1>16 DEF ListenerReturns, busVars, connVars, keyVars, limitVars
<1>17. ASSUME NEW w \in Workers, MirrorAgain(w) PROVE RoutedIsManaged'
  BY <1>17 DEF MirrorAgain, Mirror, Union, busVars, connVars, keyVars, limitVars
<1>18. ASSUME NEW w \in Workers, KeyExpires(w) PROVE RoutedIsManaged'
  BY <1>18 DEF KeyExpires, busVars, connVars, keyVars, limitVars
<1>19. ASSUME NEW w \in Workers, NEW v \in writes[w], MirrorLands(w, v) PROVE
      RoutedIsManaged'
  BY <1>19 DEF MirrorLands, busVars, connVars, keyVars, limitVars
<1>20. ASSUME NEW w \in Workers, NEW v \in writes[w], MirrorLost(w, v) PROVE
      RoutedIsManaged'
  BY <1>20 DEF MirrorLost, busVars, connVars, keyVars, limitVars
<1>21. ASSUME NEW n \in Notes, Announce(n) PROVE RoutedIsManaged'
  BY <1>21 DEF Announce, busVars, connVars, keyVars, limitVars
<1>22. CASE UNCHANGED socketVars
  BY <1>22 DEF socketVars, busVars, connVars, keyVars, limitVars
<1> HIDE DEF SocketTypeOK, ConnTypes, Managed, RoutedIsManaged
<1>23. CASE \E s \in Sockets : Handler(s)
  BY <1>23, <1>1, <1>2, <1>3, <1>4, <1>5, <1>6, <1>7, <1>8, <1>9, <1>10 DEF Handler
<1>24. CASE \E w \in Workers : Process(w)
  BY <1>24, <1>11, <1>12, <1>13, <1>14, <1>15, <1>16, <1>17, <1>18, <1>19, <1>20 DEF
     Process
<1>25. QED
  BY <1>21, <1>23, <1>24, <1>22 DEF SocketNext

\* A socket that was pruned is not routed to again, whatever its client still sends.
THEOREM PrunedStaysPruned == SocketSpec => []RoutedIsManaged
<1>1. (\E b \in Limits : SocketInit(b)) => RoutedIsManaged
  BY DEF SocketInit, RoutedIsManaged, Managed
<1>2. QED
  BY <1>1, RoutedStep, SocketTypes, PTL DEF SocketSpec

\* A connection that has not said who it is has no user.
NewIsNobody == \A s \in Sockets : conn[s] = "new" => ~Managed(s)
\* A private message waits in the queues of its user only.
Private == \A s \in Sockets : \A i \in 1..Len(queue[s]) :
               queue[s][i] \in Notes => Recipient[queue[s][i]] = user[s]

\* A text for the user of a socket, or for nobody, keeps its queue private.
LEMMA QueuePrivate ==
    ASSUME SocketTypeOK, Private
    PROVE  \A s \in Sockets, x \in Notes \cup {Frame} :
             (x \in Notes => Recipient[x] = user[s])
               => \A i \in 1..Len(Enqueue(queue[s], x)) :
                    Enqueue(queue[s], x)[i] \in Notes => Recipient[Enqueue(queue[s], x)[i]] = user[s]
<1>1. SUFFICES ASSUME NEW s \in Sockets, NEW x \in Notes \cup {Frame},
                      x \in Notes => Recipient[x] = user[s],
                      NEW i \in 1..Len(Enqueue(queue[s], x)), Enqueue(queue[s], x)[i] \in Notes
               PROVE  Recipient[Enqueue(queue[s], x)[i]] = user[s]
  OBVIOUS
<1>2. queue[s] \in Seq(Notes \cup {Frame})
  BY DEF SocketTypeOK, ConnTypes
<1>3. Enqueue(queue[s], x)[i] = x \/ \E k \in 1..Len(queue[s]) : Enqueue(queue[s], x)[i] = queue[s][k]
  <2>1. x \in Notes \cup {Frame} /\ i \in 1..Len(Enqueue(queue[s], x))
    BY <1>1
  <2> DEFINE T == Notes \cup {Frame}  q == queue[s]
  <2>2. q \in Seq(T) /\ x \in T /\ i \in 1..Len(Enqueue(q, x))
    BY <1>2, <2>1
  <2> HIDE DEF T, q
  <2>3. Enqueue(q, x)[i] = x \/ \E k \in 1..Len(q) : Enqueue(q, x)[i] = q[k]
    BY <2>2, EnqueueType
  <2>4. QED
    BY <2>3 DEF q
<1>4. QED
  BY <1>1, <1>3 DEF Private

\* A queue is given messages of its own user, and is emptied before the user changes.
LEMMA PrivateStep == SocketTypeOK /\ RoutedIsManaged /\ NewIsNobody /\ Private /\
    [SocketNext]_socketVars => Private'
<1> SUFFICES ASSUME SocketTypeOK, RoutedIsManaged, NewIsNobody, Private,
    [SocketNext]_socketVars PROVE Private'
  OBVIOUS
<1> USE DEF SocketTypeOK, ConnTypes, Managed, RoutedIsManaged, NewIsNobody, Private
<1>1. ASSUME NEW s \in Sockets, NEW u \in Users, Connect(s, u) PROVE Private'
  BY <1>1 DEF Connect, busVars, connVars, keyVars, limitVars
<1>2. ASSUME NEW s \in Sockets, NEW u \in Users, Reauthenticate(s, u) PROVE Private'
  <2>1. \A x \in Sockets : queue'[x] = queue[x] \/ queue'[x] = Enqueue(queue[x], Frame)
    BY <1>2 DEF Reauthenticate, Reply
  <2>2. user' = user
    BY <1>2 DEF Reauthenticate
  <2>3. \A x \in Sockets : \A i \in 1..Len(Enqueue(queue[x], Frame)) :
          Enqueue(queue[x], Frame)[i] \in Notes => Recipient[Enqueue(queue[x], Frame)[i]] = user[x]
    BY QueuePrivate
  <2>4. SUFFICES ASSUME NEW x \in Sockets, NEW i \in 1..Len(queue'[x]), queue'[x][i] \in Notes
                 PROVE  Recipient[queue'[x][i]] = user[x]
    BY <2>2
  <2>5. CASE queue'[x] = queue[x]
    BY <2>4, <2>5
  <2>6. CASE queue'[x] = Enqueue(queue[x], Frame)
    BY <2>3, <2>4, <2>6
  <2>7. QED
    BY <2>1, <2>5, <2>6
<1>3. ASSUME NEW s \in Sockets, Refuse(s) PROVE Private'
  <2>1. \A x \in Sockets : queue'[x] = queue[x] \/ queue'[x] = Enqueue(queue[x], Frame)
    BY <1>3 DEF Refuse, Reply
  <2>2. user' = user
    BY <1>3 DEF Refuse
  <2>3. \A x \in Sockets : \A i \in 1..Len(Enqueue(queue[x], Frame)) :
          Enqueue(queue[x], Frame)[i] \in Notes => Recipient[Enqueue(queue[x], Frame)[i]] = user[x]
    BY QueuePrivate
  <2>4. SUFFICES ASSUME NEW x \in Sockets, NEW i \in 1..Len(queue'[x]), queue'[x][i] \in Notes
                 PROVE  Recipient[queue'[x][i]] = user[x]
    BY <2>2
  <2>5. CASE queue'[x] = queue[x]
    BY <2>4, <2>5
  <2>6. CASE queue'[x] = Enqueue(queue[x], Frame)
    BY <2>3, <2>4, <2>6
  <2>7. QED
    BY <2>1, <2>5, <2>6
<1>4. ASSUME NEW s \in Sockets, Subscribe(s) PROVE Private'
  <2>1. \A x \in Sockets : queue'[x] = queue[x] \/ queue'[x] = Enqueue(queue[x], Frame)
    BY <1>4 DEF Subscribe, Reply
  <2>2. user' = user
    BY <1>4 DEF Subscribe
  <2>3. \A x \in Sockets : \A i \in 1..Len(Enqueue(queue[x], Frame)) :
          Enqueue(queue[x], Frame)[i] \in Notes => Recipient[Enqueue(queue[x], Frame)[i]] = user[x]
    BY QueuePrivate
  <2>4. SUFFICES ASSUME NEW x \in Sockets, NEW i \in 1..Len(queue'[x]), queue'[x][i] \in Notes
                 PROVE  Recipient[queue'[x][i]] = user[x]
    BY <2>2
  <2>5. CASE queue'[x] = queue[x]
    BY <2>4, <2>5
  <2>6. CASE queue'[x] = Enqueue(queue[x], Frame)
    BY <2>3, <2>4, <2>6
  <2>7. QED
    BY <2>1, <2>5, <2>6
<1>5. ASSUME NEW s \in Sockets, Unsubscribe(s) PROVE Private'
  BY <1>5 DEF Unsubscribe, Live, Fresh, Mirror, Union, busVars, connVars, keyVars,
     limitVars
<1>6. ASSUME NEW s \in Sockets, Leave(s) PROVE Private'
  BY <1>6 DEF Leave, Prune, Mirror, Union, busVars, connVars, keyVars, limitVars
<1>7. ASSUME NEW s \in Sockets, TokenExpires(s) PROVE Private'
  BY <1>7 DEF TokenExpires, busVars, connVars, keyVars, limitVars
<1>8. ASSUME NEW s \in Sockets, Send(s) PROVE Private'
  BY <1>8 DEF Send, busVars, connVars, keyVars, limitVars
<1>9. ASSUME NEW s \in Sockets, SendFails(s) PROVE Private'
  BY <1>9 DEF SendFails, Prune, busVars, connVars, keyVars, limitVars
<1>10. ASSUME NEW s \in Sockets, Ping(s) PROVE Private'
  <2>1. \A x \in Sockets : queue'[x] = queue[x] \/ queue'[x] = Enqueue(queue[x], Frame)
    BY <1>10 DEF Ping, Reply
  <2>2. user' = user
    BY <1>10 DEF Ping
  <2>3. \A x \in Sockets : \A i \in 1..Len(Enqueue(queue[x], Frame)) :
          Enqueue(queue[x], Frame)[i] \in Notes => Recipient[Enqueue(queue[x], Frame)[i]] = user[x]
    BY QueuePrivate
  <2>4. SUFFICES ASSUME NEW x \in Sockets, NEW i \in 1..Len(queue'[x]), queue'[x][i] \in Notes
                 PROVE  Recipient[queue'[x][i]] = user[x]
    BY <2>2
  <2>5. CASE queue'[x] = queue[x]
    BY <2>4, <2>5
  <2>6. CASE queue'[x] = Enqueue(queue[x], Frame)
    BY <2>3, <2>4, <2>6
  <2>7. QED
    BY <2>1, <2>5, <2>6
<1>11. ASSUME NEW w \in Workers, WorkerStarts(w) PROVE Private'
  BY <1>11 DEF WorkerStarts, busVars, connVars, keyVars, limitVars
<1>12. ASSUME NEW w \in Workers, WorkerDies(w) PROVE Private'
  BY <1>12 DEF WorkerDies, Prune, busVars, connVars, keyVars, limitVars
<1>13. ASSUME NEW w \in Workers, Dispatch(w) PROVE Private'
  BY <1>13, QueuePrivate DEF Dispatch, busVars, connVars, keyVars, limitVars
<1>14. ASSUME NEW w \in Workers, NEW n \in inbox[w], Deliver(w, n) PROVE Private'
  BY <1>14, QueuePrivate DEF Deliver, WorkerTypes, busVars, connVars, keyVars, limitVars
<1>15. ASSUME NEW w \in Workers, ListenerDrops(w) PROVE Private'
  BY <1>15 DEF ListenerDrops, busVars, connVars, keyVars, limitVars
<1>16. ASSUME NEW w \in Workers, ListenerReturns(w) PROVE Private'
  BY <1>16 DEF ListenerReturns, busVars, connVars, keyVars, limitVars
<1>17. ASSUME NEW w \in Workers, MirrorAgain(w) PROVE Private'
  BY <1>17 DEF MirrorAgain, Mirror, Union, busVars, connVars, keyVars, limitVars
<1>18. ASSUME NEW w \in Workers, KeyExpires(w) PROVE Private'
  BY <1>18 DEF KeyExpires, busVars, connVars, keyVars, limitVars
<1>19. ASSUME NEW w \in Workers, NEW v \in writes[w], MirrorLands(w, v) PROVE Private'
  BY <1>19 DEF MirrorLands, busVars, connVars, keyVars, limitVars
<1>20. ASSUME NEW w \in Workers, NEW v \in writes[w], MirrorLost(w, v) PROVE Private'
  BY <1>20 DEF MirrorLost, busVars, connVars, keyVars, limitVars
<1>21. ASSUME NEW n \in Notes, Announce(n) PROVE Private'
  BY <1>21 DEF Announce, busVars, connVars, keyVars, limitVars
<1>22. CASE UNCHANGED socketVars
  BY <1>22 DEF socketVars, busVars, connVars, keyVars, limitVars
<1> HIDE DEF SocketTypeOK, ConnTypes, Managed, RoutedIsManaged, NewIsNobody, Private
<1>23. CASE \E s \in Sockets : Handler(s)
  BY <1>23, <1>1, <1>2, <1>3, <1>4, <1>5, <1>6, <1>7, <1>8, <1>9, <1>10 DEF Handler
<1>24. CASE \E w \in Workers : Process(w)
  BY <1>24, <1>11, <1>12, <1>13, <1>14, <1>15, <1>16, <1>17, <1>18, <1>19, <1>20 DEF
     Process
<1>25. QED
  BY <1>21, <1>23, <1>24, <1>22 DEF SocketNext

\* An identity comes with the first message.
LEMMA NewStep == SocketTypeOK /\ NewIsNobody /\ [SocketNext]_socketVars => NewIsNobody'
<1> SUFFICES ASSUME SocketTypeOK, NewIsNobody, [SocketNext]_socketVars PROVE
    NewIsNobody'
  OBVIOUS
<1> USE DEF SocketTypeOK, ConnTypes, Managed, NewIsNobody
<1>1. ASSUME NEW s \in Sockets, NEW u \in Users, Connect(s, u) PROVE NewIsNobody'
  BY <1>1 DEF Connect, busVars, connVars, keyVars, limitVars
<1>2. ASSUME NEW s \in Sockets, NEW u \in Users, Reauthenticate(s, u) PROVE NewIsNobody'
  BY <1>2 DEF Reauthenticate, Reply, Live, busVars, connVars, keyVars, limitVars
<1>3. ASSUME NEW s \in Sockets, Refuse(s) PROVE NewIsNobody'
  BY <1>3 DEF Refuse, Reply, Live, busVars, connVars, keyVars, limitVars
<1>4. ASSUME NEW s \in Sockets, Subscribe(s) PROVE NewIsNobody'
  BY <1>4 DEF Subscribe, Reply, Live, Fresh, Mirror, Union, busVars, connVars, keyVars,
     limitVars
<1>5. ASSUME NEW s \in Sockets, Unsubscribe(s) PROVE NewIsNobody'
  BY <1>5 DEF Unsubscribe, Live, Fresh, Mirror, Union, busVars, connVars, keyVars,
     limitVars
<1>6. ASSUME NEW s \in Sockets, Leave(s) PROVE NewIsNobody'
  BY <1>6 DEF Leave, Prune, Mirror, Union, busVars, connVars, keyVars, limitVars
<1>7. ASSUME NEW s \in Sockets, TokenExpires(s) PROVE NewIsNobody'
  BY <1>7 DEF TokenExpires, busVars, connVars, keyVars, limitVars
<1>8. ASSUME NEW s \in Sockets, Send(s) PROVE NewIsNobody'
  BY <1>8 DEF Send, busVars, connVars, keyVars, limitVars
<1>9. ASSUME NEW s \in Sockets, SendFails(s) PROVE NewIsNobody'
  BY <1>9 DEF SendFails, Prune, busVars, connVars, keyVars, limitVars
<1>10. ASSUME NEW s \in Sockets, Ping(s) PROVE NewIsNobody'
  BY <1>10 DEF Ping, Reply, busVars, connVars, keyVars, limitVars
<1>11. ASSUME NEW w \in Workers, WorkerStarts(w) PROVE NewIsNobody'
  BY <1>11 DEF WorkerStarts, busVars, connVars, keyVars, limitVars
<1>12. ASSUME NEW w \in Workers, WorkerDies(w) PROVE NewIsNobody'
  BY <1>12 DEF WorkerDies, Prune, busVars, connVars, keyVars, limitVars
<1>13. ASSUME NEW w \in Workers, Dispatch(w) PROVE NewIsNobody'
  BY <1>13 DEF Dispatch, busVars, connVars, keyVars, limitVars
<1>14. ASSUME NEW w \in Workers, NEW n \in inbox[w], Deliver(w, n) PROVE NewIsNobody'
  BY <1>14 DEF Deliver, busVars, connVars, keyVars, limitVars
<1>15. ASSUME NEW w \in Workers, ListenerDrops(w) PROVE NewIsNobody'
  BY <1>15 DEF ListenerDrops, busVars, connVars, keyVars, limitVars
<1>16. ASSUME NEW w \in Workers, ListenerReturns(w) PROVE NewIsNobody'
  BY <1>16 DEF ListenerReturns, busVars, connVars, keyVars, limitVars
<1>17. ASSUME NEW w \in Workers, MirrorAgain(w) PROVE NewIsNobody'
  BY <1>17 DEF MirrorAgain, Mirror, Union, busVars, connVars, keyVars, limitVars
<1>18. ASSUME NEW w \in Workers, KeyExpires(w) PROVE NewIsNobody'
  BY <1>18 DEF KeyExpires, busVars, connVars, keyVars, limitVars
<1>19. ASSUME NEW w \in Workers, NEW v \in writes[w], MirrorLands(w, v) PROVE
      NewIsNobody'
  BY <1>19 DEF MirrorLands, busVars, connVars, keyVars, limitVars
<1>20. ASSUME NEW w \in Workers, NEW v \in writes[w], MirrorLost(w, v) PROVE
      NewIsNobody'
  BY <1>20 DEF MirrorLost, busVars, connVars, keyVars, limitVars
<1>21. ASSUME NEW n \in Notes, Announce(n) PROVE NewIsNobody'
  BY <1>21 DEF Announce, busVars, connVars, keyVars, limitVars
<1>22. CASE UNCHANGED socketVars
  BY <1>22 DEF socketVars, busVars, connVars, keyVars, limitVars
<1> HIDE DEF SocketTypeOK, ConnTypes, Managed, NewIsNobody
<1>23. CASE \E s \in Sockets : Handler(s)
  BY <1>23, <1>1, <1>2, <1>3, <1>4, <1>5, <1>6, <1>7, <1>8, <1>9, <1>10 DEF Handler
<1>24. CASE \E w \in Workers : Process(w)
  BY <1>24, <1>11, <1>12, <1>13, <1>14, <1>15, <1>16, <1>17, <1>18, <1>19, <1>20 DEF
     Process
<1>25. QED
  BY <1>21, <1>23, <1>24, <1>22 DEF SocketNext

\* The writer sends what waits in the queue of its socket.
LEMMA ShownStep == SocketTypeOK /\ Private /\ ShownToOwner /\ [SocketNext]_socketVars =>
    ShownToOwner'
<1> SUFFICES ASSUME SocketTypeOK, Private, ShownToOwner, [SocketNext]_socketVars PROVE
    ShownToOwner'
  OBVIOUS
<1> USE DEF SocketTypeOK, ConnTypes, Managed, Private, ShownToOwner
<1>1. ASSUME NEW s \in Sockets, NEW u \in Users, Connect(s, u) PROVE ShownToOwner'
  BY <1>1 DEF Connect, busVars, connVars, keyVars, limitVars
<1>2. ASSUME NEW s \in Sockets, NEW u \in Users, Reauthenticate(s, u) PROVE
      ShownToOwner'
  BY <1>2 DEF Reauthenticate, Reply, Live, busVars, connVars, keyVars, limitVars
<1>3. ASSUME NEW s \in Sockets, Refuse(s) PROVE ShownToOwner'
  BY <1>3 DEF Refuse, Reply, Live, busVars, connVars, keyVars, limitVars
<1>4. ASSUME NEW s \in Sockets, Subscribe(s) PROVE ShownToOwner'
  BY <1>4 DEF Subscribe, Reply, Live, Fresh, Mirror, Union, busVars, connVars, keyVars,
     limitVars
<1>5. ASSUME NEW s \in Sockets, Unsubscribe(s) PROVE ShownToOwner'
  BY <1>5 DEF Unsubscribe, Live, Fresh, Mirror, Union, busVars, connVars, keyVars,
     limitVars
<1>6. ASSUME NEW s \in Sockets, Leave(s) PROVE ShownToOwner'
  BY <1>6 DEF Leave, Prune, Mirror, Union, busVars, connVars, keyVars, limitVars
<1>7. ASSUME NEW s \in Sockets, TokenExpires(s) PROVE ShownToOwner'
  BY <1>7 DEF TokenExpires, busVars, connVars, keyVars, limitVars
<1>8. ASSUME NEW s \in Sockets, Send(s) PROVE ShownToOwner'
  BY <1>8 DEF Send, busVars, connVars, keyVars, limitVars
<1>9. ASSUME NEW s \in Sockets, SendFails(s) PROVE ShownToOwner'
  BY <1>9 DEF SendFails, Prune, busVars, connVars, keyVars, limitVars
<1>10. ASSUME NEW s \in Sockets, Ping(s) PROVE ShownToOwner'
  BY <1>10 DEF Ping, Reply, busVars, connVars, keyVars, limitVars
<1>11. ASSUME NEW w \in Workers, WorkerStarts(w) PROVE ShownToOwner'
  BY <1>11 DEF WorkerStarts, busVars, connVars, keyVars, limitVars
<1>12. ASSUME NEW w \in Workers, WorkerDies(w) PROVE ShownToOwner'
  BY <1>12 DEF WorkerDies, Prune, busVars, connVars, keyVars, limitVars
<1>13. ASSUME NEW w \in Workers, Dispatch(w) PROVE ShownToOwner'
  BY <1>13 DEF Dispatch, busVars, connVars, keyVars, limitVars
<1>14. ASSUME NEW w \in Workers, NEW n \in inbox[w], Deliver(w, n) PROVE ShownToOwner'
  BY <1>14 DEF Deliver, busVars, connVars, keyVars, limitVars
<1>15. ASSUME NEW w \in Workers, ListenerDrops(w) PROVE ShownToOwner'
  BY <1>15 DEF ListenerDrops, busVars, connVars, keyVars, limitVars
<1>16. ASSUME NEW w \in Workers, ListenerReturns(w) PROVE ShownToOwner'
  BY <1>16 DEF ListenerReturns, busVars, connVars, keyVars, limitVars
<1>17. ASSUME NEW w \in Workers, MirrorAgain(w) PROVE ShownToOwner'
  BY <1>17 DEF MirrorAgain, Mirror, Union, busVars, connVars, keyVars, limitVars
<1>18. ASSUME NEW w \in Workers, KeyExpires(w) PROVE ShownToOwner'
  BY <1>18 DEF KeyExpires, busVars, connVars, keyVars, limitVars
<1>19. ASSUME NEW w \in Workers, NEW v \in writes[w], MirrorLands(w, v) PROVE
      ShownToOwner'
  BY <1>19 DEF MirrorLands, busVars, connVars, keyVars, limitVars
<1>20. ASSUME NEW w \in Workers, NEW v \in writes[w], MirrorLost(w, v) PROVE
      ShownToOwner'
  BY <1>20 DEF MirrorLost, busVars, connVars, keyVars, limitVars
<1>21. ASSUME NEW n \in Notes, Announce(n) PROVE ShownToOwner'
  BY <1>21 DEF Announce, busVars, connVars, keyVars, limitVars
<1>22. CASE UNCHANGED socketVars
  BY <1>22 DEF socketVars, busVars, connVars, keyVars, limitVars
<1> HIDE DEF SocketTypeOK, ConnTypes, Managed, Private, ShownToOwner
<1>23. CASE \E s \in Sockets : Handler(s)
  BY <1>23, <1>1, <1>2, <1>3, <1>4, <1>5, <1>6, <1>7, <1>8, <1>9, <1>10 DEF Handler
<1>24. CASE \E w \in Workers : Process(w)
  BY <1>24, <1>11, <1>12, <1>13, <1>14, <1>15, <1>16, <1>17, <1>18, <1>19, <1>20 DEF
     Process
<1>25. QED
  BY <1>21, <1>23, <1>24, <1>22 DEF SocketNext

\* A private alert is only ever sent to its user.
THEOREM ShownAlwaysToOwner == SocketSpec => []ShownToOwner
<1>1. (\E b \in Limits : SocketInit(b)) => NewIsNobody /\ Private /\ ShownToOwner
  BY DEF SocketInit, NewIsNobody, Managed, Private, ShownToOwner
<1>2. QED
  BY <1>1, NewStep, PrivateStep, ShownStep, SocketTypes, PrunedStaysPruned, PTL DEF SocketSpec

-----------------------------------------------------------------------------
(* The two together. *)

\* The history has the firing a message tells of.
Recorded(n) == n[2] <= fired[n[1]]
OutboxRecorded == \A j \in Jobs : \A n \in outbox[j] : n \in Notes /\ Recorded(n)
InboxRecorded == \A w \in Workers : \A n \in inbox[w] : Recorded(n)
QueueRecorded == \A s \in Sockets : \A i \in 1..Len(queue[s]) :
                     queue[s][i] \in Notes => Recorded(queue[s][i])
ShownRecorded == \A m \in shown : Recorded(m[1])
Carried == InboxRecorded /\ QueueRecorded /\ ShownRecorded

\* A message is about a firing that is committed with it.
LEMMA OutboxStep == AlertTypeOK /\ Evaluated /\ OutboxRecorded /\ [AlertNext]_alertVars
    => OutboxRecorded'
<1> SUFFICES ASSUME AlertTypeOK, Evaluated, OutboxRecorded, [AlertNext]_alertVars PROVE
    OutboxRecorded'
  OBVIOUS
<1> USE DEF AlertTypeOK, RuleTypes, JobTypes, Jobs, Evaluated, Held, HeldByStreak,
    Roomy, OutboxRecorded, Recorded
<1>1. ASSUME NEW a \in Alerts, NEW l \in Levels \cup {NoNumber}, NEW r \in BOOLEAN,
      Create(a, l, r) PROVE OutboxRecorded'
  BY <1>1 DEF Create, ruleVars, jobVars, editVars, ghostVars, budgetVars
<1>2. ASSUME NEW u \in Edits, NEW a \in Alerts, NEW k \in EditKinds, NEW l \in Levels
      \cup {NoNumber}, EditLoad(u, a, k, l) PROVE OutboxRecorded'
  BY <1>2 DEF EditLoad, ruleVars, jobVars, editVars, ghostVars, budgetVars
<1>3. ASSUME NEW u \in Edits, EditCommit(u) PROVE OutboxRecorded'
  BY <1>3 DEF EditCommit, Locked, ruleVars, jobVars, editVars, ghostVars, budgetVars
<1>4. ASSUME NEW a \in Alerts, Delete(a) PROVE OutboxRecorded'
  BY <1>4 DEF Delete, Locked, ruleVars, jobVars, editVars, ghostVars, budgetVars
<1>5. ASSUME NEW a \in Alerts, CooldownEnds(a) PROVE OutboxRecorded'
  BY <1>5 DEF CooldownEnds, ruleVars, jobVars, editVars, ghostVars, budgetVars
<1>6. ASSUME NEW t \in Ticks, Poll(t) PROVE OutboxRecorded'
  BY <1>6 DEF Poll, ruleVars, jobVars, editVars, ghostVars, budgetVars
<1>7. ASSUME NEW t \in Ticks, NEW p \in Prices, TickLoad(t, p) PROVE OutboxRecorded'
  <2>1. CASE Untriggered \subseteq Daily
    BY <1>7, <2>1 DEF TickLoad, Untriggered, Locked, Room, ruleVars, jobVars, editVars,
       ghostVars, budgetVars
  <2>2. CASE ~(Untriggered \subseteq Daily)
    BY <1>7, <2>2 DEF TickLoad, Untriggered, Locked, Room, ruleVars, jobVars, editVars,
       ghostVars, budgetVars
  <2>3. QED
    BY <2>1, <2>2
<1>8. ASSUME NEW t \in Ticks, NEW known \in SUBSET seen[t], TickCommit(t, known) PROVE
      OutboxRecorded'
  BY <1>8, DeliveryAssumption DEF TickCommit, Fire, Firings, Unlocked, Matches, ruleVars,
     jobVars, editVars, ghostVars, budgetVars
<1>9. ASSUME StreakLoad PROVE OutboxRecorded'
  BY <1>9 DEF StreakLoad, Untriggered, Room, ruleVars, jobVars, editVars, ghostVars,
     budgetVars
<1>10. ASSUME NEW F \in SUBSET seen[Streak], StreakCommit(F) PROVE OutboxRecorded'
  BY <1>10, DeliveryAssumption DEF StreakCommit, Fire, Firings, Locked, ruleVars, jobVars,
     editVars, ghostVars, budgetVars
<1>11. ASSUME NEW j \in Jobs, NEW n \in outbox[j], Notify(j, n) PROVE OutboxRecorded'
  BY <1>11 DEF Notify, ruleVars, jobVars, editVars, ghostVars, budgetVars
<1>12. ASSUME NEW j \in Jobs, JobFails(j) PROVE OutboxRecorded'
  BY <1>12 DEF JobFails, Unlocked, ruleVars, jobVars, editVars, ghostVars, budgetVars
<1>13. CASE UNCHANGED alertVars
  BY <1>13 DEF alertVars, ruleVars, jobVars, editVars, ghostVars, budgetVars
<1> HIDE DEF AlertTypeOK, RuleTypes, JobTypes, Jobs, Evaluated, Held, HeldByStreak,
    Roomy, OutboxRecorded, Recorded
<1>14. CASE Owner
  <2>1. CASE \E a \in Alerts, l \in Levels \cup {NoNumber}, r \in BOOLEAN : Create(a, l, r)
    BY <2>1, <1>1
  <2>2. CASE \E u \in Edits, a \in Alerts, k \in EditKinds, l \in Levels \cup {NoNumber} : EditLoad(u, a, k, l)
    BY <2>2, <1>2
  <2>3. CASE \E u \in Edits : EditCommit(u)
    BY <2>3, <1>3
  <2>4. CASE \E a \in Alerts : Delete(a)
    BY <2>4, <1>4
  <2>5. CASE \E a \in Alerts : CooldownEnds(a)
    BY <2>5, <1>5
  <2>6. QED
    BY <1>14, <2>1, <2>2, <2>3, <2>4, <2>5 DEF Owner
<1>15. CASE Evaluate
  BY <1>15, <1>7, <1>8, <1>9, <1>10 DEF Evaluate
<1>16. QED
  BY <1>6, <1>11, <1>12, <1>14, <1>15, <1>13 DEF AlertNext

\* The fan-out passes on what it was given: workers, ...
LEMMA InboxStep == SocketTypeOK /\ InboxRecorded /\ fired' = fired /\ OwnStep =>
    InboxRecorded'
<1> SUFFICES ASSUME SocketTypeOK, InboxRecorded, fired' = fired, OwnStep PROVE
    InboxRecorded'
  OBVIOUS
<1> USE DEF SocketTypeOK, ConnTypes, Managed, WorkerTypes, InboxRecorded, Recorded
<1>1. ASSUME NEW s \in Sockets, NEW u \in Users, Connect(s, u) PROVE InboxRecorded'
  BY <1>1 DEF Connect, busVars, connVars, keyVars, limitVars
<1>2. ASSUME NEW s \in Sockets, NEW u \in Users, Reauthenticate(s, u) PROVE
      InboxRecorded'
  BY <1>2 DEF Reauthenticate, Reply, Live, busVars, connVars, keyVars, limitVars
<1>3. ASSUME NEW s \in Sockets, Refuse(s) PROVE InboxRecorded'
  BY <1>3 DEF Refuse, Reply, Live, busVars, connVars, keyVars, limitVars
<1>4. ASSUME NEW s \in Sockets, Subscribe(s) PROVE InboxRecorded'
  BY <1>4 DEF Subscribe, Reply, Live, Fresh, Mirror, Union, busVars, connVars, keyVars,
     limitVars
<1>5. ASSUME NEW s \in Sockets, Unsubscribe(s) PROVE InboxRecorded'
  BY <1>5 DEF Unsubscribe, Live, Fresh, Mirror, Union, busVars, connVars, keyVars,
     limitVars
<1>6. ASSUME NEW s \in Sockets, Leave(s) PROVE InboxRecorded'
  BY <1>6 DEF Leave, Prune, Mirror, Union, busVars, connVars, keyVars, limitVars
<1>7. ASSUME NEW s \in Sockets, TokenExpires(s) PROVE InboxRecorded'
  BY <1>7 DEF TokenExpires, busVars, connVars, keyVars, limitVars
<1>8. ASSUME NEW s \in Sockets, Send(s) PROVE InboxRecorded'
  BY <1>8 DEF Send, busVars, connVars, keyVars, limitVars
<1>9. ASSUME NEW s \in Sockets, SendFails(s) PROVE InboxRecorded'
  BY <1>9 DEF SendFails, Prune, busVars, connVars, keyVars, limitVars
<1>10. ASSUME NEW s \in Sockets, Ping(s) PROVE InboxRecorded'
  BY <1>10 DEF Ping, Reply, busVars, connVars, keyVars, limitVars
<1>11. ASSUME NEW w \in Workers, WorkerStarts(w) PROVE InboxRecorded'
  BY <1>11 DEF WorkerStarts, busVars, connVars, keyVars, limitVars
<1>12. ASSUME NEW w \in Workers, WorkerDies(w) PROVE InboxRecorded'
  BY <1>12 DEF WorkerDies, Prune, busVars, connVars, keyVars, limitVars
<1>13. ASSUME NEW w \in Workers, Dispatch(w) PROVE InboxRecorded'
  BY <1>13 DEF Dispatch, busVars, connVars, keyVars, limitVars
<1>14. ASSUME NEW w \in Workers, NEW n \in inbox[w], Deliver(w, n) PROVE InboxRecorded'
  BY <1>14 DEF Deliver, busVars, connVars, keyVars, limitVars
<1>15. ASSUME NEW w \in Workers, ListenerDrops(w) PROVE InboxRecorded'
  BY <1>15 DEF ListenerDrops, busVars, connVars, keyVars, limitVars
<1>16. ASSUME NEW w \in Workers, ListenerReturns(w) PROVE InboxRecorded'
  BY <1>16 DEF ListenerReturns, busVars, connVars, keyVars, limitVars
<1>17. ASSUME NEW w \in Workers, MirrorAgain(w) PROVE InboxRecorded'
  BY <1>17 DEF MirrorAgain, Mirror, Union, busVars, connVars, keyVars, limitVars
<1>18. ASSUME NEW w \in Workers, KeyExpires(w) PROVE InboxRecorded'
  BY <1>18 DEF KeyExpires, busVars, connVars, keyVars, limitVars
<1>19. ASSUME NEW w \in Workers, NEW v \in writes[w], MirrorLands(w, v) PROVE
      InboxRecorded'
  BY <1>19 DEF MirrorLands, busVars, connVars, keyVars, limitVars
<1>20. ASSUME NEW w \in Workers, NEW v \in writes[w], MirrorLost(w, v) PROVE
      InboxRecorded'
  BY <1>20 DEF MirrorLost, busVars, connVars, keyVars, limitVars
<1>21. CASE UNCHANGED socketVars
  BY <1>21 DEF socketVars, busVars, connVars, keyVars, limitVars
<1> HIDE DEF SocketTypeOK, ConnTypes, Managed, WorkerTypes, InboxRecorded, Recorded
<1>22. CASE \E s \in Sockets : Handler(s)
  BY <1>22, <1>1, <1>2, <1>3, <1>4, <1>5, <1>6, <1>7, <1>8, <1>9, <1>10 DEF Handler
<1>23. CASE \E w \in Workers : Process(w)
  BY <1>23, <1>11, <1>12, <1>13, <1>14, <1>15, <1>16, <1>17, <1>18, <1>19, <1>20 DEF
     Process
<1>24. QED
  BY <1>22, <1>23, <1>21 DEF OwnStep

\* A recorded message, or another text, keeps a queue recorded.
LEMMA QueueOfRecorded ==
    ASSUME SocketTypeOK, QueueRecorded
    PROVE  \A s \in Sockets, x \in Notes \cup {Frame} :
             (x \in Notes => Recorded(x))
               => \A i \in 1..Len(Enqueue(queue[s], x)) :
                    Enqueue(queue[s], x)[i] \in Notes => Recorded(Enqueue(queue[s], x)[i])
<1>1. SUFFICES ASSUME NEW s \in Sockets, NEW x \in Notes \cup {Frame},
                      x \in Notes => Recorded(x),
                      NEW i \in 1..Len(Enqueue(queue[s], x)), Enqueue(queue[s], x)[i] \in Notes
               PROVE  Recorded(Enqueue(queue[s], x)[i])
  OBVIOUS
<1>2. queue[s] \in Seq(Notes \cup {Frame})
  BY DEF SocketTypeOK, ConnTypes
<1>3. Enqueue(queue[s], x)[i] = x \/ \E k \in 1..Len(queue[s]) : Enqueue(queue[s], x)[i] = queue[s][k]
  <2>1. x \in Notes \cup {Frame} /\ i \in 1..Len(Enqueue(queue[s], x))
    BY <1>1
  <2> DEFINE T == Notes \cup {Frame}  q == queue[s]
  <2>2. q \in Seq(T) /\ x \in T /\ i \in 1..Len(Enqueue(q, x))
    BY <1>2, <2>1
  <2> HIDE DEF T, q
  <2>3. Enqueue(q, x)[i] = x \/ \E k \in 1..Len(q) : Enqueue(q, x)[i] = q[k]
    BY <2>2, EnqueueType
  <2>4. QED
    BY <2>3 DEF q
<1>4. QED
  BY <1>1, <1>3 DEF QueueRecorded, Recorded

\* ... queues, ...
LEMMA QueueStep == SocketTypeOK /\ InboxRecorded /\ QueueRecorded /\ fired' = fired /\
    OwnStep => QueueRecorded'
<1> SUFFICES ASSUME SocketTypeOK, InboxRecorded, QueueRecorded, fired' = fired, OwnStep
    PROVE QueueRecorded'
  OBVIOUS
<1> USE DEF SocketTypeOK, ConnTypes, Managed, WorkerTypes, InboxRecorded, QueueRecorded,
    Recorded
<1>1. ASSUME NEW s \in Sockets, NEW u \in Users, Connect(s, u) PROVE QueueRecorded'
  BY <1>1 DEF Connect, busVars, connVars, keyVars, limitVars
<1>2. ASSUME NEW s \in Sockets, NEW u \in Users, Reauthenticate(s, u) PROVE
      QueueRecorded'
  <2>1. \A x \in Sockets : queue'[x] = queue[x] \/ queue'[x] = Enqueue(queue[x], Frame)
    BY <1>2 DEF Reauthenticate, Reply
  <2>2. \A x \in Sockets : \A i \in 1..Len(Enqueue(queue[x], Frame)) :
          Enqueue(queue[x], Frame)[i] \in Notes => Recorded(Enqueue(queue[x], Frame)[i])
    BY QueueOfRecorded
  <2>3. SUFFICES ASSUME NEW x \in Sockets, NEW i \in 1..Len(queue'[x]), queue'[x][i] \in Notes
                 PROVE  Recorded(queue'[x][i])
    OBVIOUS
  <2>4. CASE queue'[x] = queue[x]
    BY <2>3, <2>4
  <2>5. CASE queue'[x] = Enqueue(queue[x], Frame)
    BY <2>2, <2>3, <2>5
  <2>6. QED
    BY <2>1, <2>4, <2>5
<1>3. ASSUME NEW s \in Sockets, Refuse(s) PROVE QueueRecorded'
  <2>1. \A x \in Sockets : queue'[x] = queue[x] \/ queue'[x] = Enqueue(queue[x], Frame)
    BY <1>3 DEF Refuse, Reply
  <2>2. \A x \in Sockets : \A i \in 1..Len(Enqueue(queue[x], Frame)) :
          Enqueue(queue[x], Frame)[i] \in Notes => Recorded(Enqueue(queue[x], Frame)[i])
    BY QueueOfRecorded
  <2>3. SUFFICES ASSUME NEW x \in Sockets, NEW i \in 1..Len(queue'[x]), queue'[x][i] \in Notes
                 PROVE  Recorded(queue'[x][i])
    OBVIOUS
  <2>4. CASE queue'[x] = queue[x]
    BY <2>3, <2>4
  <2>5. CASE queue'[x] = Enqueue(queue[x], Frame)
    BY <2>2, <2>3, <2>5
  <2>6. QED
    BY <2>1, <2>4, <2>5
<1>4. ASSUME NEW s \in Sockets, Subscribe(s) PROVE QueueRecorded'
  <2>1. \A x \in Sockets : queue'[x] = queue[x] \/ queue'[x] = Enqueue(queue[x], Frame)
    BY <1>4 DEF Subscribe, Reply
  <2>2. \A x \in Sockets : \A i \in 1..Len(Enqueue(queue[x], Frame)) :
          Enqueue(queue[x], Frame)[i] \in Notes => Recorded(Enqueue(queue[x], Frame)[i])
    BY QueueOfRecorded
  <2>3. SUFFICES ASSUME NEW x \in Sockets, NEW i \in 1..Len(queue'[x]), queue'[x][i] \in Notes
                 PROVE  Recorded(queue'[x][i])
    OBVIOUS
  <2>4. CASE queue'[x] = queue[x]
    BY <2>3, <2>4
  <2>5. CASE queue'[x] = Enqueue(queue[x], Frame)
    BY <2>2, <2>3, <2>5
  <2>6. QED
    BY <2>1, <2>4, <2>5
<1>5. ASSUME NEW s \in Sockets, Unsubscribe(s) PROVE QueueRecorded'
  BY <1>5 DEF Unsubscribe, Live, Fresh, Mirror, Union, busVars, connVars, keyVars,
     limitVars
<1>6. ASSUME NEW s \in Sockets, Leave(s) PROVE QueueRecorded'
  BY <1>6 DEF Leave, Prune, Mirror, Union, busVars, connVars, keyVars, limitVars
<1>7. ASSUME NEW s \in Sockets, TokenExpires(s) PROVE QueueRecorded'
  BY <1>7 DEF TokenExpires, busVars, connVars, keyVars, limitVars
<1>8. ASSUME NEW s \in Sockets, Send(s) PROVE QueueRecorded'
  BY <1>8 DEF Send, busVars, connVars, keyVars, limitVars
<1>9. ASSUME NEW s \in Sockets, SendFails(s) PROVE QueueRecorded'
  BY <1>9 DEF SendFails, Prune, busVars, connVars, keyVars, limitVars
<1>10. ASSUME NEW s \in Sockets, Ping(s) PROVE QueueRecorded'
  <2>1. \A x \in Sockets : queue'[x] = queue[x] \/ queue'[x] = Enqueue(queue[x], Frame)
    BY <1>10 DEF Ping, Reply
  <2>2. \A x \in Sockets : \A i \in 1..Len(Enqueue(queue[x], Frame)) :
          Enqueue(queue[x], Frame)[i] \in Notes => Recorded(Enqueue(queue[x], Frame)[i])
    BY QueueOfRecorded
  <2>3. SUFFICES ASSUME NEW x \in Sockets, NEW i \in 1..Len(queue'[x]), queue'[x][i] \in Notes
                 PROVE  Recorded(queue'[x][i])
    OBVIOUS
  <2>4. CASE queue'[x] = queue[x]
    BY <2>3, <2>4
  <2>5. CASE queue'[x] = Enqueue(queue[x], Frame)
    BY <2>2, <2>3, <2>5
  <2>6. QED
    BY <2>1, <2>4, <2>5
<1>11. ASSUME NEW w \in Workers, WorkerStarts(w) PROVE QueueRecorded'
  BY <1>11 DEF WorkerStarts, busVars, connVars, keyVars, limitVars
<1>12. ASSUME NEW w \in Workers, WorkerDies(w) PROVE QueueRecorded'
  BY <1>12 DEF WorkerDies, Prune, busVars, connVars, keyVars, limitVars
<1>13. ASSUME NEW w \in Workers, Dispatch(w) PROVE QueueRecorded'
  BY <1>13, QueueOfRecorded DEF Dispatch, busVars, connVars, keyVars, limitVars
<1>14. ASSUME NEW w \in Workers, NEW n \in inbox[w], Deliver(w, n) PROVE QueueRecorded'
  BY <1>14, QueueOfRecorded DEF Deliver, busVars, connVars, keyVars, limitVars
<1>15. ASSUME NEW w \in Workers, ListenerDrops(w) PROVE QueueRecorded'
  BY <1>15 DEF ListenerDrops, busVars, connVars, keyVars, limitVars
<1>16. ASSUME NEW w \in Workers, ListenerReturns(w) PROVE QueueRecorded'
  BY <1>16 DEF ListenerReturns, busVars, connVars, keyVars, limitVars
<1>17. ASSUME NEW w \in Workers, MirrorAgain(w) PROVE QueueRecorded'
  BY <1>17 DEF MirrorAgain, Mirror, Union, busVars, connVars, keyVars, limitVars
<1>18. ASSUME NEW w \in Workers, KeyExpires(w) PROVE QueueRecorded'
  BY <1>18 DEF KeyExpires, busVars, connVars, keyVars, limitVars
<1>19. ASSUME NEW w \in Workers, NEW v \in writes[w], MirrorLands(w, v) PROVE
      QueueRecorded'
  BY <1>19 DEF MirrorLands, busVars, connVars, keyVars, limitVars
<1>20. ASSUME NEW w \in Workers, NEW v \in writes[w], MirrorLost(w, v) PROVE
      QueueRecorded'
  BY <1>20 DEF MirrorLost, busVars, connVars, keyVars, limitVars
<1>21. CASE UNCHANGED socketVars
  BY <1>21 DEF socketVars, busVars, connVars, keyVars, limitVars
<1> HIDE DEF SocketTypeOK, ConnTypes, Managed, WorkerTypes, InboxRecorded,
    QueueRecorded, Recorded
<1>22. CASE \E s \in Sockets : Handler(s)
  BY <1>22, <1>1, <1>2, <1>3, <1>4, <1>5, <1>6, <1>7, <1>8, <1>9, <1>10 DEF Handler
<1>23. CASE \E w \in Workers : Process(w)
  BY <1>23, <1>11, <1>12, <1>13, <1>14, <1>15, <1>16, <1>17, <1>18, <1>19, <1>20 DEF
     Process
<1>24. QED
  BY <1>22, <1>23, <1>21 DEF OwnStep

\* ... and writers.
LEMMA SentStep == SocketTypeOK /\ QueueRecorded /\ ShownRecorded /\ fired' = fired /\
    OwnStep => ShownRecorded'
<1> SUFFICES ASSUME SocketTypeOK, QueueRecorded, ShownRecorded, fired' = fired, OwnStep
    PROVE ShownRecorded'
  OBVIOUS
<1> USE DEF SocketTypeOK, ConnTypes, Managed, QueueRecorded, ShownRecorded, Recorded
<1>1. ASSUME NEW s \in Sockets, NEW u \in Users, Connect(s, u) PROVE ShownRecorded'
  BY <1>1 DEF Connect, busVars, connVars, keyVars, limitVars
<1>2. ASSUME NEW s \in Sockets, NEW u \in Users, Reauthenticate(s, u) PROVE
      ShownRecorded'
  BY <1>2 DEF Reauthenticate, Reply, Live, busVars, connVars, keyVars, limitVars
<1>3. ASSUME NEW s \in Sockets, Refuse(s) PROVE ShownRecorded'
  BY <1>3 DEF Refuse, Reply, Live, busVars, connVars, keyVars, limitVars
<1>4. ASSUME NEW s \in Sockets, Subscribe(s) PROVE ShownRecorded'
  BY <1>4 DEF Subscribe, Reply, Live, Fresh, Mirror, Union, busVars, connVars, keyVars,
     limitVars
<1>5. ASSUME NEW s \in Sockets, Unsubscribe(s) PROVE ShownRecorded'
  BY <1>5 DEF Unsubscribe, Live, Fresh, Mirror, Union, busVars, connVars, keyVars,
     limitVars
<1>6. ASSUME NEW s \in Sockets, Leave(s) PROVE ShownRecorded'
  BY <1>6 DEF Leave, Prune, Mirror, Union, busVars, connVars, keyVars, limitVars
<1>7. ASSUME NEW s \in Sockets, TokenExpires(s) PROVE ShownRecorded'
  BY <1>7 DEF TokenExpires, busVars, connVars, keyVars, limitVars
<1>8. ASSUME NEW s \in Sockets, Send(s) PROVE ShownRecorded'
  <2>1. SUFFICES ASSUME NEW m \in shown' PROVE Recorded(m[1])
    BY <1>8 DEF Send
  <2>2. CASE m \in shown
    BY <2>2
  <2>3. CASE m \notin shown
    <3>1. m = <<queue[s][1], user[s]>> /\ queue[s] # << >> /\ queue[s][1] \in Notes
      BY <1>8, <2>1, <2>3 DEF Send
    <3>2. 1 \in 1..Len(queue[s])
      BY <3>1
    <3>3. QED
      BY <3>1, <3>2
  <2>4. QED
    BY <2>2, <2>3
<1>9. ASSUME NEW s \in Sockets, SendFails(s) PROVE ShownRecorded'
  BY <1>9 DEF SendFails, Prune, busVars, connVars, keyVars, limitVars
<1>10. ASSUME NEW s \in Sockets, Ping(s) PROVE ShownRecorded'
  BY <1>10 DEF Ping, Reply, busVars, connVars, keyVars, limitVars
<1>11. ASSUME NEW w \in Workers, WorkerStarts(w) PROVE ShownRecorded'
  BY <1>11 DEF WorkerStarts, busVars, connVars, keyVars, limitVars
<1>12. ASSUME NEW w \in Workers, WorkerDies(w) PROVE ShownRecorded'
  BY <1>12 DEF WorkerDies, Prune, busVars, connVars, keyVars, limitVars
<1>13. ASSUME NEW w \in Workers, Dispatch(w) PROVE ShownRecorded'
  BY <1>13 DEF Dispatch, busVars, connVars, keyVars, limitVars
<1>14. ASSUME NEW w \in Workers, NEW n \in inbox[w], Deliver(w, n) PROVE ShownRecorded'
  BY <1>14 DEF Deliver, busVars, connVars, keyVars, limitVars
<1>15. ASSUME NEW w \in Workers, ListenerDrops(w) PROVE ShownRecorded'
  BY <1>15 DEF ListenerDrops, busVars, connVars, keyVars, limitVars
<1>16. ASSUME NEW w \in Workers, ListenerReturns(w) PROVE ShownRecorded'
  BY <1>16 DEF ListenerReturns, busVars, connVars, keyVars, limitVars
<1>17. ASSUME NEW w \in Workers, MirrorAgain(w) PROVE ShownRecorded'
  BY <1>17 DEF MirrorAgain, Mirror, Union, busVars, connVars, keyVars, limitVars
<1>18. ASSUME NEW w \in Workers, KeyExpires(w) PROVE ShownRecorded'
  BY <1>18 DEF KeyExpires, busVars, connVars, keyVars, limitVars
<1>19. ASSUME NEW w \in Workers, NEW v \in writes[w], MirrorLands(w, v) PROVE
      ShownRecorded'
  BY <1>19 DEF MirrorLands, busVars, connVars, keyVars, limitVars
<1>20. ASSUME NEW w \in Workers, NEW v \in writes[w], MirrorLost(w, v) PROVE
      ShownRecorded'
  BY <1>20 DEF MirrorLost, busVars, connVars, keyVars, limitVars
<1>21. CASE UNCHANGED socketVars
  BY <1>21 DEF socketVars, busVars, connVars, keyVars, limitVars
<1> HIDE DEF SocketTypeOK, ConnTypes, Managed, QueueRecorded, ShownRecorded, Recorded
<1>22. CASE \E s \in Sockets : Handler(s)
  BY <1>22, <1>1, <1>2, <1>3, <1>4, <1>5, <1>6, <1>7, <1>8, <1>9, <1>10 DEF Handler
<1>23. CASE \E w \in Workers : Process(w)
  BY <1>23, <1>11, <1>12, <1>13, <1>14, <1>15, <1>16, <1>17, <1>18, <1>19, <1>20 DEF
     Process
<1>24. QED
  BY <1>22, <1>23, <1>21 DEF OwnStep

\* Steps of the owners and the jobs leave the messages where they are, and no firing is
\* taken back.
LEMMA CarriedAsRecorded ==
    ASSUME AlertTypeOK, SocketTypeOK, Evaluated, Carried, [AlertNext]_alertVars,
           UNCHANGED <<inbox, queue, shown>>
    PROVE  Carried'
<1>1. \A a \in Alerts : fired[a] \in Nat /\ fired'[a] \in Nat /\ fired[a] <= fired'[a]
  <2>1. \A a \in Alerts : fired[a] \in Nat
    BY DEF AlertTypeOK, RuleTypes
  <2>2. \A a \in Alerts : fired'[a] # fired[a] => fired'[a] = fired[a] + 1
    BY FiringStep
  <2>3. QED
    BY <2>1, <2>2
<1>2. \A n \in Notes : n[1] \in Alerts /\ n[2] \in Nat
  BY DeliveryAssumption, AlertAssumption
<1>3. \A n \in Notes : Recorded(n) => Recorded(n)'
  BY <1>1, <1>2 DEF Recorded
<1>4. InboxRecorded'
  BY <1>3 DEF Carried, InboxRecorded, SocketTypeOK, WorkerTypes
<1>5. QueueRecorded'
  BY <1>3 DEF Carried, QueueRecorded
<1>6. ShownRecorded'
  BY <1>3 DEF Carried, ShownRecorded, SocketTypeOK, ConnTypes
<1>7. QED
  BY <1>4, <1>5, <1>6 DEF Carried

\* Steps of the fan-out keep to the messages there are, and to the one announced.
LEMMA CarriedAway ==
    ASSUME SocketTypeOK, Carried, UNCHANGED fired,
           OwnStep \/ \E n \in Notes : Announce(n) /\ Recorded(n)
    PROVE  Carried'
<1>1. CASE OwnStep
  BY <1>1, InboxStep, QueueStep, SentStep DEF Carried
<1>2. ASSUME NEW n \in Notes, Announce(n), Recorded(n) PROVE Carried'
  <2>1. InboxRecorded'
    BY <1>2 DEF Announce, Carried, InboxRecorded, Recorded, SocketTypeOK, WorkerTypes
  <2>2. QueueRecorded' /\ ShownRecorded'
    BY <1>2 DEF Announce, Carried, QueueRecorded, ShownRecorded, Recorded, connVars
  <2>3. QED
    BY <2>1, <2>2 DEF Carried
<1>3. QED
  BY <1>1, <1>2

\* The alerts behave in the composition as they do alone ...
THEOREM DeliveryImplementsAlerts == Spec => AlertSpec
<1>1. Init => \E b \in Budgets : AlertInit(b)
  BY DEF Init
<1>2. [Next]_vars => [AlertNext]_alertVars
  BY DEF Next, vars, PollSubscribed, NotifyUser, AlertNext
<1>3. QED
  BY <1>1, <1>2, PTL DEF Spec, AlertSpec

\* What a job has to announce is recorded.
LEMMA OutboxAlways == AlertSpec => []OutboxRecorded
<1>1. (\E b \in Budgets : AlertInit(b)) => OutboxRecorded
  BY DEF AlertInit, OutboxRecorded
<1>2. QED
  BY <1>1, OutboxStep, AlertTypes, EvaluatedAlways, PTL DEF AlertSpec

\* A step of the composition is one of the alerts, or one of the fan-out that announces
\* at most a recorded message.
LEMMA MessageStep ==
    OutboxRecorded /\ [Next]_vars
      => \/ [AlertNext]_alertVars /\ UNCHANGED socketVars
         \/ UNCHANGED fired /\ (OwnStep \/ \E n \in Notes : Announce(n) /\ Recorded(n))
<1> SUFFICES ASSUME OutboxRecorded, [Next]_vars
             PROVE  \/ [AlertNext]_alertVars /\ UNCHANGED socketVars
                    \/ UNCHANGED fired /\ (OwnStep \/ \E n \in Notes : Announce(n) /\ Recorded(n))
  OBVIOUS
<1>1. CASE (Owner \/ Evaluate \/ \E j \in Jobs : JobFails(j)) /\ UNCHANGED <<socketVars, elsewhere>>
  BY <1>1 DEF AlertNext
<1>2. CASE \E t \in Ticks : PollSubscribed(t)
  BY <1>2 DEF PollSubscribed, AlertNext
<1>3. ASSUME NEW j \in Jobs, NEW n \in outbox[j], NotifyUser(j, n)
      PROVE  \/ [AlertNext]_alertVars /\ UNCHANGED socketVars
             \/ UNCHANGED fired /\ (\E m \in Notes : Announce(m) /\ Recorded(m))
  <2>1. CASE UNCHANGED socketVars
    BY <1>3, <2>1 DEF NotifyUser, AlertNext
  <2>2. CASE Announce(n)
    <3>1. n \in Notes /\ Recorded(n)
      BY DEF OutboxRecorded
    <3>2. UNCHANGED fired
      BY <1>3 DEF NotifyUser, Notify, ruleVars
    <3>3. QED
      BY <2>2, <3>1, <3>2
  <2>3. QED
    BY <1>3, <2>1, <2>2 DEF NotifyUser
<1>4. CASE (\E s \in Sockets : Handler(s)) /\ UNCHANGED <<alertVars, elsewhere>>
  BY <1>4 DEF OwnStep, alertVars, ruleVars
<1>5. CASE (\E w \in Workers : Process(w)) /\ UNCHANGED <<alertVars, elsewhere>>
  BY <1>5 DEF OwnStep, alertVars, ruleVars
<1>6. CASE UNCHANGED vars
  BY <1>6 DEF vars, OwnStep, alertVars, ruleVars
<1>7. QED
  BY <1>1, <1>2, <1>3, <1>4, <1>5, <1>6 DEF Next

\* ... and so does the fan-out: what the jobs announce are messages it knows.
THEOREM DeliveryImplementsSockets == Spec => SocketSpec
<1>1. Init => \E b \in Limits : SocketInit(b)
  BY DeliveryAssumption DEF Init
<1>2. OutboxRecorded /\ [Next]_vars => [SocketNext]_socketVars
  BY MessageStep DEF OwnStep, SocketNext
<1>3. QED
  BY <1>1, <1>2, DeliveryImplementsAlerts, OutboxAlways, PTL DEF Spec, SocketSpec

\* What a client is shown is its own and the record of a firing that was committed,
\* whatever is lost, dropped or restarted between the job and the browser.
THEOREM ShownAlwaysRecorded == Spec => []ShownIsRecorded
<1>1. Init => Carried
  BY DEF Init, SocketInit, Carried, InboxRecorded, QueueRecorded, ShownRecorded
<1>2. AlertTypeOK /\ SocketTypeOK /\ Evaluated /\ OutboxRecorded /\ Carried /\ [Next]_vars => Carried'
  <2>1. SUFFICES ASSUME AlertTypeOK, SocketTypeOK, Evaluated, OutboxRecorded, Carried, [Next]_vars
                 PROVE  Carried'
    OBVIOUS
  <2>2. CASE [AlertNext]_alertVars /\ UNCHANGED socketVars
    <3>1. UNCHANGED <<inbox, queue, shown>>
      BY <2>2 DEF socketVars, busVars, connVars
    <3>2. QED
      BY <2>1, <2>2, <3>1, CarriedAsRecorded
  <2>3. CASE UNCHANGED fired /\ (OwnStep \/ \E n \in Notes : Announce(n) /\ Recorded(n))
    BY <2>1, <2>3, CarriedAway
  <2>4. QED
    BY <2>1, <2>2, <2>3, MessageStep
<1>3. Carried /\ ShownToOwner => ShownIsRecorded
  BY DEF Carried, ShownRecorded, Recorded, ShownIsRecorded
<1>4. Spec => []Carried
  BY <1>1, <1>2, DeliveryImplementsAlerts, DeliveryImplementsSockets, AlertTypes, SocketTypes,
     EvaluatedAlways, OutboxAlways, PTL DEF Spec
<1>5. QED
  BY <1>3, <1>4, DeliveryImplementsSockets, ShownAlwaysToOwner, PTL

=============================================================================
