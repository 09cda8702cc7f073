------------------------- MODULE StripeWebhookProofs -------------------------
(* Proofs about StripeWebhook, for any number of events, requests and rows,   *)
(* with failures: the types, access only after an event that grants it, each  *)
(* event handled by one request until its handler has failed, and no access   *)
(* left that Stripe does not grant unless requests wrote over each other.     *)
EXTENDS StripeWebhook, TLAPS

USE SizesAssumption
USE DEF vars, stripeVars, rowVars, sawVars, taskVars

-----------------------------------------------------------------------------
(* Statuses.                                                                *)

\* A Stripe status always maps to a local one, never to an absent row.
LEMMA LocalStatusType == \A s : LocalStatus(s) \in Statuses
  BY DEF LocalStatus, Statuses

\* Fail-closed: only a granting Stripe status maps to a granting local one.
LEMMA LocalStatusGrants == \A s : LocalStatus(s) \in Granting => PermitsOf(s)
  BY DEF LocalStatus, Granting, PermitsOf

LEMMA NewStatusType ==
    ASSUME NEW t \in Tasks PROVE NewStatus(t) \in Statuses
  BY LocalStatusType DEF NewStatus, Statuses

\* Only a payment, or an update that carries a granting status, grants.
LEMMA NewStatusGrants ==
    ASSUME NEW t \in Tasks, KindOf(t) \in AllKinds, NewStatus(t) \in Granting
    PROVE  \/ KindOf(t) = "paid"
           \/ Upserts(KindOf(t)) /\ PermitsOf(says[ev[t]])
  BY LocalStatusGrants DEF NewStatus, Granting, AllKinds, Upserts

-----------------------------------------------------------------------------
(* Types.                                                                   *)

\* The event has something to say about the subscription, at once or later.
Counts(e) == Sent(e) /\ (e \in bare => kind[e] = "updated")
\* A request that is in progress handles an event that was sent, and writes to
\* a row that it has read.
Busy(t) ==
    /\ pc[t] # "idle" => ev[t] \in Events /\ Sent(ev[t])
    /\ pc[t] = "write" => saw[t] \in Rows
    /\ pc[t] = "insert" => Upserts(KindOf(t))
    /\ pc[t] \in {"insert", "write"} => Counts(ev[t])
TypeInv == TypeOK /\ \A t \in Tasks : Busy(t)

LEMMA InitTypeInv == Init => TypeInv
<1> SUFFICES ASSUME Init PROVE TypeInv
  OBVIOUS
<1>1. TypeOK
  BY DEF Init, TypeOK, InboxStates, Statuses, StripeStatuses
<1>2. \A t \in Tasks : Busy(t)
  BY DEF Init, Busy
<1> QED
  BY <1>1, <1>2 DEF TypeInv

LEMMA NextTypeOK == TypeInv /\ [Next]_vars => TypeOK'
<1> SUFFICES ASSUME TypeOK, \A t \in Tasks : Busy(t), [Next]_vars PROVE TypeOK'
  BY DEF TypeInv
<1> USE DEF TypeOK, InboxStates, Statuses, StripeStatuses, AllKinds
<1>1. ASSUME NEW e \in Events, NEW s \in StripeStatuses, NEW b \in BOOLEAN, Creates(e, s, b) PROVE TypeOK'
  BY <1>1 DEF Creates, Emit
<1>2. ASSUME NEW e \in Events, NEW s \in StripeStatuses, NEW b \in BOOLEAN, Changes(e, s, b) PROVE TypeOK'
  BY <1>2 DEF Changes, Emit
<1>3. ASSUME NEW e \in Events, Pays(e) PROVE TypeOK'
  BY <1>3 DEF Pays, Emit
<1>4. ASSUME NEW e \in Events, PaymentFails(e) PROVE TypeOK'
  BY <1>4 DEF PaymentFails, Emit
<1>5. ASSUME NEW e \in Events, Deletes(e) PROVE TypeOK'
  BY <1>5 DEF Deletes, Emit
<1>6. CASE Clock
  BY <1>6 DEF Clock
<1>7. ASSUME NEW t \in Tasks, NEW e \in Events, Deliver(t, e) PROVE TypeOK'
  BY <1>7 DEF Deliver, Go
<1>8. ASSUME NEW t \in Tasks, NEW e \in Events, Redeliver(t, e) PROVE TypeOK'
  BY <1>8 DEF Redeliver, Go
<1>9. ASSUME NEW t \in Tasks, NEW r \in Rows, ReadRow(t, r) PROVE TypeOK'
  BY <1>9 DEF ReadRow, Go, Existing
<1>10. ASSUME NEW t \in Tasks, NEW r \in Rows, Insert(t, r) PROVE TypeOK'
  <2>1. ev[t] \in Events
    BY <1>10 DEF Insert, Busy
  <2>2. QED
    BY <1>10, <2>1, LocalStatusType DEF Insert, Go
<1>11. ASSUME NEW t \in Tasks, ReadMany(t) PROVE TypeOK'
  BY <1>11 DEF ReadMany, Go
<1>12. ASSUME NEW t \in Tasks, ReadNone(t) PROVE TypeOK'
  BY <1>12 DEF ReadNone, Go, WhenMissing
<1>13. ASSUME NEW t \in Tasks, Ignore(t) PROVE TypeOK'
  BY <1>13 DEF Ignore, Go
<1>14. ASSUME NEW t \in Tasks, Apply(t) PROVE TypeOK'
  <2>1. ev[t] \in Events /\ saw[t] \in Rows
    BY <1>14 DEF Apply, Busy
  <2>2. NewStatus(t) \in Statuses
    BY NewStatusType
  <2>3. made[ev[t]] \in Nat
    BY <2>1
  <2>4. rowSt' \in [Rows -> Statuses \cup {"none"}]
    <3>1. \E v \in Statuses \cup {"none"} : rowSt' = [rowSt EXCEPT ![saw[t]] = v]
      BY <1>14, <2>1, <2>2 DEF Apply
    <3>2. QED
      BY <2>1, <3>1
  <2>5. rowAt' \in [Rows -> Nat]
    BY <1>14, <2>1, <2>3 DEF Apply
  <2>6. QED
    BY <1>14, <2>4, <2>5 DEF Apply, Go
<1>15. ASSUME NEW t \in Tasks, Mark(t) PROVE TypeOK'
  BY <1>15 DEF Mark, Go, Leave, Forget, Busy
<1>16. ASSUME NEW t \in Tasks, MarkFailed(t) PROVE TypeOK'
  BY <1>16 DEF MarkFailed, Go, Leave, Forget, Busy
<1>17. ASSUME NEW t \in Tasks, Dies(t) \/ StatementFails(t) PROVE TypeOK'
  BY <1>17 DEF Dies, StatementFails, Broken, Leave, Go, Forget
<1>21. ASSUME NEW e \in Events, NEW k \in Kinds, OneOff(e, k) PROVE TypeOK'
  BY <1>21 DEF OneOff, Emit
<1>22. ASSUME NEW t \in Tasks, Drop(t) PROVE TypeOK'
  BY <1>22 DEF Drop, Go
<1>18. CASE UNCHANGED vars
  BY <1>18
<1>19. ASSUME NEW t \in Tasks, Handle(t) PROVE TypeOK'
  BY <1>9, <1>10, <1>11, <1>12, <1>13, <1>14, <1>15, <1>16, <1>19, <1>22 DEF Handle
<1>20. QED
  BY <1>1, <1>2, <1>3, <1>4, <1>5, <1>6, <1>7, <1>8, <1>17, <1>18, <1>19, <1>21, SMTT(30) DEF Next

LEMMA NextBusy == TypeInv /\ [Next]_vars => \A t \in Tasks : Busy(t)'
<1> SUFFICES ASSUME TypeOK, \A t \in Tasks : Busy(t), [Next]_vars
             PROVE  \A t \in Tasks : Busy(t)'
  BY DEF TypeInv
<1>0. /\ pc \in [Tasks -> {"idle", "read", "again", "insert", "write", "mark", "fail"}]
      /\ ev \in [Tasks -> Events \cup {NoEvent}] /\ saw \in [Tasks -> Rows \cup {0}]
      /\ kind \in [Events -> AllKinds \cup {"unsent"}] /\ "unsent" \notin Kinds
  BY DEF TypeOK, AllKinds
<1>1. ASSUME NEW e \in Events, NEW s \in StripeStatuses, NEW b \in BOOLEAN, Creates(e, s, b) PROVE \A u \in Tasks : Busy(u)'
  BY <1>0, <1>1 DEF Creates, Emit, Busy, Sent, KindOf, Counts
<1>2. ASSUME NEW e \in Events, NEW s \in StripeStatuses, NEW b \in BOOLEAN, Changes(e, s, b) PROVE \A u \in Tasks : Busy(u)'
  BY <1>0, <1>2 DEF Changes, Emit, Busy, Sent, KindOf, Counts
<1>3. ASSUME NEW e \in Events, Pays(e) PROVE \A u \in Tasks : Busy(u)'
  BY <1>0, <1>3 DEF Pays, Emit, Busy, Sent, KindOf, Counts
<1>4. ASSUME NEW e \in Events, PaymentFails(e) PROVE \A u \in Tasks : Busy(u)'
  BY <1>0, <1>4 DEF PaymentFails, Emit, Busy, Sent, KindOf, Counts
<1>5. ASSUME NEW e \in Events, Deletes(e) PROVE \A u \in Tasks : Busy(u)'
  BY <1>0, <1>5 DEF Deletes, Emit, Busy, Sent, KindOf, Counts
<1>6. CASE Clock
  BY <1>0, <1>6 DEF Clock, Busy, Sent, KindOf, Counts
<1>7. ASSUME NEW t \in Tasks, NEW e \in Events, Deliver(t, e) PROVE \A u \in Tasks : Busy(u)'
  BY <1>0, <1>7 DEF Deliver, Go, Busy, Sent, KindOf, Counts
<1>8. ASSUME NEW t \in Tasks, NEW e \in Events, Redeliver(t, e) PROVE \A u \in Tasks : Busy(u)'
  BY <1>0, <1>8 DEF Redeliver, Go, Busy, Sent, KindOf, Counts
<1>9. ASSUME NEW t \in Tasks, NEW r \in Rows, ReadRow(t, r) PROVE \A u \in Tasks : Busy(u)'
  BY <1>0, <1>9 DEF ReadRow, Reads, HasNothing, Go, Busy, Sent, KindOf, Existing, Counts
<1>10. ASSUME NEW t \in Tasks, NEW r \in Rows, Insert(t, r) PROVE \A u \in Tasks : Busy(u)'
  BY <1>0, <1>10 DEF Insert, Go, Busy, Sent, KindOf, Counts
<1>11. ASSUME NEW t \in Tasks, ReadMany(t) PROVE \A u \in Tasks : Busy(u)'
  BY <1>0, <1>11 DEF ReadMany, Reads, Go, Busy, Sent, KindOf, Counts
<1>12. ASSUME NEW t \in Tasks, ReadNone(t) PROVE \A u \in Tasks : Busy(u)'
  BY <1>0, <1>12 DEF ReadNone, Reads, HasNothing, Go, Busy, Sent, KindOf, WhenMissing, Upserts, Counts
<1>13. ASSUME NEW t \in Tasks, Ignore(t) PROVE \A u \in Tasks : Busy(u)'
  BY <1>0, <1>13 DEF Ignore, Go, Busy, Sent, KindOf, Counts
<1>14. ASSUME NEW t \in Tasks, Apply(t) PROVE \A u \in Tasks : Busy(u)'
  BY <1>0, <1>14 DEF Apply, Go, Busy, Sent, KindOf, Counts
<1>15. ASSUME NEW t \in Tasks, Mark(t) PROVE \A u \in Tasks : Busy(u)'
  BY <1>0, <1>15 DEF Mark, Go, Leave, Forget, Busy, Sent, KindOf, Counts
<1>16. ASSUME NEW t \in Tasks, MarkFailed(t) PROVE \A u \in Tasks : Busy(u)'
  BY <1>0, <1>16 DEF MarkFailed, Go, Leave, Forget, Busy, Sent, KindOf, Counts
<1>17. ASSUME NEW t \in Tasks, Dies(t) \/ StatementFails(t) PROVE \A u \in Tasks : Busy(u)'
  BY <1>0, <1>17 DEF Dies, StatementFails, Broken, Leave, Go, Forget, Busy, Sent, KindOf, Counts
<1>21. ASSUME NEW e \in Events, NEW k \in Kinds, OneOff(e, k) PROVE \A u \in Tasks : Busy(u)'
  BY <1>0, <1>21 DEF OneOff, Emit, Busy, Sent, KindOf, Counts
<1>22. ASSUME NEW t \in Tasks, Drop(t) PROVE \A u \in Tasks : Busy(u)'
  BY <1>0, <1>22 DEF Drop, HasNothing, Go, Busy, Sent, KindOf, Counts
<1>18. CASE UNCHANGED vars
  BY <1>18 DEF Busy, Sent, KindOf, Counts
<1>19. ASSUME NEW t \in Tasks, Handle(t) PROVE \A u \in Tasks : Busy(u)'
  BY <1>9, <1>10, <1>11, <1>12, <1>13, <1>14, <1>15, <1>16, <1>19, <1>22 DEF Handle
<1>20. QED
  BY <1>1, <1>2, <1>3, <1>4, <1>5, <1>6, <1>7, <1>8, <1>17, <1>18, <1>19, <1>21 DEF Next

\* The type invariant holds in every reachable state.
THEOREM TypeCorrect == Spec => []TypeOK
<1>1. TypeInv /\ [Next]_vars => TypeInv'
  BY NextTypeOK, NextBusy DEF TypeInv
<1>2. QED
  BY InitTypeInv, <1>1, PTL DEF Spec, TypeInv

-----------------------------------------------------------------------------
(* Access.                                                                  *)

\* Some event that Stripe sent grants access.
Justified == \E e \in Events : \/ kind[e] = "paid" /\ e \notin bare
                               \/ Upserts(kind[e]) /\ PermitsOf(says[e])

\* What Stripe has sent stays sent.
LEMMA JustifiedStays == TypeInv /\ [Next]_vars /\ Justified => Justified'
<1> SUFFICES ASSUME TypeOK, [Next]_vars, Justified PROVE Justified'
  BY DEF TypeInv
<1> PICK e0 \in Events : (kind[e0] = "paid" /\ e0 \notin bare) \/ (Upserts(kind[e0]) /\ PermitsOf(says[e0]))
  BY DEF Justified
<1>0. /\ kind \in [Events -> AllKinds \cup {"unsent"}] /\ says \in [Events -> StripeStatuses]
      /\ Sent(e0)
  BY DEF TypeOK, Upserts, Sent
<1>1. ASSUME NEW e \in Events, NEW k, NEW s, NEW b, Emit(e, k, s, b) PROVE Justified'
  BY <1>0, <1>1 DEF Emit, Sent, Justified
<1>2. CASE kind' = kind /\ says' = says /\ bare' = bare
  BY <1>2 DEF Justified
<1>3. ASSUME NEW e \in Events, NEW s \in StripeStatuses, NEW b \in BOOLEAN,
             Creates(e, s, b) \/ Changes(e, s, b)
      PROVE Justified'
  BY <1>1, <1>3 DEF Creates, Changes
<1>4. ASSUME NEW e \in Events, \/ Pays(e) \/ PaymentFails(e) \/ Deletes(e)
                             \/ \E k \in Kinds : OneOff(e, k)
      PROVE  Justified'
  BY <1>1, <1>4 DEF Pays, PaymentFails, Deletes, OneOff
<1>5. CASE Clock \/ UNCHANGED vars
  BY <1>2, <1>5 DEF Clock
<1>6. ASSUME NEW t \in Tasks, NEW e \in Events, Deliver(t, e) \/ Redeliver(t, e) PROVE Justified'
  BY <1>2, <1>6 DEF Deliver, Redeliver
<1>7. ASSUME NEW t \in Tasks, Handle(t) \/ Dies(t) \/ StatementFails(t) PROVE Justified'
  BY <1>2, <1>7 DEF Handle, Drop, ReadRow, Insert, ReadMany, ReadNone, Ignore, Apply, Mark, MarkFailed,
         Dies, StatementFails, Broken
<1>8. QED
  BY <1>3, <1>4, <1>5, <1>6, <1>7 DEF Next

\* Only Insert and Apply write a status; a granting one has its event.
LEMMA NextJustified == TypeInv /\ GrantJustified /\ [Next]_vars => GrantJustified'
<1> SUFFICES ASSUME TypeInv, GrantJustified, [Next]_vars, NEW r \in Rows, rowSt'[r] \in Granting
             PROVE  Justified'
  BY DEF GrantJustified, Justified
<1> SUFFICES Justified
  BY JustifiedStays
<1>0. /\ rowSt \in [Rows -> Statuses \cup {"none"}] /\ kind \in [Events -> AllKinds \cup {"unsent"}]
      /\ \A t \in Tasks : Busy(t)
  BY DEF TypeInv, TypeOK
<1>1. CASE rowSt' = rowSt
  BY <1>1 DEF GrantJustified, Justified
<1>2. ASSUME NEW t \in Tasks, NEW q \in Rows, Insert(t, q) PROVE Justified
  <2>1. ev[t] \in Events
    BY <1>0, <1>2 DEF Insert, Busy
  <2>2. CASE r = q
    <3>1. PermitsOf(says[ev[t]])
      BY <1>0, <1>2, <2>2, LocalStatusGrants DEF Insert
    <3>2. Upserts(kind[ev[t]])
      BY <1>0, <1>2 DEF Insert, Busy, KindOf
    <3>3. QED
      BY <2>1, <3>1, <3>2 DEF Justified
  <2>3. CASE r # q
    BY <1>0, <1>2, <2>3 DEF Insert, GrantJustified, Justified
  <2>4. QED
    BY <2>2, <2>3
<1>3. ASSUME NEW t \in Tasks, Apply(t) PROVE Justified
  <2>1. /\ ev[t] \in Events /\ KindOf(t) \in AllKinds
        /\ saw[t] \in Rows /\ KindOf(t) = kind[ev[t]]
        /\ ev[t] \in bare => KindOf(t) = "updated"
    BY <1>0, <1>3 DEF Apply, Busy, Sent, KindOf, Counts
  <2>2. rowSt'[r] = rowSt[r] \/ rowSt'[r] = NewStatus(t)
    BY <1>0, <1>3, <2>1 DEF Apply
  <2>3. CASE rowSt'[r] = rowSt[r]
    BY <2>3 DEF GrantJustified, Justified
  <2>4. CASE rowSt'[r] = NewStatus(t)
    <3>1. NewStatus(t) \in Granting
      BY <2>4
    <3>2. QED
      BY <2>1, <3>1, NewStatusGrants DEF Justified
  <2>5. QED
    BY <2>2, <2>3, <2>4
<1>4. ASSUME NEW e \in Events, NEW s \in StripeStatuses, NEW b \in BOOLEAN,
             Creates(e, s, b) \/ Changes(e, s, b) PROVE Justified
  BY <1>1, <1>4 DEF Creates, Changes, Emit
<1>5. ASSUME NEW e \in Events, \/ Pays(e) \/ PaymentFails(e) \/ Deletes(e)
                             \/ \E k \in Kinds : OneOff(e, k)
      PROVE  Justified
  BY <1>1, <1>5 DEF Pays, PaymentFails, Deletes, OneOff, Emit
<1>6. CASE Clock \/ UNCHANGED vars
  BY <1>1, <1>6 DEF Clock
<1>7. ASSUME NEW t \in Tasks, NEW e \in Events, Deliver(t, e) \/ Redeliver(t, e) PROVE Justified
  BY <1>1, <1>7 DEF Deliver, Redeliver
<1>8. ASSUME NEW t \in Tasks, Handle(t) \/ Dies(t) \/ StatementFails(t) PROVE Justified
  BY <1>1, <1>2, <1>3, <1>8 DEF Handle, Drop, ReadRow, ReadMany, ReadNone, Ignore, Mark, MarkFailed,
         Dies, StatementFails, Broken
<1>9. QED
  BY <1>4, <1>5, <1>6, <1>7, <1>8 DEF Next

\* For any number of requests at a time, with failures, access is granted only
\* after an event that grants it.
THEOREM AccessIsJustified == Spec => []GrantJustified
<1>1. Init => GrantJustified
  BY DEF Init, GrantJustified, Granting
<1>2. TypeInv /\ [Next]_vars => TypeInv'
  BY NextTypeOK, NextBusy DEF TypeInv
<1>3. QED
  BY InitTypeInv, <1>1, <1>2, NextJustified, PTL DEF Spec

-----------------------------------------------------------------------------
(* Deliveries.                                                              *)

\* Two requests have the same event at hand only once its handler has failed.
OnceInv == HandledOnce /\ \A t \in Tasks : pc[t] # "idle" => inbox[ev[t]] # "absent"

LEMMA NextOnce == TypeInv /\ OnceInv /\ [Next]_vars => OnceInv'
<1> SUFFICES ASSUME TypeInv, OnceInv, [Next]_vars PROVE OnceInv'
  OBVIOUS
<1> USE DEF OnceInv, HandledOnce
<1>0. /\ pc \in [Tasks -> {"idle", "read", "again", "insert", "write", "mark", "fail"}]
      /\ ev \in [Tasks -> Events \cup {NoEvent}] /\ inbox \in [Events -> InboxStates]
      /\ \A t \in Tasks : pc[t] # "idle" => ev[t] \in Events
  BY DEF TypeInv, TypeOK, Busy
<1>1. CASE UNCHANGED <<inbox, pc, ev>>
  BY <1>1
<1>2. ASSUME NEW t \in Tasks, NEW e \in Events, Deliver(t, e) PROVE OnceInv'
  BY <1>0, <1>2 DEF Deliver, Unclaimed, Go, InboxStates
<1>3. ASSUME NEW t \in Tasks, NEW e \in Events, Redeliver(t, e) PROVE OnceInv'
  BY <1>0, <1>3 DEF Redeliver, Retryable, Go
<1>4. ASSUME NEW t \in Tasks, UNCHANGED <<inbox, ev>>, pc[t] # "idle",
             NEW p, pc' = [pc EXCEPT ![t] = p]
      PROVE  OnceInv'
  BY <1>0, <1>4
<1>5. ASSUME NEW t \in Tasks, Leave(t), pc[t] # "idle",
             inbox' = inbox \/ \E x \in {"failed", "processed"} : inbox' = [inbox EXCEPT ![ev[t]] = x]
      PROVE  OnceInv'
  BY <1>0, <1>5 DEF Leave, Go
<1>6. ASSUME NEW t \in Tasks, Handle(t) PROVE OnceInv'
  <2>1. CASE (\E r \in Rows : ReadRow(t, r) \/ Insert(t, r)) \/ Drop(t)
             \/ ReadMany(t) \/ ReadNone(t) \/ Ignore(t) \/ Apply(t)
    <3>1. UNCHANGED <<inbox, ev>> /\ pc[t] # "idle" /\ \E p : pc' = [pc EXCEPT ![t] = p]
      BY <2>1 DEF ReadRow, Insert, Drop, HasNothing, ReadMany, ReadNone, Reads, Ignore, Apply, Go
    <3> QED
      BY <3>1, <1>4
  <2>2. CASE Mark(t) \/ MarkFailed(t)
    BY <2>2, <1>5 DEF Mark, MarkFailed
  <2> QED
    BY <1>6, <2>1, <2>2 DEF Handle
<1>7. ASSUME NEW t \in Tasks, Dies(t) \/ StatementFails(t) PROVE OnceInv'
  BY <1>5, <1>7 DEF Dies, StatementFails, Broken, Reads
<1>8. ASSUME NEW e \in Events, NEW s \in StripeStatuses, NEW b \in BOOLEAN,
             Creates(e, s, b) \/ Changes(e, s, b)
      PROVE  UNCHANGED <<inbox, pc, ev>>
  BY <1>8 DEF Creates, Changes, Emit
<1>9. ASSUME NEW e \in Events, \/ Pays(e) \/ PaymentFails(e) \/ Deletes(e)
                              \/ \E k \in Kinds : OneOff(e, k)
      PROVE  UNCHANGED <<inbox, pc, ev>>
  BY <1>9 DEF Pays, PaymentFails, Deletes, OneOff, Emit
<1>10. CASE Clock \/ UNCHANGED vars
  BY <1>1, <1>10 DEF Clock
<1> QED
  BY <1>1, <1>2, <1>3, <1>6, <1>7, <1>8, <1>9, <1>10 DEF Next

\* With any number of requests at a time, and failures, an event is handled by one
\* request at most until its handler has failed once.
THEOREM OneHandler == Spec => []HandledOnce
<1>1. Init => OnceInv
  BY DEF Init, OnceInv, HandledOnce
<1>2. TypeInv /\ [Next]_vars => TypeInv'
  BY NextTypeOK, NextBusy DEF TypeInv
<1>3. OnceInv => HandledOnce
  BY DEF OnceInv
<1> QED
  BY InitTypeInv, <1>1, <1>2, <1>3, NextOnce, PTL DEF Spec

-----------------------------------------------------------------------------
(* The last word.                                                           *)

\* The event says that there is no access (any more).
Restricts(e) == kind[e] \in {"failed", "deleted"} \/ (Upserts(kind[e]) /\ ~PermitsOf(says[e]))
Newest(e) == Counts(e) /\ \A f \in Events : Counts(f) => made[f] <= made[e]
Done(e) == inbox[e] = "processed" \/ \E t \in Tasks : pc[t] = "mark" /\ ev[t] = e
\* There is a row, without access, that only what is as new can still change.
Holds(e) == Existing # {} /\ \A r \in Existing : rowSt[r] \notin Granting /\ rowAt[r] >= made[e]
Quiet == Existing = {} /\ \A e \in Events : ~Counts(e)
\* Where Stripe grants nothing, the newest event says so, and once it is handled
\* the row does.
LastWord == \/ PermitsOf(real) \/ Quiet
            \/ \E e \in Events : Newest(e) /\ Restricts(e) /\ (Done(e) => Holds(e))
\* What a row or a request says of time is the time of an event that counts.
Clocks == /\ \A e \in Events : made[e] <= now /\ (~Sent(e) => inbox[e] = "absent" /\ e \notin bare)
          /\ real = "none" => \A e \in Events : ~Counts(e)
          /\ \A r \in Existing : \E f \in Events : Counts(f) /\ made[f] = rowAt[r]
          /\ \A t \in Tasks : pc[t] = "write" =>
                 saw[t] \in Existing /\ \E f \in Events : Counts(f) /\ made[f] = sawAt[t]
WordInv == Clocks /\ (astray \/ (OneRow /\ LastWord))

LEMMA InitWord == Init => WordInv
  BY DEF Init, WordInv, Clocks, LastWord, Quiet, Existing, Counts, Sent, OneRow

\* A restricting event writes no status that grants access.
LEMMA RestrictsWrites ==
    ASSUME NEW t \in Tasks, Restricts(ev[t])
    PROVE  /\ NewStatus(t) \notin Granting
           /\ Upserts(KindOf(t)) => LocalStatus(says[ev[t]]) \notin Granting
           /\ KindOf(t) # "paid"
  BY LocalStatusGrants DEF Restricts, NewStatus, KindOf, Granting, Upserts

\* Stripe: what it emits counts for nothing, or is the newest that counts.
LEMMA EmitWord ==
    ASSUME TypeInv, WordInv, NEW e \in Events, NEW k, NEW s, NEW b \in BOOLEAN, Emit(e, k, s, b),
           b /\ k # "updated" => real' = real \/ real = "none",
           (b /\ k # "updated") \/ real' # "none",
           real' = "none" => real = "none",
           (b /\ k # "updated")
           \/ PermitsOf(real') \/ k \in {"failed", "deleted"} \/ (Upserts(k) /\ ~PermitsOf(s))
    PROVE  WordInv'
<1>0. /\ kind \in [Events -> AllKinds \cup {"unsent"}] /\ made \in [Events -> Nat]
      /\ says \in [Events -> StripeStatuses] /\ now \in Nat /\ bare \in SUBSET Events
      /\ \A t \in Tasks : pc[t] # "idle" => ev[t] \in Events /\ Sent(ev[t])
  BY DEF TypeInv, TypeOK, Busy
<1>1. /\ kind' = [kind EXCEPT ![e] = k] /\ made' = [made EXCEPT ![e] = now]
      /\ says' = [says EXCEPT ![e] = s] /\ ~Sent(e) /\ k \in Kinds /\ k # "unsent"
      /\ bare' = IF b THEN bare \cup {e} ELSE bare
      /\ UNCHANGED <<now, inbox, rowSt, rowAt, pc, ev, saw, sawAt, astray>>
  BY DEF Emit, AllKinds
<1>2. /\ kind'[e] = k /\ made'[e] = now /\ says'[e] = s
      /\ \A f \in Events : f # e => /\ kind'[f] = kind[f] /\ made'[f] = made[f]
                                    /\ says'[f] = says[f] /\ (f \in bare' <=> f \in bare)
  BY <1>0, <1>1
<1>3. Existing' = Existing /\ OneRow' = OneRow
  BY <1>1 DEF Existing, OneRow
<1>4. /\ ~Counts(e)
      /\ \A f \in Events : f # e => Counts(f)' = Counts(f)
      /\ b /\ k # "updated" => ~Counts(e)'
  BY <1>0, <1>1, <1>2 DEF Counts, Sent
<1>5. Clocks'
  <2>1. \A f \in Events : made'[f] <= now' /\ (~Sent(f)' => inbox'[f] = "absent" /\ f \notin bare')
    BY <1>0, <1>1, <1>2 DEF WordInv, Clocks, Sent
  <2>2. \A r \in Existing' : \E f \in Events : Counts(f)' /\ made'[f] = rowAt'[r]
    BY <1>1, <1>2, <1>3, <1>4 DEF WordInv, Clocks
  <2>3. \A t \in Tasks : pc'[t] = "write" =>
            saw'[t] \in Existing' /\ \E f \in Events : Counts(f)' /\ made'[f] = sawAt'[t]
    BY <1>1, <1>2, <1>3, <1>4 DEF WordInv, Clocks
  <2>4. real' = "none" => \A f \in Events : ~Counts(f)'
    BY <1>4 DEF WordInv, Clocks
  <2> QED
    BY <2>1, <2>2, <2>3, <2>4 DEF Clocks
<1>6. CASE astray
  BY <1>1, <1>5, <1>6 DEF WordInv
<1>7. CASE ~astray /\ PermitsOf(real')
  BY <1>3, <1>5, <1>7 DEF WordInv, LastWord, PermitsOf
<1>8. CASE ~astray /\ b /\ k # "updated" /\ real = "none"
  <2>1. \A f \in Events : ~Counts(f)
    BY <1>8 DEF WordInv, Clocks
  <2>2. Existing = {}
    BY <2>1 DEF WordInv, Clocks
  <2>3. Quiet'
    BY <1>3, <1>4, <1>8, <2>1, <2>2 DEF Quiet
  <2> QED
    BY <1>3, <1>5, <1>8, <2>3 DEF WordInv, LastWord
<1>9. CASE ~astray /\ b /\ k # "updated" /\ real' = real
  <2>1. Quiet => Quiet'
    BY <1>3, <1>4, <1>9 DEF Quiet
  <2>2. ASSUME NEW g \in Events, Newest(g), Restricts(g), Done(g) => Holds(g)
        PROVE  Newest(g)' /\ Restricts(g)' /\ (Done(g)' => Holds(g)')
    <3>1. g # e
      BY <1>4, <2>2 DEF Newest
    <3>2. Newest(g)'
      BY <1>2, <1>4, <1>9, <2>2, <3>1 DEF Newest
    <3>3. Restricts(g)'
      BY <1>2, <2>2, <3>1 DEF Restricts
    <3>4. Done(g)' = Done(g) /\ Holds(g)' = Holds(g)
      BY <1>1, <1>2, <1>3, <3>1 DEF Done, Holds
    <3> QED
      BY <2>2, <3>2, <3>3, <3>4
  <2> QED
    BY <1>3, <1>5, <1>9, <2>1, <2>2 DEF WordInv, LastWord, PermitsOf
<1>10. CASE ~(b /\ k # "updated") /\ (k \in {"failed", "deleted"} \/ (Upserts(k) /\ ~PermitsOf(s)))
  <2>0. Counts(e)'
    BY <1>1, <1>2, <1>10 DEF Counts, Sent, WordInv, Clocks
  <2>1. Newest(e)'
    <3>1. \A f \in Events : made'[f] <= now
      BY <1>1, <1>5 DEF Clocks
    <3> QED
      BY <1>2, <2>0, <3>1 DEF Newest
  <2>2. Restricts(e)'
    BY <1>2, <1>10 DEF Restricts, Upserts, PermitsOf
  <2>3. ~Done(e)'
    BY <1>0, <1>1 DEF WordInv, Clocks, Done
  <2> QED
    BY <1>1, <1>3, <1>5, <2>1, <2>2, <2>3 DEF WordInv, LastWord
<1> QED
  BY <1>6, <1>7, <1>8, <1>9, <1>10

\* A request that writes no row: the event it has handled is one it had to handle.
LEMMA ReadWord ==
    ASSUME WordInv, UNCHANGED <<stripeVars, rowVars>>, astray' \in BOOLEAN, astray => astray',
           ~astray' => \A e \in Events : Done(e)' /\ Newest(e) /\ Restricts(e) => Done(e),
           \A e \in Events : inbox'[e] # "absent" => inbox[e] # "absent" \/ Sent(e),
           \A t \in Tasks : pc'[t] = "write" =>
               saw'[t] \in Existing /\ \E f \in Events : Counts(f) /\ made[f] = sawAt'[t]
    PROVE  WordInv'
<1>1. /\ Existing' = Existing /\ Quiet' = Quiet /\ OneRow' = OneRow
      /\ \A e \in Events : /\ Newest(e)' = Newest(e) /\ Restricts(e)' = Restricts(e)
                           /\ Holds(e)' = Holds(e) /\ Sent(e)' = Sent(e) /\ Counts(e)' = Counts(e)
  BY DEF Existing, Quiet, Newest, Restricts, Holds, Sent, Counts, OneRow
<1>2. Clocks'
  BY <1>1 DEF WordInv, Clocks
<1>3. ~astray' => OneRow' /\ LastWord'
  BY <1>1 DEF WordInv, LastWord, PermitsOf
<1> QED
  BY <1>2, <1>3 DEF WordInv

LEMMA InsertWord ==
    ASSUME TypeInv, WordInv, NEW t \in Tasks, NEW r \in Rows, Insert(t, r)
    PROVE  WordInv'
<1> DEFINE e == ev[t]
           v == LocalStatus(says[e])
<1>0. /\ rowSt \in [Rows -> Statuses \cup {"none"}] /\ rowAt \in [Rows -> Nat]
      /\ pc \in [Tasks -> {"idle", "read", "again", "insert", "write", "mark", "fail"}]
      /\ made \in [Events -> Nat] /\ astray \in BOOLEAN
  BY DEF TypeInv, TypeOK
<1>1. /\ pc[t] = "insert" /\ rowSt' = [rowSt EXCEPT ![r] = v] /\ rowAt' = [rowAt EXCEPT ![r] = made[e]]
      /\ pc' = [pc EXCEPT ![t] = "mark"] /\ astray' = (astray \/ Existing # {}) /\ r \notin Existing
      /\ UNCHANGED <<real, now, kind, made, says, bare, inbox, ev, saw, sawAt>>
  BY DEF Insert, Go
<1>2. e \in Events /\ Counts(e) /\ made[e] \in Nat /\ Upserts(KindOf(t))
  BY <1>0, <1>1 DEF TypeInv, Busy
<1>3. v \in Statuses /\ v # "none"
  BY LocalStatusType DEF Statuses
<1> HIDE DEF v
<1>4. Existing' = Existing \cup {r} /\ rowSt'[r] = v /\ rowAt'[r] = made[e]
      /\ \A q \in Existing : rowAt'[q] = rowAt[q]
  BY <1>0, <1>1, <1>3 DEF Existing
<1>5. Clocks'
  <2>1. \A f \in Events : Counts(f)' = Counts(f) /\ Sent(f)' = Sent(f)
    BY <1>1 DEF Counts, Sent
  <2>2. \A q \in Existing' : \E f \in Events : Counts(f) /\ made[f] = rowAt'[q]
    BY <1>2, <1>4 DEF WordInv, Clocks
  <2>3. \A u \in Tasks : pc'[u] = "write" => pc[u] = "write"
    BY <1>0, <1>1
  <2> QED
    BY <1>1, <1>4, <2>1, <2>2, <2>3 DEF WordInv, Clocks
<1>6. CASE astray'
  BY <1>5, <1>6 DEF WordInv
<1>7. CASE ~astray'
  <2>1. Existing = {} /\ Existing' = {r} /\ LastWord
    BY <1>0, <1>1, <1>4, <1>7 DEF WordInv
  <2>2. OneRow'
    BY <2>1 DEF OneRow, Existing
  <2>3. CASE PermitsOf(real)
    BY <1>1, <1>5, <2>2, <2>3 DEF WordInv, LastWord, PermitsOf
  <2>4. CASE ~PermitsOf(real)
    <3>1. PICK g \in Events : Newest(g) /\ Restricts(g) /\ (Done(g) => Holds(g))
      BY <1>2, <2>1, <2>4 DEF LastWord, Quiet
    <3>2. Newest(g)' /\ Restricts(g)'
      BY <1>1, <3>1 DEF Newest, Restricts, Counts, Sent
    <3>3. ~Done(g)
      BY <2>1, <3>1 DEF Holds
    <3>4. Done(g)' => g = e
      BY <1>0, <1>1, <3>3 DEF Done
    <3>5. g = e => Holds(g)'
      <4>1. ASSUME g = e PROVE v \notin Granting
        BY <1>2, <3>1, <4>1, RestrictsWrites DEF v
      <4> QED
        BY <1>1, <1>2, <1>4, <2>1, <4>1 DEF Holds
    <3> QED
      BY <1>5, <2>2, <3>2, <3>4, <3>5 DEF WordInv, LastWord
  <2> QED
    BY <2>3, <2>4
<1> QED
  BY <1>6, <1>7

\* A restricting event that is the newest is never ignored.
LEMMA NewestIsApplied ==
    ASSUME TypeInv, Clocks, NEW t \in Tasks, pc[t] = "write", Newest(ev[t]), Restricts(ev[t])
    PROVE  ~Ignores(t)
<1>1. PICK f \in Events : Counts(f) /\ made[f] = sawAt[t]
  BY DEF Clocks
<1>2. ev[t] \in Events /\ made[f] <= made[ev[t]] /\ made[ev[t]] \in Nat /\ made[f] \in Nat
  BY <1>1 DEF Newest, TypeInv, TypeOK, Busy
<1>3. ~IsStale(t)
  BY <1>1, <1>2 DEF IsStale
<1>4. NewStatus(t) \notin Granting /\ KindOf(t) # "paid"
  BY RestrictsWrites
<1> QED
  BY <1>3, <1>4 DEF Ignores, Relaxes

LEMMA ApplyWord ==
    ASSUME TypeInv, WordInv, NEW t \in Tasks, Apply(t)
    PROVE  WordInv'
<1> DEFINE e == ev[t]
           q == saw[t]
           v == NewStatus(t)
           w == IF v = sawSt[t] THEN rowSt[q] ELSE v
           c == IF made[e] = sawAt[t] THEN rowAt[q] ELSE made[e]
<1>0. /\ rowSt \in [Rows -> Statuses \cup {"none"}] /\ rowAt \in [Rows -> Nat]
      /\ pc \in [Tasks -> {"idle", "read", "again", "insert", "write", "mark", "fail"}]
      /\ made \in [Events -> Nat] /\ astray \in BOOLEAN
  BY DEF TypeInv, TypeOK
<1>1. /\ pc[t] = "write" /\ ~Ignores(t) /\ pc' = [pc EXCEPT ![t] = "mark"]
      /\ rowSt' = [rowSt EXCEPT ![q] = w] /\ rowAt' = [rowAt EXCEPT ![q] = c]
      /\ astray' = (astray \/ rowSt[q] # sawSt[t] \/ rowAt[q] # sawAt[t])
      /\ UNCHANGED <<real, now, kind, made, says, bare, inbox, ev, saw, sawAt>>
  BY DEF Apply, Go
<1>2. q \in Rows /\ q \in Existing /\ rowSt[q] # "none"
  BY <1>1 DEF WordInv, Clocks, Existing
<1>3. e \in Events /\ Counts(e) /\ made[e] \in Nat
  BY <1>0, <1>1 DEF TypeInv, Busy
<1>4. v \in Statuses /\ w # "none"
  BY <1>2, NewStatusType DEF Statuses
<1> HIDE DEF v
<1>5. /\ Existing' = Existing /\ rowSt'[q] = w /\ rowAt'[q] = c
      /\ \A r \in Rows : r # q => rowSt'[r] = rowSt[r] /\ rowAt'[r] = rowAt[r]
  <2> HIDE DEF w, c, q
  <2>1. /\ rowSt'[q] = w /\ rowAt'[q] = c
        /\ \A r \in Rows : r # q => rowSt'[r] = rowSt[r] /\ rowAt'[r] = rowAt[r]
    BY <1>0, <1>1, <1>2
  <2> QED
    BY <1>2, <1>4, <2>1 DEF Existing
<1>6. Clocks'
  <2>1. \A f \in Events : Counts(f)' = Counts(f) /\ Sent(f)' = Sent(f)
    BY <1>1 DEF Counts, Sent
  <2>2. \A r \in Existing : \E f \in Events : Counts(f) /\ made[f] = rowAt'[r]
    <3>1. c = rowAt[q] \/ c = made[e]
      OBVIOUS
    <3>2. \E f \in Events : Counts(f) /\ made[f] = c
      BY <1>2, <1>3, <3>1 DEF WordInv, Clocks
    <3> HIDE DEF c, q
    <3> TAKE r \in Existing
    <3>3. CASE r = q
      BY <1>5, <3>2, <3>3
    <3>4. CASE r # q
      <4>1. rowAt'[r] = rowAt[r]
        BY <1>5, <3>4 DEF Existing
      <4> QED
        BY <4>1 DEF WordInv, Clocks
    <3> QED
      BY <3>3, <3>4
  <2>3. \A u \in Tasks : pc'[u] = "write" => pc[u] = "write"
    BY <1>0, <1>1
  <2> QED
    BY <1>1, <1>5, <2>1, <2>2, <2>3 DEF WordInv, Clocks
<1>7. CASE astray'
  BY <1>6, <1>7 DEF WordInv
<1>8. CASE ~astray'
  <2>1. /\ rowSt[q] = sawSt[t] /\ rowAt[q] = sawAt[t] /\ OneRow /\ LastWord
    BY <1>0, <1>1, <1>8 DEF WordInv
  <2>2. w = v /\ c = made[e] /\ Existing = {q}
    BY <1>2, <2>1 DEF OneRow, Existing
  <2> HIDE DEF w, c, q
  <2>3. OneRow'
    BY <1>5, <2>2 DEF OneRow, Existing
  <2>4. CASE PermitsOf(real)
    BY <1>1, <1>6, <2>3, <2>4 DEF WordInv, LastWord, PermitsOf
  <2>5. CASE ~PermitsOf(real)
    <3>1. PICK g \in Events : Newest(g) /\ Restricts(g) /\ (Done(g) => Holds(g))
      BY <1>3, <2>1, <2>5 DEF LastWord, Quiet
    <3>2. Newest(g)' /\ Restricts(g)' /\ made[e] <= made[g] /\ made[g] \in Nat
      BY <1>0, <1>1, <1>3, <3>1 DEF Newest, Restricts, Counts, Sent
    <3>3. CASE g = e
      <4>1. v \notin Granting
        BY <3>1, <3>3, RestrictsWrites DEF v
      <4>2. Holds(g)'
        BY <1>1, <1>3, <1>5, <2>2, <3>3, <4>1 DEF Holds
      <4> QED
        BY <1>6, <2>3, <3>2, <4>2 DEF WordInv, LastWord
    <3>4. CASE g # e
      <4>1. Done(g)' => Done(g)
        BY <1>0, <1>1, <3>4 DEF Done
      <4>2. ASSUME Done(g) PROVE Holds(g)'
        <5>1. rowSt[q] \notin Granting /\ rowAt[q] >= made[g] /\ rowAt[q] \in Nat
          BY <1>0, <1>2, <2>2, <3>1, <4>2 DEF Holds, q
        <5>2. ~(made[e] < rowAt[q])
          BY <1>1, <2>1 DEF Ignores, IsStale
        <5>3. made[e] = rowAt[q] /\ made[e] = made[g]
          BY <1>3, <3>2, <5>1, <5>2
        <5>4. v \notin Granting
          BY <1>1, <2>1, <5>1, <5>3 DEF Ignores, Relaxes, v
        <5> QED
          BY <1>1, <1>5, <2>2, <3>2, <5>3, <5>4 DEF Holds
      <4> QED
        BY <1>6, <2>3, <3>2, <4>1, <4>2 DEF WordInv, LastWord
    <3> QED
      BY <3>3, <3>4
  <2> QED
    BY <2>4, <2>5
<1> QED
  BY <1>7, <1>8

LEMMA NextWord == TypeInv /\ WordInv /\ [Next]_vars => WordInv'
<1> SUFFICES ASSUME TypeInv, WordInv, [Next]_vars PROVE WordInv'
  OBVIOUS
<1>0. /\ pc \in [Tasks -> {"idle", "read", "again", "insert", "write", "mark", "fail"}]
      /\ ev \in [Tasks -> Events \cup {NoEvent}] /\ inbox \in [Events -> InboxStates]
      /\ saw \in [Tasks -> Rows \cup {0}] /\ sawAt \in [Tasks -> Nat] /\ astray \in BOOLEAN
      /\ \A t \in Tasks : pc[t] # "idle" => ev[t] \in Events /\ Sent(ev[t])
  BY DEF TypeInv, TypeOK, Busy
<1>1. ASSUME NEW e \in Events, NEW s \in StripeStatuses, NEW b \in BOOLEAN,
             Creates(e, s, b) \/ Changes(e, s, b)
      PROVE  WordInv'
  <2>1. CASE Creates(e, s, b)
    <3>1. Emit(e, "created", s, b) /\ real = "none" /\ real' = s /\ s # "none"
      BY <2>1 DEF Creates
    <3> QED
      BY <3>1, EmitWord DEF Upserts
  <2>2. CASE Changes(e, s, b)
    <3>1. Emit(e, "updated", s, b) /\ real' = s /\ s # "none"
      BY <2>2 DEF Changes, Ended
    <3> QED
      BY <3>1, EmitWord DEF Upserts
  <2> QED
    BY <1>1, <2>1, <2>2
<1>2. ASSUME NEW e \in Events, Pays(e) PROVE WordInv'
  BY <1>2, EmitWord DEF Pays, PermitsOf
<1>3. ASSUME NEW e \in Events, PaymentFails(e) \/ Deletes(e) PROVE WordInv'
  BY <1>3, EmitWord DEF PaymentFails, Deletes
<1>4. ASSUME NEW e \in Events, NEW k \in Kinds, OneOff(e, k) PROVE WordInv'
  BY <1>4, EmitWord DEF OneOff
<1>5. CASE Clock
  <2>1. now' = now + 1 /\ now \in Nat /\ made \in [Events -> Nat]
        /\ UNCHANGED <<real, kind, made, says, bare, inbox, rowVars, taskVars, astray>>
    BY <1>5 DEF Clock, TypeInv, TypeOK
  <2>2. Clocks'
    BY <2>1 DEF WordInv, Clocks, Existing, Sent, Counts
  <2>3. LastWord' = LastWord /\ OneRow' = OneRow
    BY <2>1 DEF LastWord, Quiet, Newest, Restricts, Done, Holds, Existing, Sent, Counts, PermitsOf, OneRow
  <2> QED
    BY <2>1, <2>2, <2>3 DEF WordInv
<1>6. ASSUME NEW t \in Tasks, NEW e \in Events, Deliver(t, e) \/ Redeliver(t, e) PROVE WordInv'
  <2>1. /\ pc[t] = "idle" /\ Sent(e) /\ pc' = [pc EXCEPT ![t] = "read"]
        /\ ev' = [ev EXCEPT ![t] = e] /\ UNCHANGED <<stripeVars, rowVars, sawVars, astray>>
        /\ inbox' \in {inbox, [inbox EXCEPT ![e] = "processing"]}
    BY <1>6 DEF Deliver, Redeliver, Go
  <2>2. \A f \in Events : Done(f)' => Done(f)
    BY <1>0, <2>1 DEF Done
  <2>3. \A f \in Events : inbox'[f] # "absent" => inbox[f] # "absent" \/ Sent(f)
    BY <1>0, <2>1
  <2>4. \A u \in Tasks : pc'[u] = "write" => pc[u] = "write"
    BY <1>0, <2>1
  <2> QED
    BY <1>0, <2>1, <2>2, <2>3, <2>4, ReadWord DEF WordInv, Clocks
<1>7. ASSUME NEW t \in Tasks, UNCHANGED <<stripeVars, rowVars, inbox, ev, sawVars>>,
             NEW p, p # "write", pc' = [pc EXCEPT ![t] = p], pc[t] # "idle",
             astray' \in BOOLEAN, astray => astray',
             p = "mark" /\ ~astray' => ~(Newest(ev[t]) /\ Restricts(ev[t]))
      PROVE  WordInv'
  <2>1. ASSUME NEW f \in Events, Done(f)', Newest(f) /\ Restricts(f), ~astray' PROVE Done(f)
    BY <1>0, <1>7, <2>1 DEF Done
  <2>2. \A u \in Tasks : pc'[u] = "write" => pc[u] = "write"
    BY <1>0, <1>7
  <2> QED
    BY <1>7, <2>1, <2>2, ReadWord DEF WordInv, Clocks
<1>8. ASSUME NEW t \in Tasks, NEW r \in Rows, ReadRow(t, r) PROVE WordInv'
  <2>1. /\ r \in Existing /\ pc' = [pc EXCEPT ![t] = "write"] /\ saw' = [saw EXCEPT ![t] = r]
        /\ sawAt' = [sawAt EXCEPT ![t] = rowAt[r]] /\ UNCHANGED <<stripeVars, rowVars, inbox, ev, astray>>
    BY <1>8 DEF ReadRow, Go
  <2>2. \A f \in Events : Done(f)' => Done(f)
    BY <1>0, <2>1 DEF Done
  <2>3. ASSUME NEW u \in Tasks, pc'[u] = "write"
        PROVE  saw'[u] \in Existing /\ \E f \in Events : Counts(f) /\ made[f] = sawAt'[u]
    <3>1. CASE u = t
      BY <1>0, <2>1, <3>1 DEF WordInv, Clocks
    <3>2. CASE u # t
      BY <1>0, <2>1, <2>3, <3>2 DEF WordInv, Clocks
    <3> QED
      BY <3>1, <3>2
  <2> QED
    BY <1>0, <2>1, <2>2, <2>3, ReadWord
<1>9. ASSUME NEW t \in Tasks, ReadMany(t) PROVE WordInv'
  BY <1>0, <1>7, <1>9 DEF ReadMany, Reads, Go
<1>10. ASSUME NEW t \in Tasks, ReadNone(t) PROVE WordInv'
  <2>1. WhenMissing(KindOf(t), pc[t]) = "mark" => KindOf(t) = "deleted"
    BY DEF WhenMissing
  <2>2. WhenMissing(KindOf(t), pc[t]) # "write"
    BY DEF WhenMissing
  <2> QED
    BY <1>0, <1>7, <1>10, <2>1, <2>2 DEF ReadNone, Reads, Go
<1>11. ASSUME NEW t \in Tasks, Drop(t) PROVE WordInv'
  <2>1. pc[t] # "again" => ~Counts(ev[t])
    BY <1>11 DEF Drop, HasNothing, Counts, KindOf
  <2> QED
    BY <1>0, <1>7, <1>11, <2>1 DEF Drop, HasNothing, Go, Newest
<1>12. ASSUME NEW t \in Tasks, Ignore(t) PROVE WordInv'
  BY <1>0, <1>7, <1>12, NewestIsApplied DEF Ignore, Go, WordInv
<1>13. ASSUME NEW t \in Tasks, Leave(t), pc[t] # "idle", UNCHANGED <<stripeVars, rowVars, astray>>,
              \/ inbox' = inbox \/ inbox' = [inbox EXCEPT ![ev[t]] = "failed"]
              \/ pc[t] = "mark" /\ inbox' = [inbox EXCEPT ![ev[t]] = "processed"]
       PROVE  WordInv'
  <2>1. /\ pc' = [pc EXCEPT ![t] = "idle"] /\ ev' = [ev EXCEPT ![t] = NoEvent]
        /\ saw' = [saw EXCEPT ![t] = 0] /\ sawAt' = [sawAt EXCEPT ![t] = 0]
    BY <1>13 DEF Leave, Go, Forget
  <2>2. ev[t] \in Events /\ Sent(ev[t])
    BY <1>0, <1>13
  <2>3. \A f \in Events : Done(f)' => Done(f)
    BY <1>0, <1>13, <2>1, <2>2 DEF Done
  <2>4. \A f \in Events : inbox'[f] # "absent" => inbox[f] # "absent" \/ Sent(f)
    BY <1>0, <1>13, <2>2
  <2>5. \A u \in Tasks : pc'[u] = "write" => pc[u] = "write" /\ saw'[u] = saw[u] /\ sawAt'[u] = sawAt[u]
    BY <1>0, <2>1
  <2> QED
    BY <1>0, <1>13, <2>3, <2>4, <2>5, ReadWord DEF WordInv, Clocks
<1>14. ASSUME NEW t \in Tasks, Mark(t) \/ MarkFailed(t) PROVE WordInv'
  BY <1>13, <1>14 DEF Mark, MarkFailed
<1>15. ASSUME NEW t \in Tasks, Dies(t) \/ StatementFails(t) PROVE WordInv'
  BY <1>13, <1>15 DEF Dies, StatementFails, Broken, Reads
<1>16. CASE UNCHANGED vars
  <2>1. Clocks'
    BY <1>16 DEF WordInv, Clocks, Existing, Sent, Counts
  <2>2. LastWord' = LastWord /\ OneRow' = OneRow
    BY <1>16 DEF LastWord, Quiet, Newest, Restricts, Done, Holds, Existing, Sent, Counts, PermitsOf, OneRow
  <2> QED
    BY <1>16, <2>1, <2>2 DEF WordInv
<1>17. ASSUME NEW t \in Tasks, Handle(t) PROVE WordInv'
  BY <1>8, <1>9, <1>10, <1>11, <1>12, <1>14, <1>17, InsertWord, ApplyWord DEF Handle
<1> QED
  BY <1>1, <1>2, <1>3, <1>4, <1>5, <1>6, <1>15, <1>16, <1>17 DEF Next

\* With any number of requests at a time, in any order of delivery and with failures, no
\* access is left that Stripe does not grant, unless a request wrote over what another
\* had written since it read, or an end or change was done with before there was a row:
\* the newest event that counts is never ignored, and nothing older can relax it.
THEOREM NoOvergrant == Spec => []NeverOvergrants
<1>1. TypeInv /\ WordInv => NeverOvergrants
  <2> SUFFICES ASSUME TypeInv, WordInv, ~astray, Settled, ~PermitsOf(real), NEW r \in Rows
               PROVE  rowSt[r] \notin Granting
    BY DEF NeverOvergrants
  <2>1. CASE r \notin Existing
    BY <2>1 DEF Existing, Granting
  <2>2. CASE r \in Existing
    <3>1. PICK e \in Events : Newest(e) /\ (Done(e) => Holds(e))
      BY <2>2 DEF WordInv, LastWord, Quiet
    <3>2. inbox[e] = "processed"
      BY <3>1 DEF Settled, Newest, Counts
    <3> QED
      BY <2>2, <3>1, <3>2 DEF Done, Holds
  <2> QED
    BY <2>1, <2>2
<1>2. TypeInv /\ [Next]_vars => TypeInv'
  BY NextTypeOK, NextBusy DEF TypeInv
<1>3. TypeInv /\ WordInv /\ [Next]_vars => WordInv'
  BY NextWord
<1> QED
  BY InitTypeInv, InitWord, <1>1, <1>2, <1>3, PTL DEF Spec
=============================================================================
