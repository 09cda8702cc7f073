---------------------------- MODULE StripeWebhook ----------------------------
(***************************************************************************)
(* The Stripe webhook receiver of the FinMind service: what happens to the *)
(* local subscription rows of ONE Stripe subscription when its events are  *)
(* delivered at least once, in any order, and several at a time.           *)
(*                                                                         *)
(* Stripe itself is the environment: a subscription that is created, paid, *)
(* changed and deleted, and emits an event each time.  A step of the       *)
(* receiver is one database statement with its commit.  Signature checks,  *)
(* plans, dates and e-mail addresses are left out.                         *)
(***************************************************************************)
EXTENDS Integers, FiniteSets

CONSTANTS
    Events,       \* event ids Stripe may use
    Tasks,        \* webhook requests that can be in progress at a time
    NoEvent,      \* what an idle task handles
    Kinds,        \* event types Stripe emits
    Outcomes,     \* statuses Stripe gives the subscription in them
    Rows,         \* ids of subscription rows: 1 .. a bound
    Faults,       \* what may fail: see AllFaults
    MaxBreaks,    \* bound on the failures
    MaxNow        \* bound on Stripe's clock, in seconds

AllKinds == {"created", "updated", "deleted", "paid", "failed"}
StripeStatuses == {"none", "trialing", "incomplete", "incomplete_expired", "active",
                   "past_due", "unpaid", "paused", "canceled"}
\* A process may die; a statement of a handler may fail.
AllFaults == {"crash", "db"}
ASSUME SizesAssumption ==
    /\ NoEvent \notin Events
    /\ Kinds \subseteq AllKinds /\ Outcomes \subseteq StripeStatuses \ {"none", "canceled"}
    /\ Rows \subseteq Nat /\ Rows # {}
    /\ Faults \subseteq AllFaults /\ MaxBreaks \in Nat /\ MaxNow \in Nat

VARIABLES
    \* Stripe: the subscription's status, the clock, and each event sent; bare
    \* are those without an e-mail or plan, and invoices of no subscription
    real, now, kind, made, says, bare,
    \* payment_events: the row of each event
    inbox,
    \* subscriptions: status and last_external_event_created_at of each row
    rowSt, rowAt,
    \* each webhook request: where it is, its event, the row it read
    pc, ev, saw, sawSt, sawAt,
    breaks,
    \* history: a write rested on a reading that another request had overtaken,
    \* or an end or a change of the subscription found no row to be kept in
    astray

stripeVars == <<real, now, kind, made, says, bare>>
rowVars  == <<rowSt, rowAt>>
sawVars  == <<saw, sawSt, sawAt>>
taskVars == <<pc, ev, sawVars>>
vars == <<stripeVars, inbox, rowVars, taskVars, breaks, astray>>

Statuses == {"pending", "trial", "active", "past_due", "paused", "canceled", "expired"}
Granting == {"trial", "active"}
InboxStates == {"absent", "processing", "failed", "processed"}

LocalStatus_Open(s) ==                                    \* mutant
    IF s \in {"past_due", "canceled"} THEN s
    ELSE IF s = "trialing" THEN "trial" ELSE "active"
\* _subscription_status: what Stripe says, fail-closed.
LocalStatus(s) ==
    CASE s = "trialing" -> "trial"
      [] s = "unpaid" -> "past_due"
      [] s = "incomplete_expired" -> "expired"
      [] s \in {"active", "past_due", "paused", "canceled"} -> s
      [] OTHER -> "pending"

Sent(e) == kind[e] # "unsent"
Existing_Live == {r \in Rows : rowSt[r] \notin {"none", "canceled"}}   \* mutant
Existing == {r \in Rows : rowSt[r] # "none"}

Init ==
    /\ real = "none" /\ now = 0
    /\ kind = [e \in Events |-> "unsent"] /\ made = [e \in Events |-> 0]
    /\ says = [e \in Events |-> "none"] /\ bare = {}
    /\ inbox = [e \in Events |-> "absent"]
    /\ rowSt = [r \in Rows |-> "none"] /\ rowAt = [r \in Rows |-> 0]
    /\ pc = [t \in Tasks |-> "idle"] /\ ev = [t \in Tasks |-> NoEvent]
    /\ saw = [t \in Tasks |-> 0] /\ sawSt = [t \in Tasks |-> "none"]
    /\ sawAt = [t \in Tasks |-> 0]
    /\ breaks = 0 /\ astray = FALSE

-----------------------------------------------------------------------------
(* Stripe.                                                                 *)

\* An event of kind k, made now, that carries status s; b if it is bare.
Emit(e, k, s, b) ==
    /\ k \in Kinds /\ ~Sent(e)
    /\ kind' = [kind EXCEPT ![e] = k]
    /\ made' = [made EXCEPT ![e] = now]
    /\ says' = [says EXCEPT ![e] = s]
    /\ bare' = IF b THEN bare \cup {e} ELSE bare
    /\ UNCHANGED <<now, inbox, rowVars, taskVars, breaks, astray>>

Creates(e, s, b) ==
    /\ real = "none" /\ s \in Outcomes \cap {"incomplete", "trialing", "active"}
    /\ real' = s
    /\ Emit(e, "created", s, b)
Ended == {"none", "incomplete_expired", "canceled"}
\* Any change of the subscription, or none that the receiver keeps.
Changes(e, s, b) ==
    /\ real \notin Ended
    /\ s \in Outcomes \cap {"incomplete_expired", "active", "past_due", "unpaid", "paused", real}
    /\ s = "incomplete_expired" => real = "incomplete"
    /\ real' = s
    /\ Emit(e, "updated", s, b)
Pays(e) ==
    /\ real \in {"incomplete", "trialing", "active", "past_due", "unpaid"}
    /\ real' = "active"
    /\ Emit(e, "paid", "none", FALSE)
PaymentFails(e) ==
    /\ real \in {"incomplete", "active", "past_due"}
    /\ real' = IF real = "incomplete" THEN real ELSE "past_due"
    /\ Emit(e, "failed", "none", FALSE)
Deletes(e) ==
    /\ real \notin Ended
    /\ real' = "canceled"
    /\ Emit(e, "deleted", "none", FALSE)
\* An invoice that belongs to no subscription.
OneOff(e, k) ==
    /\ k \in {"paid", "failed"}
    /\ real' = real
    /\ Emit(e, k, "none", TRUE)
Clock ==
    /\ now < MaxNow
    /\ now' = now + 1
    /\ UNCHANGED <<real, kind, made, says, bare, inbox, rowVars, taskVars, breaks, astray>>

-----------------------------------------------------------------------------
(* process_event.                                                          *)

Go(t, p) == pc' = [pc EXCEPT ![t] = p]
Forget(t) ==
    /\ saw' = [saw EXCEPT ![t] = 0]
    /\ sawSt' = [sawSt EXCEPT ![t] = "none"]
    /\ sawAt' = [sawAt EXCEPT ![t] = 0]
Leave(t) ==
    /\ Go(t, "idle")
    /\ ev' = [ev EXCEPT ![t] = NoEvent]
    /\ Forget(t)

Unclaimed_Any(e) == inbox[e] # "processing"                 \* mutant
\* ON CONFLICT DO NOTHING on the unique key (provider, event_id).
Unclaimed(e) == inbox[e] = "absent"
\* _record_event: a new event is claimed ...
Deliver(t, e) ==
    /\ pc[t] = "idle" /\ Sent(e)
    /\ Unclaimed(e)
    /\ inbox' = [inbox EXCEPT ![e] = "processing"]
    /\ Go(t, "read")
    /\ ev' = [ev EXCEPT ![t] = e]
    /\ UNCHANGED <<stripeVars, rowVars, sawVars, breaks, astray>>
Retryable_Never(e) == FALSE                                 \* mutant
Retryable(e) == inbox[e] = "failed"
\* ... one whose handler failed is taken again.  One that is being processed is
\* answered 500 and one that was processed 200: nothing changes.
Redeliver(t, e) ==
    /\ pc[t] = "idle" /\ Sent(e)
    /\ Retryable(e)
    /\ Go(t, "read")
    /\ ev' = [ev EXCEPT ![t] = e]
    /\ UNCHANGED <<stripeVars, inbox, rowVars, sawVars, breaks, astray>>

KindOf(t) == kind[ev[t]]
Upserts(k) == k \in {"created", "updated"}

\* "missing email / plan_code / id" and "invoice not tied to a subscription": the
\* handler returns before it reads, and the event counts as processed.  An update
\* gets there only when it has found no row.
HasNothing(t) ==
    /\ ev[t] \in bare
    /\ pc[t] = "again" \/ (pc[t] = "read" /\ KindOf(t) # "updated")
Drop(t) ==
    /\ HasNothing(t)
    /\ Go(t, "mark")
    /\ astray' = (astray \/ pc[t] = "again")
    /\ UNCHANGED <<stripeVars, inbox, rowVars, ev, sawVars, breaks>>
Reads(t) == pc[t] \in {"read", "again"} /\ ~HasNothing(t)

\* The handler reads the subscription: with scalar_one_or_none where it may
\* insert, with scalar, which takes the first row, elsewhere.
ReadRow(t, r) ==
    /\ Reads(t)
    /\ r \in Existing
    /\ Upserts(KindOf(t)) => Existing = {r}
    /\ saw' = [saw EXCEPT ![t] = r]
    /\ sawSt' = [sawSt EXCEPT ![t] = rowSt[r]]
    /\ sawAt' = [sawAt EXCEPT ![t] = rowAt[r]]
    /\ Go(t, "write")
    /\ UNCHANGED <<stripeVars, inbox, rowVars, ev, breaks, astray>>
\* scalar_one_or_none raises on two rows.
ReadMany(t) ==
    /\ Reads(t) /\ Upserts(KindOf(t))
    /\ Cardinality(Existing) > 1
    /\ Go(t, "fail")
    /\ UNCHANGED <<stripeVars, inbox, rowVars, ev, sawVars, breaks, astray>>
\* No row: "updated" falls back to the handler of "created", which reads again;
\* a deletion is done; an invoice raises.
WhenMissing(k, p) == CASE k = "created" -> "insert"
                       [] k = "updated" -> IF p = "read" THEN "again" ELSE "insert"
                       [] k = "deleted" -> "mark"
                       [] OTHER -> "fail"
ReadNone(t) ==
    /\ Reads(t) /\ Existing = {}
    /\ Go(t, WhenMissing(KindOf(t), pc[t]))
    /\ astray' = (astray \/ KindOf(t) = "deleted")
    /\ UNCHANGED <<stripeVars, inbox, rowVars, ev, sawVars, breaks>>

\* INSERT: nothing in the schema forbids a second row of the same subscription.
Insert(t, r) ==
    /\ pc[t] = "insert"
    /\ r \in Rows \ Existing
    /\ rowSt' = [rowSt EXCEPT ![r] = LocalStatus(says[ev[t]])]
    /\ rowAt' = [rowAt EXCEPT ![r] = made[ev[t]]]
    /\ Go(t, "mark")
    /\ astray' = (astray \/ Existing # {})
    /\ UNCHANGED <<stripeVars, inbox, ev, sawVars, breaks>>

NewStatus(t) ==
    LET k == KindOf(t) IN
    CASE Upserts(k) -> LocalStatus(says[ev[t]])
      [] k = "deleted" -> "canceled"
      [] k = "failed" -> IF sawSt[t] = "pending" THEN "pending" ELSE "past_due"
      [] OTHER -> "active"

IsStale_Never(t) == FALSE                                 \* mutant
\* _event_is_stale.
IsStale(t) == made[ev[t]] < sawAt[t]
Relaxes_Never(t) == FALSE                                 \* mutant
\* _event_would_relax_same_second.
Relaxes(t) == /\ made[ev[t]] = sawAt[t]
              /\ sawSt[t] \notin Granting /\ NewStatus(t) \in Granting
Ignores(t) ==
    \/ IsStale(t) \/ Relaxes(t)
    \/ KindOf(t) = "paid" /\ sawSt[t] \in {"canceled", "expired", "paused"}

Ignore(t) ==
    /\ pc[t] = "write" /\ Ignores(t)
    /\ Go(t, "mark")
    /\ UNCHANGED <<stripeVars, inbox, rowVars, ev, sawVars, breaks, astray>>
\* The ORM writes the columns that differ from what was read.
Apply(t) ==
    /\ pc[t] = "write" /\ ~Ignores(t)
    /\ rowSt' = [rowSt EXCEPT ![saw[t]] = IF NewStatus(t) = sawSt[t] THEN @ ELSE NewStatus(t)]
    /\ rowAt' = [rowAt EXCEPT ![saw[t]] = IF made[ev[t]] = sawAt[t] THEN @ ELSE made[ev[t]]]
    /\ Go(t, "mark")
    /\ astray' = (astray \/ rowSt[saw[t]] # sawSt[t] \/ rowAt[saw[t]] # sawAt[t])
    /\ UNCHANGED <<stripeVars, inbox, ev, sawVars, breaks>>

\* _mark_processed, in a transaction of its own.
Mark(t) ==
    /\ pc[t] = "mark"
    /\ inbox' = [inbox EXCEPT ![ev[t]] = "processed"]
    /\ Leave(t)
    /\ UNCHANGED <<stripeVars, rowVars, breaks, astray>>
\* The handler raised: processed_at is cleared and the error kept.
MarkFailed(t) ==
    /\ pc[t] = "fail"
    /\ inbox' = [inbox EXCEPT ![ev[t]] = "failed"]
    /\ Leave(t)
    /\ UNCHANGED <<stripeVars, rowVars, breaks, astray>>

Broken(t) ==
    /\ breaks < MaxBreaks
    /\ breaks' = breaks + 1
    /\ Leave(t)
    /\ UNCHANGED <<stripeVars, inbox, rowVars, astray>>
\* The process dies, or the marking fails.
Dies(t) == "crash" \in Faults /\ pc[t] # "idle" /\ Broken(t)
\* A statement of the handler fails: _mark_processed fails too, in a session whose
\* transaction nobody has rolled back, and the error is not recorded.
StatementFails(t) ==
    /\ "db" \in Faults
    /\ Reads(t) \/ pc[t] = "insert" \/ (pc[t] = "write" /\ ~Ignores(t))
    /\ Broken(t)

Handle(t) ==
    \/ \E r \in Rows : ReadRow(t, r) \/ Insert(t, r)
    \/ Drop(t) \/ ReadMany(t) \/ ReadNone(t)
    \/ Ignore(t) \/ Apply(t) \/ Mark(t) \/ MarkFailed(t)

Next ==
    \/ \E e \in Events, s \in StripeStatuses, b \in BOOLEAN : Creates(e, s, b) \/ Changes(e, s, b)
    \/ \E e \in Events : Pays(e) \/ PaymentFails(e) \/ Deletes(e)
    \/ \E e \in Events, k \in Kinds : OneOff(e, k)
    \/ Clock
    \/ \E t \in Tasks, e \in Events : Deliver(t, e) \/ Redeliver(t, e)
    \/ \E t \in Tasks : Handle(t) \/ Dies(t) \/ StatementFails(t)

Spec == Init /\ [][Next]_vars

\* A request goes on, and Stripe delivers an event again and again until it is
\* acknowledged.  Stripe does not have to do anything else.
Fairness ==
    /\ \A t \in Tasks : WF_vars(Handle(t))
    /\ \A e \in Events : SF_vars(\E t \in Tasks : Deliver(t, e) \/ Redeliver(t, e))
FairSpec == Spec /\ Fairness

-----------------------------------------------------------------------------
(* Properties.                                                             *)

\* Every variable keeps its type.
TypeOK ==
    /\ real \in StripeStatuses /\ now \in Nat
    /\ kind \in [Events -> AllKinds \cup {"unsent"}] /\ made \in [Events -> Nat]
    /\ says \in [Events -> StripeStatuses] /\ bare \in SUBSET Events
    /\ inbox \in [Events -> InboxStates]
    /\ rowSt \in [Rows -> Statuses \cup {"none"}] /\ rowAt \in [Rows -> Nat]
    /\ pc \in [Tasks -> {"idle", "read", "again", "insert", "write", "mark", "fail"}]
    /\ ev \in [Tasks -> Events \cup {NoEvent}]
    /\ saw \in [Tasks -> Rows \cup {0}] /\ sawSt \in [Tasks -> Statuses \cup {"none"}]
    /\ sawAt \in [Tasks -> Nat]
    /\ breaks \in Nat /\ astray \in BOOLEAN

\* Access is granted only after an event of this subscription that grants it, also
\* when handlers interleave: a status the receiver does not know maps to "pending",
\* "instead of optimistically enabling a subscription" (_subscription_status).
PermitsOf(s) == s \in {"trialing", "active"}
GrantJustified ==
    \A r \in Rows : rowSt[r] \in Granting =>
        \E e \in Events : \/ kind[e] = "paid" /\ e \notin bare
                          \/ Upserts(kind[e]) /\ PermitsOf(says[e])

\* "Same external_sub_id = same row" (comment in the created handler), through crashes
\* between the row's commit and the event's, and through redeliveries.
OneRow == \A r, q \in Rows : rowSt[r] # "none" /\ rowSt[q] # "none" => r = q

\* Until its handler has failed once, an event is handled by one request at most,
\* however often Stripe delivers it meanwhile (test of redelivery: the same event_id
\* "must NOT double-process").
HandledOnce ==
    \A t, u \in Tasks : t # u /\ pc[t] # "idle" /\ pc[u] # "idle" /\ ev[t] = ev[u] =>
        inbox[ev[t]] \in {"failed", "processed"}

\* When everything Stripe sent is processed, access is not granted locally to a
\* subscription that Stripe does not grant: whatever the order of delivery, the
\* restricting event is not overtaken by an older or a simultaneous one.  Nothing
\* takes a lock, so this needs that no request has written over what another wrote
\* since it read, and that no end of the subscription came before its first row.
Settled == /\ \A e \in Events : Sent(e) => inbox[e] = "processed"
           /\ \A t \in Tasks : pc[t] = "idle"
NeverOvergrants ==
    ~astray /\ Settled /\ ~PermitsOf(real) => \A r \in Rows : rowSt[r] \notin Granting

\* "A prior handler failure remains retryable because Stripe redelivery is how
\* out-of-order subscription events recover" (_record_event): once the subscription
\* is known, an event whose handler failed is processed in the end, though the
\* process may die in a retry.
FailedRecovers ==
    \A e \in Events : inbox[e] = "failed" /\ Existing # {} ~> inbox[e] = "processed"

\* The same promise for an event of any kind at any failure: it is processed in the
\* end.  A failed statement leaves the session unusable for _mark_processed, and the
\* event is "already being processed" for ever.
EventProcessed == \A e \in Events : Sent(e) /\ Existing # {} ~> inbox[e] = "processed"
=============================================================================
