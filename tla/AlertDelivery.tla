--------------------------- MODULE AlertDelivery ---------------------------
(***************************************************************************)
(* Price alerts and the WebSocket fan-out together.  The two meet in both  *)
(* directions: a refresh job polls a symbol only while the registry names  *)
(* it, and a firing is published to the workers after it was committed.    *)
(***************************************************************************)
EXTENDS PriceAlerts, QuoteSockets

CONSTANT Owns   \* Alerts -> price_alerts.user_id

ASSUME DeliveryAssumption ==
    /\ Owns \in [Alerts -> Users]
    /\ Notes = Alerts \X (1 .. MaxFirings)
    /\ Recipient = [n \in Notes |-> Owns[n[1]]]
    /\ Limits = Budgets

VARIABLE elsewhere   \* another worker, outside the model, keeps the symbol subscribed

vars == <<alertVars, socketVars, elsewhere>>

\* One choice of bounds for the two.
Init ==
    \E b \in Budgets : /\ AlertInit(b) /\ SocketInit(b)
                      /\ elsewhere = b.elsewhere

\* The job reads the registry (get_global_subscribed) before it asks for a quote.
PollSubscribed(t) == (Subscribed \/ elsewhere) /\ Poll(t) /\ UNCHANGED <<socketVars, elsewhere>>

\* notify_user: the WebSocket transport publishes, or fails and is passed over.
NotifyUser(j, n) ==
    /\ Notify(j, n)
    /\ Announce(n) \/ UNCHANGED socketVars
    /\ UNCHANGED elsewhere

Next ==
    \/ (Owner \/ Evaluate \/ \E j \in Jobs : JobFails(j)) /\ UNCHANGED <<socketVars, elsewhere>>
    \/ \E t \in Ticks : PollSubscribed(t)
    \/ \E j \in Jobs : \E n \in outbox[j] : NotifyUser(j, n)
    \/ \E s \in Sockets : Handler(s) /\ UNCHANGED <<alertVars, elsewhere>>
    \/ \E w \in Workers : Process(w) /\ UNCHANGED <<alertVars, elsewhere>>

\* The mirror loop never ends while its process lives, and a write reaches Redis or
\* fails.  Nothing is asked of clients, owners and jobs.
Fairness ==
    \A w \in Workers : /\ WF_socketVars(MirrorAgain(w))
                       /\ \A v \in {"empty", "listed"} : WF_socketVars(MirrorLands(w, v))

Spec == Init /\ [][Next]_vars /\ Fairness

-----------------------------------------------------------------------------
(* Properties *)

\* What a client is shown is the record of a firing that was committed, and its own:
\* notifications are dispatched after the commit, to the sockets of the user, and a
\* message waits in a queue while its socket changes hands.
ShownIsRecorded ==
    /\ ShownToOwner
    /\ \A m \in shown : m[1][2] <= fired[m[1][1]]

\* While a client stays subscribed its symbol comes to be polled and stays so, though
\* writes of the registry overtake each other and some are lost: the mirror loop
\* writes the union anew.
SubscriptionIsPolled ==
    \A s \in Sockets : <>[]subs[s] => <>[](key[Home[s]] = "listed")
=============================================================================
