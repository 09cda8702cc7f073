---------------------------- MODULE QuoteSockets ----------------------------
(***************************************************************************)
(* The WebSocket fan-out (api/websocket/manager.py) of the web workers,    *)
(* for one symbol: connections with their identity, subscription and       *)
(* outbound queue, the registry key a worker mirrors its subscriptions to, *)
(* and the alert messages that reach a worker over Redis pub/sub.          *)
(* What a handler does between two awaits is one step.                     *)
(***************************************************************************)
EXTENDS Integers, Sequences, FiniteSets

CONSTANTS
    Workers,     \* web processes
    Sockets,     \* connections, each used once
    Home,        \* Sockets -> the worker that accepted it
    Users,
    NoUser,
    Notes,       \* alert messages
    Recipient,   \* Notes -> the user the message is for
    Frame,       \* any other text: a delta, a snapshot, a ping, an error
    QueueMax,    \* SEND_QUEUE_MAX
    Limits       \* bounds: [starts, visits, mishaps] an execution may use up

ASSUME SocketAssumption ==
    /\ Home \in [Sockets -> Workers]
    /\ Recipient \in [Notes -> Users]
    /\ NoUser \notin Users /\ Frame \notin Notes
    /\ QueueMax \in Nat \ {0}
    /\ \A b \in Limits : b.starts \in Nat /\ b.visits \in Nat /\ b.mishaps \in Nat

VARIABLES
    proc,       \* Workers -> "new", "up", "dead": one life of a process
    listening,  \* Workers -> its pub/sub subscription is
    inbox,      \* Workers -> alert messages published to it
    conn,       \* Sockets -> "new", "open", "closing", "gone": the receive loop
    user,       \* Sockets -> _ws_user; NoUser once pruned
    expired,    \* Sockets -> the token accepted last has expired
    subs,       \* Sockets -> _subscriptions holds the symbol
    indexed,    \* Sockets -> _symbol_subs holds the socket
    queue,      \* Sockets -> its bounded queue
    key,        \* Workers -> ws:subs:<worker>: "none", "empty" or "listed"
    writes,     \* Workers -> the values its SETs in progress are about to write
    starts, visits,
    mishaps,    \* what is left of the bounds; a mishap is a failed send, a lost write or
                \* listener, or the death of a worker
    shown       \* history: <<message, user of the socket>> of every alert that was sent

connVars == <<conn, user, expired, subs, indexed, queue>>
keyVars == <<key, writes>>
busVars == <<proc, listening, inbox>>
limitVars == <<starts, visits, mishaps>>
socketVars == <<busVars, connVars, keyVars, limitVars, shown>>

ConnTypes ==
    /\ conn \in [Sockets -> {"new", "open", "closing", "gone"}]
    /\ user \in [Sockets -> Users \cup {NoUser}]
    /\ expired \in [Sockets -> BOOLEAN] /\ subs \in [Sockets -> BOOLEAN]
    /\ indexed \in [Sockets -> BOOLEAN]
    /\ queue \in [Sockets -> Seq(Notes \cup {Frame})]
    /\ shown \subseteq Notes \X (Users \cup {NoUser})
WorkerTypes ==
    /\ proc \in [Workers -> {"new", "up", "dead"}] /\ listening \in [Workers -> BOOLEAN]
    /\ inbox \in [Workers -> SUBSET Notes]
    /\ key \in [Workers -> {"none", "empty", "listed"}]
    /\ writes \in [Workers -> SUBSET {"empty", "listed"}]
    /\ starts \in Nat /\ visits \in Nat /\ mishaps \in Nat
SocketTypeOK == ConnTypes /\ WorkerTypes

SocketInit(b) ==
    /\ proc = [w \in Workers |-> "new"] /\ listening = [w \in Workers |-> FALSE]
    /\ inbox = [w \in Workers |-> {}]
    /\ conn = [s \in Sockets |-> "new"] /\ user = [s \in Sockets |-> NoUser]
    /\ expired = [s \in Sockets |-> FALSE]
    /\ subs = [s \in Sockets |-> FALSE] /\ indexed = [s \in Sockets |-> FALSE]
    /\ queue = [s \in Sockets |-> << >>]
    /\ key = [w \in Workers |-> "none"] /\ writes = [w \in Workers |-> {}]
    /\ starts = b.starts /\ visits = b.visits /\ mishaps = b.mishaps
    /\ shown = {}

-----------------------------------------------------------------------------
Managed(s) == user[s] # NoUser
Fresh(s) == Managed(s) /\ ~expired[s]

\* _send_text: a full queue gives up its oldest text.
Enqueue(q, text) == Append(IF Len(q) = QueueMax THEN Tail(q) ELSE q, text)

\* _safe_send of a text that is no alert.  A socket without a writer is sent to
\* directly, which leaves no trace here.
Reply(s) == queue' = [queue EXCEPT ![s] = IF Managed(s) THEN Enqueue(@, Frame) ELSE @]

\* _prune_socket of every socket of S: out of every registry, its writer cancelled.
Prune(S) ==
    /\ user' = [s \in Sockets |-> IF s \in S THEN NoUser ELSE user[s]]
    /\ subs' = [s \in Sockets |-> subs[s] /\ s \notin S]
    /\ indexed' = [s \in Sockets |-> indexed[s] /\ s \notin S]
    /\ queue' = [s \in Sockets |-> IF s \in S THEN << >> ELSE queue[s]]
    /\ expired' = [s \in Sockets |-> expired[s] /\ s \notin S]

\* What _mirror_subs writes when the subscriptions are held.
Union(w, held) == IF \E s \in Sockets : Home[s] = w /\ held[s] THEN "listed" ELSE "empty"

\* _mirror_subs computes the union; its SET reaches Redis later (MirrorLands).
Mirror(w, held) == writes' = [writes EXCEPT ![w] = @ \cup {Union(w, held)}]

Up(w) == proc[w] = "up"
Live(s) == Up(Home[s]) /\ conn[s] = "open"

-----------------------------------------------------------------------------
\* start_pubsub_listener, and its first subscription.
WorkerStarts(w) ==
    /\ starts > 0 /\ proc[w] = "new"
    /\ starts' = starts - 1
    /\ proc' = [proc EXCEPT ![w] = "up"]
    /\ listening' = [listening EXCEPT ![w] = TRUE]
    /\ UNCHANGED <<inbox, connVars, keyVars, visits, mishaps, shown>>

(* handle_market_ws. *)

\* The first message carries a valid token.
Connect(s, u) ==
    /\ visits > 0
    /\ Up(Home[s]) /\ conn[s] = "new"
    /\ visits' = visits - 1
    /\ conn' = [conn EXCEPT ![s] = "open"]
    /\ user' = [user EXCEPT ![s] = u]
    /\ UNCHANGED <<busVars, expired, subs, indexed, queue, keyVars, starts, mishaps, shown>>

\* mutant
Reauthenticate_InPlace(s, u) ==
    /\ Live(s)
    /\ user' = [user EXCEPT ![s] = u]
    /\ expired' = [expired EXCEPT ![s] = FALSE]
    /\ Reply(s)
    /\ UNCHANGED <<busVars, conn, subs, indexed, keyVars, limitVars, shown>>

\* {"action": "auth"} later on: a token of the same user renews the socket, any other
\* ends it, also one on a socket the writer has pruned.
Reauthenticate(s, u) ==
    /\ Live(s)
    /\ \/ /\ u = user[s]
          /\ expired' = [expired EXCEPT ![s] = FALSE]
          /\ UNCHANGED conn
       \/ /\ u # user[s]
          /\ conn' = [conn EXCEPT ![s] = "closing"]
          /\ UNCHANGED expired
    /\ Reply(s)
    /\ UNCHANGED <<busVars, user, subs, indexed, keyVars, limitVars, shown>>

\* Any other message on a socket whose token has expired, or that was pruned.
Refuse(s) ==
    /\ Live(s) /\ ~Fresh(s)
    /\ conn' = [conn EXCEPT ![s] = "closing"]
    /\ Reply(s)
    /\ UNCHANGED <<busVars, user, expired, subs, indexed, keyVars, limitVars, shown>>

\* {"action": "subscribe"} with the symbol, answered by a snapshot.
Subscribe(s) ==
    /\ Live(s) /\ Fresh(s)
    /\ subs' = [subs EXCEPT ![s] = TRUE]
    /\ indexed' = [indexed EXCEPT ![s] = TRUE]
    /\ Mirror(Home[s], subs')
    /\ Reply(s)
    /\ UNCHANGED <<busVars, conn, user, expired, key, limitVars, shown>>

\* {"action": "unsubscribe"}, or a subscription to other symbols.
Unsubscribe(s) ==
    /\ Live(s) /\ Fresh(s) /\ subs[s]
    /\ subs' = [subs EXCEPT ![s] = FALSE]
    /\ indexed' = [indexed EXCEPT ![s] = FALSE]
    /\ Mirror(Home[s], subs')
    /\ UNCHANGED <<busVars, conn, user, expired, queue, key, limitVars, shown>>

\* The loop ends, by a close, a timeout or a disconnect: the finally block.
Leave(s) ==
    /\ Up(Home[s]) /\ conn[s] \in {"open", "closing"}
    /\ conn' = [conn EXCEPT ![s] = "gone"]
    /\ Prune({s})
    /\ Mirror(Home[s], subs')
    /\ UNCHANGED <<busVars, key, limitVars, shown>>

TokenExpires(s) ==
    /\ Fresh(s)
    /\ expired' = [expired EXCEPT ![s] = TRUE]
    /\ UNCHANGED <<busVars, conn, user, subs, indexed, queue, keyVars, limitVars, shown>>

-----------------------------------------------------------------------------
(* The writer, the heartbeat and the listener. *)

\* _writer_loop takes the oldest text and sends it.
Send(s) ==
    /\ queue[s] # << >>
    /\ queue' = [queue EXCEPT ![s] = Tail(@)]
    /\ shown' = IF Head(queue[s]) \in Notes
                THEN shown \cup {<<Head(queue[s]), user[s]>>} ELSE shown
    /\ UNCHANGED <<busVars, conn, user, expired, subs, indexed, keyVars, limitVars>>

\* The send fails: the socket is pruned, its receive loop goes on.
SendFails(s) ==
    /\ mishaps > 0
    /\ queue[s] # << >>
    /\ mishaps' = mishaps - 1
    /\ Prune({s})
    /\ UNCHANGED <<busVars, starts, visits, conn, keyVars, shown>>

\* _heartbeat.
Ping(s) ==
    /\ Managed(s)
    /\ Reply(s)
    /\ UNCHANGED <<busVars, conn, user, expired, subs, indexed, keyVars, limitVars, shown>>

\* _dispatch: a quote of the symbol, to every indexed socket with a live token.
Dispatch(w) ==
    LET reached == {s \in Sockets : Home[s] = w /\ indexed[s] /\ Fresh(s)} IN
    /\ Up(w) /\ listening[w]
    /\ reached # {}
    /\ queue' = [s \in Sockets |-> IF s \in reached THEN Enqueue(queue[s], Frame) ELSE queue[s]]
    /\ UNCHANGED <<busVars, conn, user, expired, subs, indexed, keyVars, limitVars, shown>>

\* publish_alert_to_user: Redis hands the message to whoever is subscribed now.
Announce(n) ==
    /\ inbox' = [w \in Workers |-> IF listening[w] THEN inbox[w] \cup {n} ELSE inbox[w]]
    /\ UNCHANGED <<proc, listening, connVars, keyVars, limitVars, shown>>

\* _deliver_alert_local: to the sockets of the user with a live token.
Deliver(w, n) ==
    LET reached == {s \in Sockets : Home[s] = w /\ user[s] = Recipient[n] /\ ~expired[s]} IN
    /\ Up(w) /\ n \in inbox[w]
    /\ inbox' = [inbox EXCEPT ![w] = @ \ {n}]
    /\ queue' = [s \in Sockets |-> IF s \in reached THEN Enqueue(queue[s], n) ELSE queue[s]]
    /\ UNCHANGED <<proc, listening, conn, user, expired, subs, indexed, keyVars, limitVars,
                   shown>>

\* The pub/sub connection drops: what it had not delivered is lost.
ListenerDrops(w) ==
    /\ mishaps > 0
    /\ Up(w) /\ listening[w]
    /\ mishaps' = mishaps - 1
    /\ listening' = [listening EXCEPT ![w] = FALSE]
    /\ inbox' = [inbox EXCEPT ![w] = {}]
    /\ UNCHANGED <<proc, starts, visits, connVars, keyVars, shown>>

\* _listen_loop subscribes again after its backoff.
ListenerReturns(w) ==
    /\ Up(w) /\ ~listening[w]
    /\ listening' = [listening EXCEPT ![w] = TRUE]
    /\ UNCHANGED <<proc, inbox, connVars, keyVars, limitVars, shown>>

-----------------------------------------------------------------------------
(* The registry. *)

\* mutant
MirrorAgain_RefreshesTtl(w) ==
    /\ Up(w)
    /\ UNCHANGED socketVars

\* _subs_mirror_loop, every SUBS_MIRROR_INTERVAL seconds, one write at a time.
MirrorAgain(w) ==
    /\ Up(w)
    /\ Mirror(w, subs)
    /\ UNCHANGED <<busVars, connVars, key, limitVars, shown>>

\* A SET gets to Redis.  Writes of several handlers do so in any order.
MirrorLands(w, v) ==
    /\ v \in writes[w]
    /\ key' = [key EXCEPT ![w] = v]
    /\ writes' = [writes EXCEPT ![w] = @ \ {v}]
    /\ UNCHANGED <<busVars, connVars, limitVars, shown>>

\* Redis does not take it: the exception is swallowed.  When that goes on for
\* SUBS_TTL seconds the key is gone.
MirrorLost(w, v) ==
    /\ mishaps > 0
    /\ v \in writes[w]
    /\ mishaps' = mishaps - 1
    /\ writes' = [writes EXCEPT ![w] = @ \ {v}]
    /\ \E left \in {key[w], "none"} : key' = [key EXCEPT ![w] = left]
    /\ UNCHANGED <<busVars, starts, visits, connVars, shown>>

\* Nobody refreshes the key of a dead worker, and SUBS_TTL runs out.
KeyExpires(w) ==
    /\ proc[w] = "dead" /\ key[w] # "none"
    /\ key' = [key EXCEPT ![w] = "none"]
    /\ UNCHANGED <<busVars, connVars, writes, limitVars, shown>>

\* The process dies with its sockets, its key stays.
WorkerDies(w) ==
    LET its == {s \in Sockets : Home[s] = w} IN
    /\ mishaps > 0
    /\ Up(w)
    /\ mishaps' = mishaps - 1
    /\ proc' = [proc EXCEPT ![w] = "dead"]
    /\ listening' = [listening EXCEPT ![w] = FALSE]
    /\ inbox' = [inbox EXCEPT ![w] = {}]
    /\ conn' = [s \in Sockets |-> IF s \in its THEN "gone" ELSE conn[s]]
    /\ Prune(its)
    /\ writes' = [writes EXCEPT ![w] = {}]
    /\ UNCHANGED <<starts, visits, key, shown>>

\* get_global_subscribed: the symbol is in the union of the keys.
Subscribed == \E w \in Workers : key[w] = "listed"

-----------------------------------------------------------------------------
Handler(s) ==
    \/ \E u \in Users : Connect(s, u) \/ Reauthenticate(s, u)
    \/ Refuse(s) \/ Subscribe(s) \/ Unsubscribe(s) \/ Leave(s) \/ TokenExpires(s)
    \/ Send(s) \/ SendFails(s) \/ Ping(s)

Process(w) ==
    \/ WorkerStarts(w) \/ WorkerDies(w)
    \/ Dispatch(w) \/ (\E n \in inbox[w] : Deliver(w, n))
    \/ ListenerDrops(w) \/ ListenerReturns(w)
    \/ MirrorAgain(w) \/ KeyExpires(w)
    \/ \E v \in writes[w] : MirrorLands(w, v) \/ MirrorLost(w, v)

SocketNext ==
    \/ \E s \in Sockets : Handler(s)
    \/ \E w \in Workers : Process(w)
    \/ \E n \in Notes : Announce(n)

SocketSpec == (\E b \in Limits : SocketInit(b)) /\ [][SocketNext]_socketVars

-----------------------------------------------------------------------------
(* Properties *)

\* A private alert is sent to nobody but its user: a socket that changes its identity
\* is closed, so that "private alerts already queued on the old user's writer cannot
\* cross the authentication boundary" (_reauthenticate).
ShownToOwner == \A m \in shown : m[2] = Recipient[m[1]]

\* What a socket is routed to by has a writer behind it: a pruned socket whose receive
\* loop is still running is not taken in again by a message of its client.
RoutedIsManaged ==
    \A s \in Sockets :
        /\ subs[s] = indexed[s]
        /\ indexed[s] \/ queue[s] # << >> => Managed(s)
=============================================================================
