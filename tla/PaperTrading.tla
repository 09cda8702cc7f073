----------------------------- MODULE PaperTrading -----------------------------
(***************************************************************************)
(* The paper orders of one portfolio in one symbol: submission with its    *)
(* reservation of cash or shares, fills by hand and by quote, cancellation, *)
(* expiry, the kill switch, and the owner's own trades and cash movements. *)
(*                                                                         *)
(* HTTP requests and the matching job run as database transactions that    *)
(* first take the portfolio's row FOR UPDATE; only cash entries do not.    *)
(* A transaction is two steps here: it takes the lock and reads, and it    *)
(* commits what follows from what it has read.  A request that is refused, *)
(* repeated or broken off leaves without changing anything.                *)
(***************************************************************************)
EXTENDS Integers, Sequences, FiniteSets, FiniteSetsExt

CONSTANTS
    Requests,    \* HTTP requests that can be in progress at a time
    Jobs,        \* runs of match_open_paper_orders, likewise
    NoTask,      \* nobody has the portfolio's row
    NoBook,      \* a transaction that has read nothing
    Orders,      \* idempotency keys of submissions
    Terms,       \* what an order may ask for
    NoTerms,     \* the terms of an order that was not submitted
    Quotes,      \* quote snapshots
    NoQuote,     \* a fill by hand
    Keys,        \* idempotency keys of fills by hand
    Prices,      \* prices of fills by hand
    Caps,        \* values of max_open_orders
    Unit, Fee,   \* fee_bps is Fee / Unit; cash is counted in 1 / Unit
    Slip,        \* slippage of a quote
    Cash, Held,  \* opening balances
    Amounts,     \* manual cash entries
    MaxMoves,    \* bound on own trades, cash entries, crashes and openings
    Batch        \* BATCH_SIZE

Tasks == Requests \cup Jobs
Sizes == {x.qty : x \in Terms}

ASSUME TasksAssumption ==
    /\ NoTask \notin Tasks /\ Requests \cap Jobs = {} /\ IsFiniteSet(Orders)
    /\ NoQuote \notin Quotes /\ NoTerms \notin Terms /\ Keys \cap Quotes = {}
ASSUME SizesAssumption ==
    /\ Terms \subseteq [side : {"buy", "sell"}, kind : {"market", "limit"},
                        tif : {"day", "gtc"}, qty : Nat \ {0}, price : Nat \ {0}]
    /\ Quotes \subseteq [ts : Nat, price : Nat \ {0}, size : Nat \ {0}]
    /\ Prices \subseteq Nat \ {0} /\ Caps \subseteq Nat /\ Amounts \subseteq Int
    /\ Unit \in Nat \ {0} /\ Fee \in 0..Unit /\ Slip \in Nat
    /\ \A m \in Quotes : m.price > Slip
    /\ Cash \in Int /\ Held \in Nat /\ MaxMoves \in Nat /\ Batch \in Nat

VARIABLES
    \* the ledger: cash balance and holding
    cash, held,
    \* paper_orders: status, terms, filled_quantity; the orders in order of
    \* creation; the orders whose expires_at has passed; paper_fills
    status, terms, done, book, due, fills,
    \* paper_risk_policies: trading_enabled and max_open_orders
    on, cap,
    \* the market's session
    open,
    \* the portfolio's row lock; what each transaction has read under it
    lock, sawBook, sawCash,
    \* each task: "off", "wait" (for the lock) or "in" (a transaction); the time
    \* it took when it began, the candidates it has left and its cached quote
    pc, clock,
    \* history: cash and shares that the owner took out by hand, and how often
    \* something of this kind or a crash has happened
    outCash, outShares, moves

ledgerVars == <<cash, held>>
orderVars == <<status, terms, done, book, fills>>
policyVars == <<on, cap>>
marketVars == <<open, due>>
readVars == <<sawBook, sawCash>>
handVars == <<outCash, outShares, moves>>
vars == <<ledgerVars, orderVars, policyVars, marketVars, lock, readVars, pc, clock,
          handVars>>

Open == {"pending", "partially_filled"}
Final == {"filled", "cancelled", "expired"}

\* What a transaction reads of the rows it locks.
Book == [held |-> held, on |-> on, cap |-> cap, status |-> status, done |-> done,
         terms |-> terms, fills |-> fills]
OpenIn(b) == {o \in Orders : b.status[o] \in Open}
Remaining(b, o) == b.terms[o].qty - b.done[o]
OpenSide(b, s) == {o \in OpenIn(b) : b.terms[o].side = s}

\* quantity * price * (1 + fee).
Cost(q, p) == q * p * (Unit + Fee)
\* _buy_reservation of q shares of order o.
Reservation(b, o, q) == Cost(q, b.terms[o].price)
\* What the open buy and sell orders but x have reserved.
ReservedCash(b, x) ==
    MapThenSumSet(LAMBDA o : Reservation(b, o, Remaining(b, o)), OpenSide(b, "buy") \ x)
ReservedShares(b, x) ==
    MapThenSumSet(LAMBDA o : Remaining(b, o), OpenSide(b, "sell") \ x)

NoClock == [due |-> {}, open |-> FALSE, left |-> <<>>, quote |-> NoQuote]

Init ==
    /\ cash = Cash /\ held = Held
    /\ status = [o \in Orders |-> "none"] /\ terms = [o \in Orders |-> NoTerms]
    /\ done = [o \in Orders |-> 0] /\ book = <<>> /\ due = {} /\ fills = {}
    /\ on = TRUE /\ cap \in Caps /\ open \in BOOLEAN
    /\ lock = NoTask /\ sawBook = [t \in Tasks |-> NoBook]
    /\ sawCash = [t \in Tasks |-> 0]
    /\ pc = [t \in Tasks |-> "off"]
    /\ clock = [t \in Tasks |-> NoClock]
    /\ outCash = 0 /\ outShares = 0 /\ moves = 0

-----------------------------------------------------------------------------
(* Tasks and transactions.                                                 *)

\* The candidates of _candidate_rows: the oldest Batch open orders.
Candidates ==
    LET oldest == SelectSeq(book, LAMBDA o : status[o] \in Open)
    IN  SubSeq(oldest, 1, IF Len(oldest) < Batch THEN Len(oldest) ELSE Batch)

\* A request arrives, or a run of the job begins: execution_time is taken now,
\* before any lock.  The job fetches the quote of its symbol once.
Arrive(t, m) ==
    /\ pc[t] = "off" /\ (t \in Jobs) = (m \in Quotes)
    /\ pc' = [pc EXCEPT ![t] = "wait"]
    /\ clock' = [clock EXCEPT ![t] =
           [due |-> due, open |-> open, quote |-> m,
            left |-> IF t \in Jobs THEN Candidates ELSE <<>>]]
    /\ UNCHANGED <<ledgerVars, orderVars, policyVars, marketVars, lock, readVars,
                   handVars>>

Expired_InSession(t, o) == o \in clock[t].due /\ clock[t].open   \* mutant
Expired(t, o) == o \in clock[t].due
\* The job opens a transaction for a candidate that has expired or whose market
\* is open.
Eligible(t) ==
    t \in Requests
    \/ (clock[t].left # <<>> /\ (Expired(t, Head(clock[t].left)) \/ clock[t].open))
Begin_NoLock(t) ==                                       \* mutant
    /\ pc[t] = "wait" /\ Eligible(t)
    /\ sawBook' = [sawBook EXCEPT ![t] = Book]
    /\ sawCash' = [sawCash EXCEPT ![t] = cash]
    /\ pc' = [pc EXCEPT ![t] = "in"]
    /\ UNCHANGED <<ledgerVars, orderVars, policyVars, marketVars, lock, clock, handVars>>
\* _owned_portfolio_locked, and the reads that follow.
Begin(t) ==
    /\ pc[t] = "wait" /\ lock = NoTask /\ Eligible(t)
    /\ lock' = t
    /\ sawBook' = [sawBook EXCEPT ![t] = Book]
    /\ sawCash' = [sawCash EXCEPT ![t] = cash]
    /\ pc' = [pc EXCEPT ![t] = "in"]
    /\ UNCHANGED <<ledgerVars, orderVars, policyVars, marketVars, clock, handVars>>

\* The job passes over a candidate: its market is closed, or there is no quote.
Skip(t) ==
    /\ t \in Jobs /\ pc[t] = "wait" /\ clock[t].left # <<>>
    /\ ~Expired(t, Head(clock[t].left))
    /\ clock' = [clock EXCEPT ![t].left = Tail(@)]
    /\ UNCHANGED <<ledgerVars, orderVars, policyVars, marketVars, lock, readVars, pc,
                   handVars>>

\* The transaction ends: a request is answered, the job goes on to the next
\* candidate at the same execution_time.
End(t) ==
    /\ pc[t] = "in"
    /\ lock' = NoTask
    /\ sawBook' = [sawBook EXCEPT ![t] = NoBook]
    /\ sawCash' = [sawCash EXCEPT ![t] = 0]
    /\ pc' = [pc EXCEPT ![t] = IF t \in Jobs THEN "wait" ELSE "off"]
    /\ clock' = [clock EXCEPT ![t] = IF t \in Jobs THEN [@ EXCEPT !.left = Tail(@)]
                                                   ELSE NoClock]

\* Refused, a repetition of what was already done, or rolled back.
Leave(t) ==
    /\ End(t)
    /\ UNCHANGED <<ledgerVars, orderVars, policyVars, marketVars, handVars>>

\* The run of the job is over.
JobEnds(t) ==
    /\ t \in Jobs /\ pc[t] = "wait" /\ clock[t].left = <<>>
    /\ pc' = [pc EXCEPT ![t] = "off"]
    /\ clock' = [clock EXCEPT ![t] = NoClock]
    /\ UNCHANGED <<ledgerVars, orderVars, policyVars, marketVars, lock, readVars,
                   handVars>>

\* The process dies: its transaction is rolled back and its locks are freed.
Dies(t) ==
    /\ pc[t] # "off" /\ moves < MaxMoves
    /\ moves' = moves + 1
    /\ lock' = IF lock = t THEN NoTask ELSE lock
    /\ sawBook' = [sawBook EXCEPT ![t] = NoBook]
    /\ sawCash' = [sawCash EXCEPT ![t] = 0]
    /\ pc' = [pc EXCEPT ![t] = "off"]
    /\ clock' = [clock EXCEPT ![t] = NoClock]
    /\ UNCHANGED <<ledgerVars, orderVars, policyVars, marketVars, outCash, outShares>>

-----------------------------------------------------------------------------
(* The orders.                                                             *)

AvailableCash_Whole(t, x) == sawCash[t]                      \* mutant
AvailableCash(t, x) == sawCash[t] - ReservedCash(sawBook[t], x)
AvailableShares(t, x) == sawBook[t].held - ReservedShares(sawBook[t], x)

\* max_open_orders.
UnderCap(b) == Cardinality(OpenIn(b)) < b.cap

\* submit_order: o is the idempotency key.
Submit(t, o, x) ==
    LET b == sawBook[t]
    IN  /\ t \in Requests /\ End(t)
        /\ b.status[o] = "none" /\ b.on /\ UnderCap(b)
        /\ x.side = "buy" => Cost(x.qty, x.price) <= AvailableCash(t, {})
        /\ x.side = "sell" => x.qty <= AvailableShares(t, {})
        /\ status' = [status EXCEPT ![o] = "pending"]
        /\ terms' = [terms EXCEPT ![o] = x]
        /\ book' = Append(book, o)
        /\ UNCHANGED <<ledgerVars, done, fills, policyVars, marketVars, handVars>>

\* A limit order never fills at a worse price than its limit.
WithinLimit(x, p) ==
    x.kind = "limit" => IF x.side = "buy" THEN p <= x.price ELSE p >= x.price

StatusAfter(x, n) == IF n >= x.qty THEN "filled" ELSE "partially_filled"

\* fill_order: q shares of o at price p, with its transaction, its cash entries
\* and the holding.
FillOrder(t, o, k, m, q, p) ==
    LET b == sawBook[t]
        x == b.terms[o]
    IN  /\ End(t)
        /\ b.status[o] \in Open /\ b.on
        /\ ~\E f \in b.fills : f.order = o /\ f.key = k
        /\ q <= Remaining(b, o) /\ WithinLimit(x, p)
        /\ x.side = "buy" => Cost(q, p) + Reservation(b, o, Remaining(b, o) - q)
                                <= AvailableCash(t, {o})
        /\ x.side = "sell" => q <= AvailableShares(t, {o})
        /\ IF x.side = "buy"
           THEN cash' = cash - Cost(q, p) /\ held' = held + q
           ELSE cash' = cash + q * p * (Unit - Fee) /\ held' = held - q
        /\ done' = [done EXCEPT ![o] = b.done[o] + q]
        /\ status' = [status EXCEPT ![o] = StatusAfter(x, b.done[o] + q)]
        /\ fills' = fills \cup {[order |-> o, key |-> k, quote |-> m, qty |-> q]}
        /\ UNCHANGED <<terms, book, policyVars, marketVars, handVars>>

\* POST /fills: neither the market's session nor the order's expiry is asked.
ManualFill(t, o, k, q, p) == t \in Requests /\ FillOrder(t, o, k, NoQuote, q, p)

QuoteKey_Anew(m, n) == [m EXCEPT !.ts = @ + 100 * (n + 1)]   \* mutant
\* quote_identity of quote m, whatever (n) the order has been filled before.
QuoteKey(m, n) == m
\* executable_price.
Executable(x, m) == WithinLimit(x, m.price)
\* The slipped price, clipped to the limit.
SlippedPrice(x, m) ==
    LET p == m.price + (IF x.side = "buy" THEN Slip ELSE -Slip)
    IN  IF WithinLimit(x, p) THEN p ELSE x.price

\* The order a task is about: any for a request, the next candidate for the job.
About(t, o) == t \in Jobs => o = Head(clock[t].left)

\* match_order that fills, at the time and quote the task began with.
Match(t, o, m) ==
    LET b == sawBook[t]
        x == b.terms[o]
    IN  /\ pc[t] = "in" /\ About(t, o) /\ (t \in Jobs => m = clock[t].quote)
        /\ b.status[o] \in Open /\ ~Expired(t, o) /\ clock[t].open
        /\ Executable(x, m)
        /\ FillOrder(t, o, QuoteKey(m, b.done[o]), m,
                     IF Remaining(b, o) < m.size THEN Remaining(b, o) ELSE m.size,
                     SlippedPrice(x, m))

\* match_order that finds the order expired.
Expire(t, o) ==
    /\ End(t) /\ About(t, o)
    /\ sawBook[t].status[o] \in Open /\ Expired(t, o)
    /\ status' = [status EXCEPT ![o] = "expired"]
    /\ UNCHANGED <<ledgerVars, terms, done, book, fills, policyVars, marketVars, handVars>>

\* cancel_order.
Cancel(t, o) ==
    /\ t \in Requests /\ End(t)
    /\ sawBook[t].status[o] \in Open
    /\ status' = [status EXCEPT ![o] = "cancelled"]
    /\ UNCHANGED <<ledgerVars, terms, done, book, fills, policyVars, marketVars, handVars>>

SwitchedOff_Untouched(b) == {o \in OpenIn(b) : b.done[o] = 0}   \* mutant
\* The orders the kill switch cancels.
SwitchedOff(b) == OpenIn(b)
\* update_policy.
UpdatePolicy(t, enabled, c) ==
    /\ t \in Requests /\ End(t)
    /\ on' = enabled /\ cap' = c
    /\ status' = [o \in Orders |->
           IF ~enabled /\ o \in SwitchedOff(sawBook[t]) THEN "cancelled" ELSE status[o]]
    /\ UNCHANGED <<ledgerVars, terms, done, book, fills, marketVars, handVars>>

-----------------------------------------------------------------------------
(* The owner's own doings, and the market.                                 *)

\* add_transaction by the owner.
OwnTrade(t, side, q, p) ==
    /\ t \in Requests /\ End(t) /\ moves < MaxMoves
    /\ moves' = moves + 1
    /\ IF side = "buy"
       THEN /\ cash' = cash - q * p * Unit /\ held' = held + q
            /\ outCash' = outCash + q * p * Unit /\ outShares' = outShares
       ELSE /\ q <= sawBook[t].held
            /\ cash' = cash + q * p * Unit /\ held' = held - q
            /\ outShares' = outShares + q /\ outCash' = outCash
    /\ UNCHANGED <<orderVars, policyVars, marketVars>>

\* create_manual_entry, reverse_entry: no lock is taken.
MoveCash(a) ==
    /\ moves < MaxMoves
    /\ moves' = moves + 1
    /\ cash' = cash + a
    /\ outCash' = IF a < 0 THEN outCash - a ELSE outCash
    /\ UNCHANGED <<held, orderVars, policyVars, marketVars, lock, readVars, pc, clock,
                   outShares>>

\* The session closes: expires_at of the open day orders has passed.
Close ==
    /\ open /\ open' = FALSE
    /\ due' = due \cup {o \in Orders : status[o] \in Open /\ terms[o].tif = "day"}
    /\ UNCHANGED <<ledgerVars, orderVars, policyVars, lock, readVars, pc, clock, handVars>>

Opens ==
    /\ ~open /\ moves < MaxMoves
    /\ open' = TRUE /\ moves' = moves + 1
    /\ UNCHANGED <<ledgerVars, orderVars, policyVars, due, lock, readVars, pc, clock,
                   outCash, outShares>>

-----------------------------------------------------------------------------
\* What a transaction may do in the end.
Finish(t) ==
    \/ Leave(t)
    \/ \E o \in Orders, x \in Terms : Submit(t, o, x)
    \/ \E o \in Orders, k \in Keys, q \in Sizes, p \in Prices : ManualFill(t, o, k, q, p)
    \/ \E o \in Orders, m \in Quotes : Match(t, o, m)
    \/ \E o \in Orders : Expire(t, o) \/ Cancel(t, o)
    \/ \E enabled \in BOOLEAN, c \in Caps : UpdatePolicy(t, enabled, c)
    \/ \E side \in {"buy", "sell"}, q \in Sizes, p \in Prices : OwnTrade(t, side, q, p)

\* What happens to a task between its transactions.
Advance(t) ==
    (\E m \in Quotes \cup {NoQuote} : Arrive(t, m)) \/ Begin(t) \/ Skip(t) \/ JobEnds(t)

Next ==
    \/ \E t \in Tasks : Advance(t) \/ Finish(t) \/ Dies(t)
    \/ \E a \in Amounts : MoveCash(a)
    \/ Close \/ Opens

Spec == Init /\ [][Next]_vars

\* The scheduler runs the job again and again and the row lock is granted to it;
\* a transaction comes to an end; the one that expires an order does not fail
\* forever.
Fairness ==
    /\ \A t \in Jobs : SF_vars(Advance(t))
    /\ \A t \in Tasks : WF_vars(Finish(t))
    /\ SF_vars(\E t \in Jobs, o \in Orders : Expire(t, o))
FairSpec == Spec /\ Fairness

-----------------------------------------------------------------------------
(* Properties.                                                             *)

TypeOK ==
    /\ cash \in Int /\ held \in Int /\ outCash \in Int /\ outShares \in Int /\ moves \in Nat
    /\ status \in [Orders -> {"none"} \cup Open \cup Final]
    /\ terms \in [Orders -> Terms \cup {NoTerms}]
    /\ done \in [Orders -> Nat]
    /\ \A o \in Orders : /\ (status[o] = "none") = (terms[o] = NoTerms)
                         /\ status[o] = "none" => done[o] = 0
                         /\ status[o] # "none" => done[o] <= terms[o].qty
    /\ book \in Seq(Orders) /\ due \subseteq Orders
    /\ fills \subseteq [order : Orders, key : Keys \cup Quotes,
                        quote : Quotes \cup {NoQuote}, qty : Nat]
    /\ on \in BOOLEAN /\ cap \in Caps /\ open \in BOOLEAN
    /\ lock \in Tasks \cup {NoTask} /\ sawCash \in [Tasks -> Int]
    /\ pc \in [Tasks -> {"off", "wait", "in"}]

\* What the open orders have reserved is there: the cash for all open buy orders
\* at their prices with fees, and the shares for all open sell orders, but for
\* what the owner has taken out by hand (submit_order and fill_order check
\* against the reservations of the other orders, a fill also against what is
\* left of its own).
ReservationsCovered ==
    /\ cash + outCash >= ReservedCash(Book, {})
    /\ held + outShares >= ReservedShares(Book, {}) /\ held >= 0

\* While the kill switch is engaged no order is open, whatever was being
\* submitted or filled when it was engaged (update_policy, _enforce_common).
KillSwitch == ~on => OpenIn(Book) = {}

\* filled_quantity is the sum of the order's fills, never more than its
\* quantity, and the status says how far it has got (fill_order).
FillsAddUp ==
    \A o \in Orders :
        /\ done[o] = MapThenSumSet(LAMBDA f : f.qty, {f \in fills : f.order = o})
        /\ status[o] \in {"none", "pending"} => done[o] = 0
        /\ status[o] = "partially_filled" => done[o] \in 1..(terms[o].qty - 1)
        /\ status[o] \in Final => done[o] <= terms[o].qty
        /\ status[o] = "filled" => done[o] = terms[o].qty

\* An order uses the liquidity of one quote at most once, and no more than there
\* is of it, also when the job and a request match it at the same time (the
\* idempotency key of match_order).
LiquidityOnce ==
    \A f \in fills : f.quote # NoQuote =>
        /\ f.qty <= f.quote.size
        /\ \A g \in fills : g.order = f.order /\ g.quote = f.quote => g = f

\* A submission never leaves more open orders than max_open_orders
\* (enforce_submission, between submissions and policy updates).
CapRespected ==
    [][(\E o \in Orders : status[o] = "none" /\ status'[o] # "none")
           => Cardinality({u \in Orders : status'[u] \in Open}) <= cap']_vars

\* A filled, cancelled or expired order never changes again: no cancellation, fill
\* or expiry that was under way when it ended comes after it.
FinalIsFinal ==
    [][\A o \in Orders : status[o] \in Final
           => status'[o] = status[o] /\ done'[o] = done[o]]_vars

\* A day order whose session has closed does not stay open (the job expires it
\* also when the market is closed): the orders that are due all end.
DayOrdersEnd ==
    (\E o \in due : status[o] \in Open) ~> (\A o \in due : status[o] \notin Open)

=============================================================================
