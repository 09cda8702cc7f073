-------------------------- MODULE PaperTradingProofs --------------------------
(* Proofs about PaperTrading, for any number of requests, runs of the job,   *)
(* orders, quotes and values of the constants: the types, that a transaction *)
(* finds the orders and the policy as it has read them until it commits, and *)
(* from it the kill switch, the cap on open orders, that an order that has   *)
(* ended never changes, that a quote is used once, that the fills of an      *)
(* order add up, and that what the open orders reserve is there.             *)
EXTENDS PaperTrading, FiniteSums

USE TasksAssumption, SizesAssumption
USE DEF vars, ledgerVars, orderVars, policyVars, marketVars, readVars, handVars

-----------------------------------------------------------------------------
(* The lock.                                                               *)

\* A task in a transaction has the lock, and what it has read still holds.
Locked ==
    \A t \in Tasks : pc[t] = "in" => lock = t /\ sawBook[t] = Book
Shape ==
    /\ pc \in [Tasks -> {"off", "wait", "in"}]
    /\ sawBook = [t \in Tasks |-> sawBook[t]]
LockInv == Shape /\ Locked

\* Whatever a transaction does, it ends with it.
LEMMA FinishEnds ==
    ASSUME NEW t \in Tasks, Finish(t) PROVE End(t)
<1>1. CASE Leave(t)
  BY <1>1 DEF Leave
<1>2. ASSUME NEW o \in Orders, NEW x \in Terms, Submit(t, o, x) PROVE End(t)
  BY <1>2 DEF Submit
<1>3. ASSUME NEW o \in Orders, NEW k \in Keys, NEW q \in Sizes, NEW p \in Prices,
             ManualFill(t, o, k, q, p)
      PROVE  End(t)
  BY <1>3 DEF ManualFill, FillOrder
<1>4. ASSUME NEW o \in Orders, NEW m \in Quotes, Match(t, o, m) PROVE End(t)
  BY <1>4 DEF Match, FillOrder
<1>5. ASSUME NEW o \in Orders, Expire(t, o) \/ Cancel(t, o) PROVE End(t)
  BY <1>5 DEF Expire, Cancel
<1>6. ASSUME NEW e \in BOOLEAN, NEW c \in Caps, UpdatePolicy(t, e, c) PROVE End(t)
  BY <1>6 DEF UpdatePolicy
<1>7. ASSUME NEW s \in {"buy", "sell"}, NEW q \in Sizes, NEW p \in Prices,
             OwnTrade(t, s, q, p)
      PROVE  End(t)
  BY <1>7 DEF OwnTrade
<1>8. QED
  BY <1>1, <1>2, <1>3, <1>4, <1>5, <1>6, <1>7 DEF Finish

LEMMA InitLockInv == Init => LockInv
  BY DEF Init, LockInv, Shape, Locked

LEMMA NextLockInv == LockInv /\ [Next]_vars => LockInv'
<1> SUFFICES ASSUME Shape, Locked, [Next]_vars PROVE Shape' /\ Locked'
  BY DEF LockInv
<1> USE DEF Shape, Locked
<1>1. ASSUME NEW t \in Tasks, NEW m \in Quotes \cup {NoQuote}, Arrive(t, m)
      PROVE  Shape' /\ Locked'
  BY <1>1 DEF Arrive, Book
<1>2. ASSUME NEW t \in Tasks, Begin(t) PROVE Shape' /\ Locked'
  <2>1. Book' = Book
    BY <1>2 DEF Begin, Book
  <2>2. \A u \in Tasks : pc[u] # "in"
    BY <1>2 DEF Begin
  <2>3. QED
    BY <1>2, <2>1, <2>2 DEF Begin
<1>3. ASSUME NEW t \in Tasks, Skip(t) PROVE Shape' /\ Locked'
  BY <1>3 DEF Skip, Book
<1>4. ASSUME NEW t \in Tasks, JobEnds(t) PROVE Shape' /\ Locked'
  BY <1>4 DEF JobEnds, Book
<1>5. ASSUME NEW t \in Tasks, Dies(t) PROVE Shape' /\ Locked'
  <2>1. Book' = Book
    BY <1>5 DEF Dies, Book
  <2>2. QED
    BY <1>5, <2>1 DEF Dies
<1>6. ASSUME NEW t \in Tasks, Finish(t) PROVE Shape' /\ Locked'
  <2>1. End(t)
    BY <1>6, FinishEnds
  <2>2. \A u \in Tasks \ {t} : pc[u] # "in"
    BY <2>1 DEF End
  <2>3. QED
    BY <2>1, <2>2 DEF End
<1>7. ASSUME NEW a \in Amounts, MoveCash(a) PROVE Shape' /\ Locked'
  BY <1>7 DEF MoveCash, Book
<1>8. CASE Close
  BY <1>8 DEF Close, Book
<1>9. CASE Opens
  BY <1>9 DEF Opens, Book
<1>10. CASE UNCHANGED vars
  BY <1>10 DEF Book
<1>11. ASSUME NEW t \in Tasks, Advance(t) PROVE Shape' /\ Locked'
  BY <1>1, <1>2, <1>3, <1>4, <1>11 DEF Advance
<1>12. QED
  BY <1>5, <1>6, <1>7, <1>8, <1>9, <1>10, <1>11 DEF Next

\* What a transaction has read of the orders and the policy is what is there.
LEMMA ReadHolds ==
    ASSUME LockInv, NEW t \in Tasks, End(t)
    PROVE  /\ sawBook[t].status = status /\ sawBook[t].done = done
           /\ sawBook[t].terms = terms /\ sawBook[t].fills = fills
           /\ sawBook[t].on = on /\ sawBook[t].cap = cap /\ sawBook[t].held = held
           /\ OpenIn(sawBook[t]) = {o \in Orders : status[o] \in Open}
<1>1. sawBook[t] = Book
  BY DEF LockInv, Locked, End
<1>2. QED
  BY <1>1 DEF Book, OpenIn

-----------------------------------------------------------------------------
(* Types.                                                                   *)

Inv == TypeOK /\ LockInv

LEMMA InitTypeOK == Init => TypeOK
  BY DEF Init, TypeOK, Open, Final

\* A price that is paid is a number.
LEMMA PriceType ==
    ASSUME NEW x \in Terms, NEW m \in Quotes
    PROVE  SlippedPrice(x, m) \in Int
  BY DEF SlippedPrice, WithinLimit

\* What is left of an order is a number of shares, never less than none.
LEMMA RemainingType ==
    ASSUME Inv, NEW t \in Tasks, End(t), NEW o \in Orders, status[o] \in Open
    PROVE  /\ terms[o] \in Terms /\ terms[o].qty \in Nat /\ done[o] \in Nat
           /\ Remaining(sawBook[t], o) = terms[o].qty - done[o]
           /\ Remaining(sawBook[t], o) \in Nat
<1>1. status[o] # "none"
  BY DEF Open
<1>2. terms[o] \in Terms
  BY <1>1 DEF Inv, TypeOK
<1>3. terms[o].qty \in Nat
  BY <1>2
<1>4. done[o] \in Nat /\ done[o] <= terms[o].qty
  BY <1>1 DEF Inv, TypeOK
<1>5. Remaining(sawBook[t], o) = terms[o].qty - done[o]
  BY ReadHolds DEF Inv, Remaining
<1>6. QED
  BY <1>2, <1>3, <1>4, <1>5

\* The end of a transaction leaves the types of the tasks as they are.
LEMMA EndTypeOK ==
    ASSUME Inv, NEW t \in Tasks, End(t)
    PROVE  /\ lock' \in Tasks \cup {NoTask} /\ sawCash' \in [Tasks -> Int]
           /\ pc' \in [Tasks -> {"off", "wait", "in"}]
  BY SMTT(30) DEF Inv, TypeOK, End

\* A fill, by hand or by quote, of a number of shares at a price.
LEMMA FillTypeOK ==
    ASSUME Inv, NEW t \in Tasks, NEW o \in Orders, NEW k \in Keys \cup Quotes,
           NEW m \in Quotes \cup {NoQuote}, NEW q \in Nat, NEW p \in Int,
           FillOrder(t, o, k, m, q, p)
    PROVE  TypeOK'
<1> DEFINE n == done[o] + q
<1>1. End(t) /\ status[o] \in Open
  BY ReadHolds DEF FillOrder, Inv
<1>2. /\ terms[o] \in Terms /\ terms[o].qty \in Nat /\ done[o] \in Nat
      /\ q <= terms[o].qty - done[o]
  BY <1>1, RemainingType DEF FillOrder
<1>3. n \in Nat /\ n <= terms[o].qty
  BY <1>2
<1>4. /\ done' = [done EXCEPT ![o] = n]
      /\ status' = [status EXCEPT ![o] = StatusAfter(terms[o], n)]
      /\ terms' = terms /\ book' = book
  BY <1>1, ReadHolds DEF FillOrder, Inv
<1>5. StatusAfter(terms[o], n) \in Open \cup Final
  BY DEF StatusAfter, Open, Final
<1>6. status' \in [Orders -> {"none"} \cup Open \cup Final] /\ done' \in [Orders -> Nat]
  BY <1>3, <1>4, <1>5 DEF Inv, TypeOK
<1>7. cash' \in Int /\ held' \in Int
  <2>1. cash \in Int /\ held \in Int /\ Unit \in Int /\ Fee \in Int
    BY DEF Inv, TypeOK
  <2>2. q * p * (Unit + Fee) \in Int /\ q * p * (Unit - Fee) \in Int
    BY <2>1
  <2>3. QED
    BY <2>1, <2>2 DEF FillOrder, Cost
<1>8. ASSUME NEW u \in Orders
      PROVE  /\ (status'[u] = "none") = (terms'[u] = NoTerms)
             /\ status'[u] = "none" => done'[u] = 0
             /\ status'[u] # "none" => done'[u] <= terms'[u].qty
  <2>1. CASE u = o
    <3>1. status'[u] \in Open \cup Final /\ done'[u] = n
      BY <1>4, <1>5, <2>1 DEF Inv, TypeOK
    <3>2. QED
      BY <1>2, <1>3, <1>4, <2>1, <3>1 DEF Open, Final
  <2>2. CASE u # o
    BY <1>4, <2>2 DEF Inv, TypeOK
  <2>3. QED
    BY <2>1, <2>2
<1>9. fills' \subseteq [order : Orders, key : Keys \cup Quotes,
                       quote : Quotes \cup {NoQuote}, qty : Nat]
  BY SMTT(30) DEF FillOrder, Inv, TypeOK
<1>10. UNCHANGED <<due, open, on, cap, outCash, outShares, moves>>
  BY DEF FillOrder
<1>11. TypeOK'
  BY <1>1, <1>4, <1>6, <1>7, <1>8, <1>9, <1>10, EndTypeOK DEF Inv, TypeOK
<1>12. QED
  BY <1>11

\* An order that is closed without a fill, by expiry, cancellation or the switch.
LEMMA ClosedTypeOK ==
    ASSUME Inv, NEW t \in Tasks, End(t), NEW S \in SUBSET Orders,
           \A o \in S : status[o] \in Open, NEW v \in Final,
           status' = [o \in Orders |-> IF o \in S THEN v ELSE status[o]],
           on' \in BOOLEAN, cap' \in Caps,
           UNCHANGED <<cash, held, terms, done, book, fills, due, open,
                       outCash, outShares, moves>>
    PROVE  TypeOK'
<1>1. status' \in [Orders -> {"none"} \cup Open \cup Final]
  BY DEF Inv, TypeOK
<1>2. ASSUME NEW o \in Orders
      PROVE  /\ (status'[o] = "none") = (terms'[o] = NoTerms)
             /\ status'[o] = "none" => done'[o] = 0
             /\ status'[o] # "none" => done'[o] <= terms'[o].qty
  BY DEF Inv, TypeOK, Open, Final
<1>3. QED
  BY <1>1, <1>2, EndTypeOK DEF Inv, TypeOK

LEMMA NextTypeOK == Inv /\ [Next]_vars => TypeOK'
<1> SUFFICES ASSUME Inv, [Next]_vars PROVE TypeOK'
  OBVIOUS
<1>1. ASSUME NEW t \in Tasks, Advance(t) PROVE TypeOK'
  <2>1. ASSUME NEW m \in Quotes \cup {NoQuote}, Arrive(t, m) PROVE TypeOK'
    BY <2>1 DEF Arrive, Inv, TypeOK
  <2>2. CASE Begin(t)
    BY <2>2 DEF Begin, Inv, TypeOK
  <2>3. CASE Skip(t)
    BY <2>3 DEF Skip, Inv, TypeOK
  <2>4. CASE JobEnds(t)
    BY <2>4 DEF JobEnds, Inv, TypeOK
  <2>5. QED
    BY <1>1, <2>1, <2>2, <2>3, <2>4 DEF Advance
<1>2. ASSUME NEW t \in Tasks, Dies(t) PROVE TypeOK'
  BY <1>2 DEF Dies, Inv, TypeOK
<1>3. ASSUME NEW t \in Tasks, Leave(t) PROVE TypeOK'
  BY <1>3, EndTypeOK DEF Leave, Inv, TypeOK
<1>4. ASSUME NEW t \in Tasks, NEW o \in Orders, NEW x \in Terms, Submit(t, o, x)
      PROVE  TypeOK'
  <2>1. End(t) /\ status[o] = "none"
    BY <1>4, ReadHolds DEF Submit, Inv
  <2>2. /\ status' = [status EXCEPT ![o] = "pending"]
        /\ terms' = [terms EXCEPT ![o] = x] /\ book' = Append(book, o)
        /\ UNCHANGED <<cash, held, done, fills, on, cap, due, open, outCash,
                       outShares, moves>>
    BY <1>4 DEF Submit
  <2>3. /\ status' \in [Orders -> {"none"} \cup Open \cup Final]
        /\ terms' \in [Orders -> Terms \cup {NoTerms}] /\ book' \in Seq(Orders)
    BY <2>2 DEF Inv, TypeOK, Open
  <2>4. ASSUME NEW u \in Orders
        PROVE  /\ (status'[u] = "none") = (terms'[u] = NoTerms)
               /\ status'[u] = "none" => done'[u] = 0
               /\ status'[u] # "none" => done'[u] <= terms'[u].qty
    <3>1. CASE u = o
      <4>1. done'[o] = 0 /\ terms'[o] = x /\ status'[o] = "pending" /\ x.qty \in Nat
        BY <2>1, <2>2 DEF Inv, TypeOK
      <4>2. QED
        BY <3>1, <4>1
    <3>2. CASE u # o
      BY <2>2, <3>2 DEF Inv, TypeOK
    <3>3. QED
      BY <3>1, <3>2
  <2>5. QED
    BY <2>1, <2>2, <2>3, <2>4, EndTypeOK DEF Inv, TypeOK
<1>5. ASSUME NEW t \in Tasks, NEW o \in Orders, NEW k \in Keys, NEW q \in Sizes,
             NEW p \in Prices, ManualFill(t, o, k, q, p)
      PROVE  TypeOK'
  <2>1. q \in Nat /\ p \in Int
    BY DEF Sizes
  <2>2. QED
    BY <1>5, <2>1, FillTypeOK DEF ManualFill
<1>6. ASSUME NEW t \in Tasks, NEW o \in Orders, NEW m \in Quotes, Match(t, o, m)
      PROVE  TypeOK'
  <2> DEFINE r == Remaining(sawBook[t], o)
             q == IF r < m.size THEN r ELSE m.size
             p == SlippedPrice(sawBook[t].terms[o], m)
  <2>1. End(t) /\ FillOrder(t, o, m, m, q, p)
    BY <1>6 DEF Match, FillOrder, QuoteKey
  <2>2. status[o] \in Open /\ sawBook[t].terms[o] = terms[o]
    BY <2>1, ReadHolds DEF FillOrder, Inv
  <2>3. q \in Nat
    BY <2>1, <2>2, RemainingType
  <2>4. p \in Int
    BY <2>1, <2>2, RemainingType, PriceType
  <2>5. QED
    BY <2>1, <2>3, <2>4, FillTypeOK
<1>7. ASSUME NEW t \in Tasks, NEW o \in Orders, Expire(t, o) PROVE TypeOK'
  <2>1. End(t) /\ status[o] \in Open
    BY <1>7, ReadHolds DEF Expire, Inv
  <2>2. status' = [u \in Orders |-> IF u \in {o} THEN "expired" ELSE status[u]]
    BY <1>7 DEF Expire, Inv, TypeOK
  <2>3. /\ on' \in BOOLEAN /\ cap' \in Caps
        /\ UNCHANGED <<cash, held, terms, done, book, fills, due, open, outCash,
                       outShares, moves>>
    BY <1>7 DEF Expire, Inv, TypeOK
  <2>4. {o} \in SUBSET Orders /\ "expired" \in Final /\ \A u \in {o} : status[u] \in Open
    BY <2>1 DEF Final
  <2>5. QED
    BY <2>1, <2>2, <2>3, <2>4, ClosedTypeOK
<1>8. ASSUME NEW t \in Tasks, NEW o \in Orders, Cancel(t, o) PROVE TypeOK'
  <2>1. End(t) /\ status[o] \in Open
    BY <1>8, ReadHolds DEF Cancel, Inv
  <2>2. status' = [u \in Orders |-> IF u \in {o} THEN "cancelled" ELSE status[u]]
    BY <1>8 DEF Cancel, Inv, TypeOK
  <2>3. /\ on' \in BOOLEAN /\ cap' \in Caps
        /\ UNCHANGED <<cash, held, terms, done, book, fills, due, open, outCash,
                       outShares, moves>>
    BY <1>8 DEF Cancel, Inv, TypeOK
  <2>4. {o} \in SUBSET Orders /\ "cancelled" \in Final /\ \A u \in {o} : status[u] \in Open
    BY <2>1 DEF Final
  <2>5. QED
    BY <2>1, <2>2, <2>3, <2>4, ClosedTypeOK
<1>9. ASSUME NEW t \in Tasks, NEW e \in BOOLEAN, NEW c \in Caps, UpdatePolicy(t, e, c)
      PROVE  TypeOK'
  <2> DEFINE S == {o \in Orders : ~e /\ status[o] \in Open}
  <2>1. End(t)
    BY <1>9 DEF UpdatePolicy
  <2>2. status' = [o \in Orders |-> IF o \in S THEN "cancelled" ELSE status[o]]
    BY <1>9, <2>1, ReadHolds DEF UpdatePolicy, SwitchedOff, Inv
  <2>3. QED
    BY <1>9, <2>1, <2>2, ClosedTypeOK DEF UpdatePolicy, Final
<1>10. ASSUME NEW t \in Tasks, NEW s \in {"buy", "sell"}, NEW q \in Sizes, NEW p \in Prices,
              OwnTrade(t, s, q, p)
       PROVE  TypeOK'
  <2>1. q \in Int /\ p \in Int /\ Unit \in Int
    BY DEF Sizes
  <2>2. q * p * Unit \in Int
    BY <2>1
  <2>3. cash' \in Int /\ held' \in Int /\ outCash' \in Int /\ outShares' \in Int
    BY <1>10, <2>1, <2>2, SMTT(30) DEF OwnTrade, Inv, TypeOK
  <2>4. moves' \in Nat /\ End(t)
    BY <1>10 DEF OwnTrade, Inv, TypeOK
  <2>5. UNCHANGED <<status, terms, done, book, fills, on, cap, due, open>>
    BY <1>10 DEF OwnTrade
  <2>6. QED
    BY <2>3, <2>4, <2>5, EndTypeOK DEF Inv, TypeOK
<1>11. ASSUME NEW a \in Amounts, MoveCash(a) PROVE TypeOK'
  BY <1>11 DEF MoveCash, Inv, TypeOK
<1>12. CASE Close
  BY <1>12 DEF Close, Inv, TypeOK
<1>13. CASE Opens
  BY <1>13 DEF Opens, Inv, TypeOK
<1>14. CASE UNCHANGED vars
  BY <1>14 DEF Inv, TypeOK
<1>15. ASSUME NEW t \in Tasks, Finish(t) PROVE TypeOK'
  BY <1>3, <1>4, <1>5, <1>6, <1>7, <1>8, <1>9, <1>10, <1>15 DEF Finish
<1>16. QED
  BY <1>1, <1>2, <1>11, <1>12, <1>13, <1>14, <1>15 DEF Next

LEMMA InvHolds == Spec => []Inv
<1>1. Init => Inv
  BY InitTypeOK, InitLockInv DEF Inv
<1>2. Inv /\ [Next]_vars => Inv'
  BY NextTypeOK, NextLockInv DEF Inv
<1>3. QED
  BY <1>1, <1>2, PTL DEF Spec

\* The types of all the variables, for any number of tasks, orders and quotes.
THEOREM TypeCorrect == Spec => []TypeOK
  BY InvHolds, PTL DEF Inv

\* Until a transaction commits, the orders, fills, holding and policy are as it has
\* read them, however many requests and runs of the job there are.
THEOREM ReadsStayTrue == Spec => []Locked
  BY InvHolds, PTL DEF Inv, LockInv

-----------------------------------------------------------------------------
(* What follows from the lock.                                              *)

\* Orders that are final are left alone by whatever leaves the open ones.
LEMMA OpenIsNotFinal == \A s : s \in Open => s \notin Final /\ s # "none"
  BY DEF Open, Final

\* One step of an order: nothing; submitted with trading on; filled with trading on;
\* expired or cancelled; or the policy is set and, when it switches trading off,
\* every open order is cancelled.
Submitted(o) ==
    /\ status[o] = "none" /\ on /\ Cardinality({u \in Orders : status[u] \in Open}) < cap
    /\ status' = [status EXCEPT ![o] = "pending"]
    /\ UNCHANGED <<done, fills, on, cap>>
FilledBy(o) ==
    /\ status[o] \in Open /\ on
    /\ \E v \in Open \cup {"filled"}, n \in Nat : /\ status' = [status EXCEPT ![o] = v]
                                                 /\ done' = [done EXCEPT ![o] = n]
    /\ \E f \in [order : {o}, key : Keys \cup Quotes, quote : Quotes \cup {NoQuote}, qty : Nat] :
           /\ fills' = fills \cup {f}
           /\ ~\E g \in fills : g.order = o /\ g.key = f.key
           /\ \/ f.quote = NoQuote /\ f.key \in Keys
              \/ f.quote \in Quotes /\ f.key = f.quote /\ f.qty <= f.quote.size
    /\ UNCHANGED <<on, cap>>
Closed(o) ==
    /\ status[o] \in Open
    /\ \E v \in Final : status' = [status EXCEPT ![o] = v]
    /\ UNCHANGED <<done, fills, on, cap>>
PolicySet ==
    /\ on' \in BOOLEAN /\ cap' \in Caps
    /\ status' = [o \in Orders |->
           IF ~on' /\ status[o] \in Open THEN "cancelled" ELSE status[o]]
    /\ UNCHANGED <<done, fills>>
Untouched == UNCHANGED <<status, done, fills, on, cap>>
Effect == Untouched \/ PolicySet \/ \E o \in Orders : Submitted(o) \/ FilledBy(o) \/ Closed(o)

\* A fill that fill_order makes has a key the order has not used.
LEMMA FillEffect ==
    ASSUME Inv, NEW t \in Tasks, NEW o \in Orders, NEW k \in Keys \cup Quotes,
           NEW m \in Quotes \cup {NoQuote}, NEW q \in Nat, NEW p \in Int,
           FillOrder(t, o, k, m, q, p),
           \/ m = NoQuote /\ k \in Keys
           \/ m \in Quotes /\ k = m /\ q <= m.size
    PROVE  FilledBy(o)
<1> DEFINE f == [order |-> o, key |-> k, quote |-> m, qty |-> q]
<1>0. done[o] + q \in Nat
  BY DEF Inv, TypeOK
<1>1. End(t)
  BY DEF FillOrder
<1>2. /\ status[o] \in Open /\ on
      /\ ~\E g \in fills : g.order = o /\ g.key = k
      /\ status' = [status EXCEPT ![o] = StatusAfter(terms[o], done[o] + q)]
      /\ done' = [done EXCEPT ![o] = done[o] + q]
      /\ fills' = fills \cup {f} /\ UNCHANGED <<on, cap>>
  BY <1>1, ReadHolds DEF FillOrder, Inv
<1>3. StatusAfter(terms[o], done[o] + q) \in Open \cup {"filled"}
  BY DEF StatusAfter, Open
<1>4. f \in [order : {o}, key : Keys \cup Quotes, quote : Quotes \cup {NoQuote}, qty : Nat]
  OBVIOUS
<1>5. \/ f.quote = NoQuote /\ f.key \in Keys
      \/ f.quote \in Quotes /\ f.key = f.quote /\ f.qty <= f.quote.size
  OBVIOUS
<1>6. QED
  BY <1>0, <1>2, <1>3, <1>4, <1>5 DEF FilledBy

\* Every step has one of these effects.
LEMMA StepEffect == Inv /\ [Next]_vars => Effect
<1> SUFFICES ASSUME Inv, [Next]_vars PROVE Effect
  OBVIOUS
<1>0. Inv => LockInv
  BY DEF Inv
<1>1. ASSUME NEW t \in Tasks, Advance(t) PROVE Untouched
  BY <1>1 DEF Advance, Arrive, Begin, Skip, JobEnds, Untouched
<1>2. ASSUME NEW t \in Tasks, Dies(t) PROVE Untouched
  BY <1>2 DEF Dies, Untouched
<1>3. ASSUME NEW a \in Amounts, MoveCash(a) PROVE Untouched
  BY <1>3 DEF MoveCash, Untouched
<1>4. CASE Close \/ Opens \/ UNCHANGED vars
  BY <1>4 DEF Close, Opens, Untouched, Effect
<1>5. ASSUME NEW t \in Tasks, Leave(t) PROVE Untouched
  BY <1>5 DEF Leave, Untouched
<1>6. ASSUME NEW t \in Tasks, NEW o \in Orders, NEW x \in Terms, Submit(t, o, x)
      PROVE  Submitted(o)
  BY <1>0, <1>6, ReadHolds DEF Submit, UnderCap, Submitted
<1>7. ASSUME NEW t \in Tasks, NEW o \in Orders, NEW k \in Keys, NEW q \in Sizes,
             NEW p \in Prices, ManualFill(t, o, k, q, p)
      PROVE  FilledBy(o)
  <2>1. q \in Nat /\ p \in Int
    BY DEF Sizes
  <2>2. QED
    BY <1>7, <2>1, FillEffect DEF ManualFill
<1>8. ASSUME NEW t \in Tasks, NEW o \in Orders, NEW m \in Quotes, Match(t, o, m)
      PROVE  FilledBy(o)
  <2> DEFINE r == Remaining(sawBook[t], o)
             q == IF r < m.size THEN r ELSE m.size
             p == SlippedPrice(sawBook[t].terms[o], m)
  <2>1. End(t) /\ FillOrder(t, o, m, m, q, p)
    BY <1>8 DEF Match, FillOrder, QuoteKey
  <2>2. status[o] \in Open /\ sawBook[t].terms[o] = terms[o]
    BY <1>0, <2>1, ReadHolds DEF FillOrder
  <2>3. r \in Nat /\ p \in Int
    BY <2>1, <2>2, RemainingType, PriceType
  <2>4. q \in Nat /\ q <= m.size
    BY <2>3
  <2>5. QED
    BY <2>1, <2>3, <2>4, FillEffect
<1>9. ASSUME NEW t \in Tasks, NEW o \in Orders, Expire(t, o) \/ Cancel(t, o)
      PROVE  Closed(o)
  <2>1. End(t) /\ sawBook[t].status[o] \in Open
    BY <1>9 DEF Expire, Cancel
  <2>2. status[o] \in Open
    BY <1>0, <2>1, ReadHolds
  <2>3. QED
    BY <1>9, <2>2 DEF Expire, Cancel, Closed, Final
<1>10. ASSUME NEW t \in Tasks, NEW e \in BOOLEAN, NEW c \in Caps, UpdatePolicy(t, e, c)
       PROVE  PolicySet
  <2>1. End(t)
    BY <1>10 DEF UpdatePolicy
  <2>2. OpenIn(sawBook[t]) = {o \in Orders : status[o] \in Open}
    BY <1>0, <2>1, ReadHolds
  <2>3. QED
    BY <1>10, <2>2 DEF UpdatePolicy, SwitchedOff, PolicySet
<1>11. ASSUME NEW t \in Tasks, NEW s \in {"buy", "sell"}, NEW q \in Sizes, NEW p \in Prices,
              OwnTrade(t, s, q, p)
       PROVE  Untouched
  BY <1>11 DEF OwnTrade, Untouched
<1>12. ASSUME NEW t \in Tasks, Finish(t) PROVE Effect
  BY <1>5, <1>6, <1>7, <1>8, <1>9, <1>10, <1>11, <1>12 DEF Finish, Effect
<1>13. QED
  BY <1>1, <1>2, <1>3, <1>4, <1>12 DEF Next, Effect

\* An order that has ended is left alone by every step.
LEMMA NextFinal ==
    Inv /\ [Next]_vars => \A o \in Orders : status[o] \in Final
                              => status'[o] = status[o] /\ done'[o] = done[o]
<1> SUFFICES ASSUME Inv, Effect, NEW o \in Orders, status[o] \in Final
             PROVE  status'[o] = status[o] /\ done'[o] = done[o]
  BY StepEffect
<1>0. status \in [Orders -> {"none"} \cup Open \cup Final] /\ done \in [Orders -> Nat]
  BY DEF Inv, TypeOK
<1>1. ASSUME NEW u \in Orders, Submitted(u) PROVE status'[o] = status[o] /\ done'[o] = done[o]
  BY <1>0, <1>1, OpenIsNotFinal DEF Submitted, Final
<1>2. ASSUME NEW u \in Orders, FilledBy(u) PROVE status'[o] = status[o] /\ done'[o] = done[o]
  BY <1>0, <1>2, OpenIsNotFinal DEF FilledBy
<1>3. ASSUME NEW u \in Orders, Closed(u) PROVE status'[o] = status[o] /\ done'[o] = done[o]
  BY <1>0, <1>3, OpenIsNotFinal DEF Closed
<1>4. CASE PolicySet
  BY <1>0, <1>4, OpenIsNotFinal DEF PolicySet
<1>5. CASE Untouched
  BY <1>5 DEF Untouched
<1>6. QED
  BY <1>1, <1>2, <1>3, <1>4, <1>5 DEF Effect

\* A filled, cancelled or expired order never changes again.
THEOREM EndedStaysEnded == Spec => FinalIsFinal
<1>1. Inv /\ [Next]_vars => [\A o \in Orders : status[o] \in Final
           => status'[o] = status[o] /\ done'[o] = done[o]]_vars
  BY NextFinal
<1>2. QED
  BY <1>1, InvHolds, PTL DEF Spec, FinalIsFinal

\* While the kill switch is engaged no order is open.
THEOREM SwitchHolds == Spec => []KillSwitch
<1> DEFINE K == ~on => \A o \in Orders : status[o] \notin Open
<1>1. Init => K
  BY DEF Init
<1>2. Inv /\ K /\ [Next]_vars => K'
  <2> SUFFICES ASSUME Inv, K, Effect, ~on', NEW o \in Orders PROVE status'[o] \notin Open
    BY StepEffect
  <2>1. CASE PolicySet
    BY <2>1, OpenIsNotFinal DEF PolicySet, Final
  <2>2. CASE Untouched
    BY <2>2 DEF Untouched
  <2>3. ASSUME NEW u \in Orders, Submitted(u) \/ FilledBy(u) \/ Closed(u) PROVE FALSE
    BY <2>3 DEF Submitted, FilledBy, Closed
  <2>4. QED
    BY <2>1, <2>2, <2>3 DEF Effect
<1>3. K => KillSwitch
  BY DEF KillSwitch, OpenIn, Book
<1>4. QED
  BY <1>1, <1>2, <1>3, InvHolds, PTL DEF Spec

\* A submission leaves at most one order more open than there were.
LEMMA NextCap ==
    Inv /\ [Next]_vars => ((\E o \in Orders : status[o] = "none" /\ status'[o] # "none")
                               => Cardinality({u \in Orders : status'[u] \in Open}) <= cap')
<1> SUFFICES ASSUME Inv, Effect, NEW o \in Orders, status[o] = "none", status'[o] # "none"
             PROVE  Cardinality({u \in Orders : status'[u] \in Open}) <= cap'
  BY StepEffect
<1> DEFINE before == {u \in Orders : status[u] \in Open}
           after == {u \in Orders : status'[u] \in Open}
<1>0. status \in [Orders -> {"none"} \cup Open \cup Final] /\ cap \in Nat
  BY DEF Inv, TypeOK
<1>1. Submitted(o)
  <2>1. ~Untouched /\ ~PolicySet
    BY OpenIsNotFinal DEF Untouched, PolicySet
  <2>2. ASSUME NEW u \in Orders, Submitted(u) \/ FilledBy(u) \/ Closed(u) PROVE u = o
    <3>1. \E v : status' = [status EXCEPT ![u] = v]
      BY <2>2 DEF Submitted, FilledBy, Closed
    <3>2. QED
      BY <1>0, <3>1
  <2>3. ~FilledBy(o) /\ ~Closed(o)
    BY OpenIsNotFinal DEF FilledBy, Closed
  <2>4. QED
    BY <2>1, <2>2, <2>3 DEF Effect
<1>2. after = before \cup {o}
  BY <1>0, <1>1 DEF Submitted, Open
<1>3. o \notin before /\ IsFiniteSet(before)
  <2>1. before \subseteq Orders
    OBVIOUS
  <2>2. o \notin before
    BY OpenIsNotFinal
  <2>3. QED
    BY <2>1, <2>2, FS_Subset
<1>4. Cardinality(after) = Cardinality(before) + 1
  BY <1>2, <1>3, FS_AddElement
<1>5. Cardinality(before) \in Nat /\ Cardinality(before) < cap /\ cap' = cap
  BY <1>1, <1>3, FS_CardinalityType DEF Submitted
<1>6. QED
  BY <1>0, <1>4, <1>5

\* A submission never leaves more open orders than the policy allows.
THEOREM CapHolds == Spec => CapRespected
<1>1. Inv /\ [Next]_vars => [(\E o \in Orders : status[o] = "none" /\ status'[o] # "none")
           => Cardinality({u \in Orders : status'[u] \in Open}) <= cap']_vars
  BY NextCap
<1>2. QED
  BY <1>1, InvHolds, PTL DEF Spec, CapRespected

\* The fills of an order have different keys; the key of a fill by quote is the
\* quote, whose size it does not exceed.
FillsInv ==
    /\ \A f \in fills : \/ f.quote = NoQuote /\ f.key \in Keys
                        \/ f.quote \in Quotes /\ f.key = f.quote /\ f.qty <= f.quote.size
    /\ \A f \in fills, g \in fills : f.order = g.order /\ f.key = g.key => f = g

\* An order uses the liquidity of a quote at most once.
THEOREM QuoteUsedOnce == Spec => []LiquidityOnce
<1>1. Init => FillsInv
  BY DEF Init, FillsInv
<1>2. Inv /\ FillsInv /\ [Next]_vars => FillsInv'
  <2> SUFFICES ASSUME FillsInv, Effect PROVE FillsInv'
    BY StepEffect
  <2>1. ASSUME NEW o \in Orders, FilledBy(o) PROVE FillsInv'
    <3>1. PICK f \in [order : {o}, key : Keys \cup Quotes, quote : Quotes \cup {NoQuote},
                      qty : Nat] :
              /\ fills' = fills \cup {f}
              /\ ~\E g \in fills : g.order = o /\ g.key = f.key
              /\ \/ f.quote = NoQuote /\ f.key \in Keys
                 \/ f.quote \in Quotes /\ f.key = f.quote /\ f.qty <= f.quote.size
      BY <2>1 DEF FilledBy
    <3>2. f.order = o
      BY <3>1
    <3>3. QED
      BY <3>1, <3>2 DEF FillsInv
  <2>2. CASE UNCHANGED fills
    BY <2>2 DEF FillsInv
  <2>3. QED
    BY <2>1, <2>2 DEF Effect, Untouched, PolicySet, Submitted, Closed
<1>3. FillsInv => LiquidityOnce
  BY DEF FillsInv, LiquidityOnce
<1>4. QED
  BY <1>1, <1>2, <1>3, InvHolds, PTL DEF Spec

-----------------------------------------------------------------------------
(* What the orders have reserved.                                           *)

\* What each order has reserved: what is left of it if it is open, at its price
\* with fees for a purchase.
CashNeed == [o \in Orders |->
    IF status[o] \in Open /\ terms[o].side = "buy"
    THEN Cost(terms[o].qty - done[o], terms[o].price) ELSE 0]
SharesNeed == [o \in Orders |->
    IF status[o] \in Open /\ terms[o].side = "sell" THEN terms[o].qty - done[o] ELSE 0]

LEMMA CostType == ASSUME NEW q \in Nat, NEW p \in Nat PROVE Cost(q, p) \in Nat
<1>1. Unit + Fee \in Nat /\ q * p \in Nat
  OBVIOUS
<1>2. QED
  BY <1>1 DEF Cost

\* The terms of an order that is open.
LEMMA OpenTerms ==
    ASSUME Inv, NEW o \in Orders, status[o] \in Open
    PROVE  /\ terms[o] \in Terms /\ terms[o].price \in Nat /\ done[o] \in Nat
           /\ terms[o].qty \in Nat /\ terms[o].qty - done[o] \in Nat
           /\ terms[o].side \in {"buy", "sell"}
<1>1. status[o] # "none"
  BY DEF Open
<1>2. terms[o] \in Terms
  BY <1>1 DEF Inv, TypeOK
<1>3. done[o] \in Nat /\ done[o] <= terms[o].qty
  BY <1>1 DEF Inv, TypeOK
<1>4. QED
  BY <1>2, <1>3

LEMMA NeedType == Inv => \A o \in Orders : CashNeed[o] \in Nat /\ SharesNeed[o] \in Nat
<1> SUFFICES ASSUME Inv, NEW o \in Orders PROVE CashNeed[o] \in Nat /\ SharesNeed[o] \in Nat
  OBVIOUS
<1>1. CASE status[o] \in Open
  BY <1>1, OpenTerms, CostType DEF CashNeed, SharesNeed
<1>2. CASE status[o] \notin Open
  BY <1>2 DEF CashNeed, SharesNeed
<1>3. QED
  BY <1>1, <1>2

LEMMA NeedTypeNext == Inv' => \A o \in Orders : CashNeed'[o] \in Nat /\ SharesNeed'[o] \in Nat
<1>1. Inv' => (\A o \in Orders : CashNeed[o] \in Nat /\ SharesNeed[o] \in Nat)'
  BY NeedType, PTL
<1>2. QED
  BY <1>1

\* The sums of the model are the sums of these.
LEMMA ReservedCashIs ==
    ASSUME Inv, NEW b, b.status = status, b.done = done, b.terms = terms, NEW x
    PROVE  ReservedCash(b, x) = Total(CashNeed, Orders \ x)
<1> DEFINE T == OpenSide(b, "buy") \ x
           h == Table(CashNeed, T)
<1>1. /\ IsFiniteSet(Orders \ x) /\ T \in SUBSET (Orders \ x)
      /\ \A o \in T : CashNeed[o] = Reservation(b, o, Remaining(b, o))
      /\ \A o \in (Orders \ x) \ T : CashNeed[o] = 0
  BY FS_Subset DEF OpenSide, OpenIn, CashNeed, Reservation, Remaining
<1>2. \A o \in Orders : CashNeed[o] \in Int
  BY NeedType
<1>3. Total(CashNeed, Orders \ x) = Total(CashNeed, T)
  <2>1. \A o \in Orders \ x : CashNeed[o] \in Int
    BY <1>2
  <2>2. QED
    BY <1>1, <2>1, TotalSupport
<1>4. IsFiniteSet(T) /\ \A o \in T : CashNeed[o] \in Int
  BY <1>1, <1>2, FS_Subset
<1>5. IsTable(h, CashNeed, T)
  BY <1>4, TableHolds
<1>6. \A g : IsTable(g, CashNeed, T) => g = h
  BY <1>4, <1>5, TableUnique
<1>7. \A U \in SUBSET T : U # {} => CashNeed[Pick(U)]
                                        = Reservation(b, Pick(U), Remaining(b, Pick(U)))
  BY <1>1, PickIn
<1> HIDE DEF T, h
<1>8. h = [U \in SUBSET T |-> IF U = {} THEN 0
              ELSE Reservation(b, CHOOSE o \in U : TRUE, Remaining(b, CHOOSE o \in U : TRUE))
                       + h[U \ {CHOOSE o \in U : TRUE}]]
  BY <1>5, <1>7 DEF IsTable, Pick
<1>9. \A g : g = [U \in SUBSET T |-> IF U = {} THEN 0
              ELSE Reservation(b, CHOOSE o \in U : TRUE, Remaining(b, CHOOSE o \in U : TRUE))
                       + g[U \ {CHOOSE o \in U : TRUE}]]
          => g = h
  <2> SUFFICES ASSUME NEW g, g = [U \in SUBSET T |-> IF U = {} THEN 0
              ELSE Reservation(b, CHOOSE o \in U : TRUE, Remaining(b, CHOOSE o \in U : TRUE))
                       + g[U \ {CHOOSE o \in U : TRUE}]]
               PROVE  IsTable(g, CashNeed, T)
    BY <1>6
  <2>1. ASSUME NEW U \in SUBSET T
        PROVE  g[U] = IF U = {} THEN 0 ELSE CashNeed[Pick(U)] + g[U \ {Pick(U)}]
    <3>1. g[U] = IF U = {} THEN 0 ELSE Reservation(b, Pick(U), Remaining(b, Pick(U))) + g[U \ {Pick(U)}]
      BY DEF Pick
    <3>2. QED
      BY <1>7, <3>1
  <2>2. g = [U \in SUBSET T |-> g[U]]
    OBVIOUS
  <2>3. QED
    BY <2>1, <2>2 DEF IsTable
<1>10. ReservedCash(b, x) = h[T]
  BY <1>8, <1>9 DEF ReservedCash, MapThenSumSet, MapThenFoldSet, T
<1>11. QED
  BY <1>3, <1>10 DEF Total, h

LEMMA ReservedSharesIs ==
    ASSUME Inv, NEW b, b.status = status, b.done = done, b.terms = terms, NEW x
    PROVE  ReservedShares(b, x) = Total(SharesNeed, Orders \ x)
<1> DEFINE T == OpenSide(b, "sell") \ x
           h == Table(SharesNeed, T)
<1>1. /\ IsFiniteSet(Orders \ x) /\ T \in SUBSET (Orders \ x)
      /\ \A o \in T : SharesNeed[o] = Remaining(b, o)
      /\ \A o \in (Orders \ x) \ T : SharesNeed[o] = 0
  BY FS_Subset DEF OpenSide, OpenIn, SharesNeed, Remaining
<1>2. \A o \in Orders : SharesNeed[o] \in Int
  BY NeedType
<1>3. Total(SharesNeed, Orders \ x) = Total(SharesNeed, T)
  <2>1. \A o \in Orders \ x : SharesNeed[o] \in Int
    BY <1>2
  <2>2. QED
    BY <1>1, <2>1, TotalSupport
<1>4. IsFiniteSet(T) /\ \A o \in T : SharesNeed[o] \in Int
  BY <1>1, <1>2, FS_Subset
<1>5. IsTable(h, SharesNeed, T)
  BY <1>4, TableHolds
<1>6. \A g : IsTable(g, SharesNeed, T) => g = h
  BY <1>4, <1>5, TableUnique
<1>7. \A U \in SUBSET T : U # {} => SharesNeed[Pick(U)] = Remaining(b, Pick(U))
  BY <1>1, PickIn
<1> HIDE DEF T, h
<1>8. h = [U \in SUBSET T |-> IF U = {} THEN 0
              ELSE Remaining(b, CHOOSE o \in U : TRUE) + h[U \ {CHOOSE o \in U : TRUE}]]
  BY <1>5, <1>7 DEF IsTable, Pick
<1>9. \A g : g = [U \in SUBSET T |-> IF U = {} THEN 0
              ELSE Remaining(b, CHOOSE o \in U : TRUE) + g[U \ {CHOOSE o \in U : TRUE}]]
          => g = h
  <2> SUFFICES ASSUME NEW g, g = [U \in SUBSET T |-> IF U = {} THEN 0
              ELSE Remaining(b, CHOOSE o \in U : TRUE) + g[U \ {CHOOSE o \in U : TRUE}]]
               PROVE  IsTable(g, SharesNeed, T)
    BY <1>6
  <2>1. ASSUME NEW U \in SUBSET T
        PROVE  g[U] = IF U = {} THEN 0 ELSE SharesNeed[Pick(U)] + g[U \ {Pick(U)}]
    <3>1. g[U] = IF U = {} THEN 0 ELSE Remaining(b, Pick(U)) + g[U \ {Pick(U)}]
      BY DEF Pick
    <3>2. QED
      BY <1>7, <3>1
  <2>2. g = [U \in SUBSET T |-> g[U]]
    OBVIOUS
  <2>3. QED
    BY <2>1, <2>2 DEF IsTable
<1>10. ReservedShares(b, x) = h[T]
  BY <1>8, <1>9 DEF ReservedShares, MapThenSumSet, MapThenFoldSet, T
<1>11. QED
  BY <1>3, <1>10 DEF Total, h

\* What a transaction finds available: what it has read, but for what the other
\* orders have reserved.
LEMMA AvailableIs ==
    ASSUME Inv, NEW t \in Tasks, End(t), NEW x
    PROVE  /\ AvailableCash(t, x) = sawCash[t] - Total(CashNeed, Orders \ x)
           /\ AvailableShares(t, x) = held - Total(SharesNeed, Orders \ x)
<1>1. /\ sawBook[t].status = status /\ sawBook[t].done = done
      /\ sawBook[t].terms = terms /\ sawBook[t].held = held
  BY ReadHolds DEF Inv
<1>2. /\ ReservedCash(sawBook[t], x) = Total(CashNeed, Orders \ x)
      /\ ReservedShares(sawBook[t], x) = Total(SharesNeed, Orders \ x)
  BY <1>1, ReservedCashIs, ReservedSharesIs
<1>3. QED
  BY <1>1, <1>2 DEF AvailableCash, AvailableShares

\* The parts of a total.
LEMMA NeedTotals ==
    ASSUME Inv, NEW o \in Orders
    PROVE  /\ Total(CashNeed, Orders) \in Nat /\ Total(SharesNeed, Orders) \in Nat
           /\ Total(CashNeed, Orders \ {o}) \in Nat
           /\ Total(SharesNeed, Orders \ {o}) \in Nat
           /\ Total(CashNeed, Orders) = CashNeed[o] + Total(CashNeed, Orders \ {o})
           /\ Total(SharesNeed, Orders) = SharesNeed[o] + Total(SharesNeed, Orders \ {o})
<1>1. \A u \in Orders : CashNeed[u] \in Nat /\ SharesNeed[u] \in Nat
  BY NeedType
<1>2. IsFiniteSet(Orders \ {o}) /\ Orders \ {o} \subseteq Orders
  BY FS_Subset
<1>3. \A u \in Orders : CashNeed[u] \in Int /\ SharesNeed[u] \in Int
  BY <1>1
<1>4. /\ Total(CashNeed, Orders) = CashNeed[o] + Total(CashNeed, Orders \ {o})
      /\ Total(SharesNeed, Orders) = SharesNeed[o] + Total(SharesNeed, Orders \ {o})
  BY <1>3, TotalOf
<1>5. Total(CashNeed, Orders) \in Nat /\ Total(SharesNeed, Orders) \in Nat
  BY <1>1, TotalNat
<1>6. Total(CashNeed, Orders \ {o}) \in Nat /\ Total(SharesNeed, Orders \ {o}) \in Nat
  <2>1. \A u \in Orders \ {o} : CashNeed[u] \in Nat /\ SharesNeed[u] \in Nat
    BY <1>1
  <2>2. QED
    BY <1>2, <2>1, TotalNat
<1>7. QED
  BY <1>4, <1>5, <1>6

-----------------------------------------------------------------------------
(* A reservation is covered.                                                *)

\* What a transaction has read of the cash is there, but for what the owner has
\* taken out.
SawCovered ==
    /\ outCash \in Nat /\ outShares \in Nat
    /\ \A t \in Tasks : pc[t] = "in" => sawCash[t] <= cash + outCash

LEMMA NextSaw == Inv /\ Inv' /\ SawCovered /\ [Next]_vars => SawCovered'
<1> SUFFICES ASSUME Inv, Inv', SawCovered, [Next]_vars PROVE SawCovered'
  OBVIOUS
<1>0. /\ cash \in Int /\ cash' \in Int /\ sawCash \in [Tasks -> Int]
      /\ pc \in [Tasks -> {"off", "wait", "in"}]
  BY DEF Inv, TypeOK
<1>1. ASSUME NEW t \in Tasks, Arrive(t, NoQuote) \/ \E m \in Quotes : Arrive(t, m)
      PROVE  SawCovered'
  BY <1>0, <1>1 DEF Arrive, SawCovered
<1>2. ASSUME NEW t \in Tasks, Begin(t) PROVE SawCovered'
  <2>1. \A u \in Tasks : pc[u] # "in"
    BY <1>2 DEF Begin, Inv, LockInv, Locked
  <2>2. QED
    BY <1>0, <1>2, <2>1 DEF Begin, SawCovered
<1>3. ASSUME NEW t \in Tasks, Skip(t) PROVE SawCovered'
  BY <1>3 DEF Skip, SawCovered
<1>4. ASSUME NEW t \in Tasks, JobEnds(t) PROVE SawCovered'
  BY <1>0, <1>4 DEF JobEnds, SawCovered
<1>5. ASSUME NEW t \in Tasks, Dies(t) PROVE SawCovered'
  BY <1>0, <1>5 DEF Dies, SawCovered
<1>6. ASSUME NEW t \in Tasks, Finish(t) PROVE SawCovered'
  <2>1. End(t)
    BY <1>6, FinishEnds
  <2>2. \A u \in Tasks : pc'[u] # "in"
    <3>1. \A u \in Tasks \ {t} : pc[u] # "in"
      BY <2>1 DEF End, Inv, LockInv, Locked
    <3>2. pc'[t] # "in" /\ \A u \in Tasks \ {t} : pc'[u] = pc[u]
      BY <1>0, <2>1 DEF End
    <3>3. QED
      BY <3>1, <3>2
  <2>3. outCash' \in Nat /\ outShares' \in Nat
    <3>1. CASE UNCHANGED <<outCash, outShares>>
      BY <3>1 DEF SawCovered
    <3>2. ASSUME NEW s \in {"buy", "sell"}, NEW q \in Sizes, NEW p \in Prices,
                 OwnTrade(t, s, q, p)
          PROVE  outCash' \in Nat /\ outShares' \in Nat
      <4>1. q \in Nat /\ p \in Nat
        BY DEF Sizes
      <4>2. q * p \in Nat /\ Unit \in Nat
        BY <4>1
      <4>4. q * p * Unit \in Nat
        BY <4>2
      <4>3. QED
        BY <3>2, <4>1, <4>4 DEF OwnTrade, SawCovered
    <3>3. CASE Leave(t) \/ \E o \in Orders : Expire(t, o) \/ Cancel(t, o)
      BY <3>1, <3>3 DEF Leave, Expire, Cancel
    <3>4. CASE \E o \in Orders, x \in Terms : Submit(t, o, x)
      BY <3>1, <3>4 DEF Submit
    <3>5. CASE \E e \in BOOLEAN, c \in Caps : UpdatePolicy(t, e, c)
      BY <3>1, <3>5 DEF UpdatePolicy
    <3>6. ASSUME NEW o, NEW k, NEW m, NEW q, NEW p, FillOrder(t, o, k, m, q, p)
          PROVE  outCash' \in Nat /\ outShares' \in Nat
      BY <3>1, <3>6 DEF FillOrder
    <3>7. CASE \E o \in Orders, k \in Keys, q \in Sizes, p \in Prices :
                   ManualFill(t, o, k, q, p)
      BY <3>6, <3>7 DEF ManualFill
    <3>8. CASE \E o \in Orders, m \in Quotes : Match(t, o, m)
      BY <3>6, <3>8 DEF Match
    <3>9. QED
      BY <1>6, <3>2, <3>3, <3>4, <3>5, <3>7, <3>8 DEF Finish
  <2>4. QED
    BY <2>2, <2>3 DEF SawCovered
<1>7. ASSUME NEW a \in Amounts, MoveCash(a) PROVE SawCovered'
  <2>0. /\ a \in Int /\ outCash \in Nat /\ cash' = cash + a
        /\ outCash' = IF a < 0 THEN outCash - a ELSE outCash
    BY <1>7 DEF MoveCash, SawCovered
  <2>1. cash' + outCash' >= cash + outCash /\ outCash' \in Nat
    BY <1>0, <2>0
  <2>2. \A t \in Tasks : pc[t] = "in" => sawCash[t] <= cash' + outCash'
    BY <1>0, <2>0, <2>1 DEF SawCovered
  <2>3. QED
    BY <1>7, <2>1, <2>2 DEF MoveCash, SawCovered
<1>8. CASE Close \/ Opens \/ UNCHANGED vars
  BY <1>8 DEF Close, Opens, SawCovered
<1>9. QED
  BY <1>1, <1>2, <1>3, <1>4, <1>5, <1>6, <1>7, <1>8 DEF Next, Advance

\* What is reserved is there, but for what the owner has taken out.
Covered ==
    /\ Total(CashNeed, Orders) <= cash + outCash
    /\ Total(SharesNeed, Orders) <= held + outShares
    /\ held >= 0

\* Nothing more is reserved, and nothing of it is gone.
LEMMA LessReserved ==
    ASSUME Inv, Inv', SawCovered, SawCovered', Covered,
           \A o \in Orders : CashNeed'[o] <= CashNeed[o] /\ SharesNeed'[o] <= SharesNeed[o],
           cash + outCash <= cash' + outCash', held + outShares <= held' + outShares',
           held' >= 0
    PROVE  Covered'
<1>1. /\ \A o \in Orders : CashNeed[o] \in Int /\ SharesNeed[o] \in Int
      /\ \A o \in Orders : CashNeed'[o] \in Int /\ SharesNeed'[o] \in Int
  <2>1. \A o \in Orders : CashNeed[o] \in Nat /\ SharesNeed[o] \in Nat
    BY NeedType
  <2>2. \A o \in Orders : CashNeed'[o] \in Nat /\ SharesNeed'[o] \in Nat
    BY NeedTypeNext
  <2>3. QED
    BY <2>1, <2>2
<1>2. /\ Total(CashNeed', Orders) <= Total(CashNeed, Orders)
      /\ Total(SharesNeed', Orders) <= Total(SharesNeed, Orders)
  BY <1>1, TotalMonotone
<1>3. /\ Total(CashNeed, Orders) \in Int /\ Total(SharesNeed, Orders) \in Int
      /\ Total(CashNeed', Orders) \in Int /\ Total(SharesNeed', Orders) \in Int
  BY <1>1, TotalType
<1>4. /\ cash \in Int /\ held \in Int /\ cash' \in Int /\ held' \in Int
      /\ outCash \in Int /\ outShares \in Int /\ outCash' \in Int /\ outShares' \in Int
  BY DEF Inv, TypeOK
<1>5. QED
  BY <1>2, <1>3, <1>4 DEF Covered

\* One order changes.
LEMMA OneReservation ==
    ASSUME Inv, Inv', NEW o \in Orders,
           \A u \in Orders \ {o} :
               status'[u] = status[u] /\ terms'[u] = terms[u] /\ done'[u] = done[u]
    PROVE  /\ Total(CashNeed', Orders) = CashNeed'[o] + Total(CashNeed, Orders \ {o})
           /\ Total(SharesNeed', Orders) = SharesNeed'[o] + Total(SharesNeed, Orders \ {o})
<1>1. \A u \in Orders : CashNeed[u] \in Int /\ SharesNeed[u] \in Int
  <2>1. \A u \in Orders : CashNeed[u] \in Nat /\ SharesNeed[u] \in Nat
    BY NeedType
  <2>2. QED
    BY <2>1
<1>2. \A u \in Orders : CashNeed'[u] \in Int /\ SharesNeed'[u] \in Int
  <2>1. \A u \in Orders : CashNeed'[u] \in Nat /\ SharesNeed'[u] \in Nat
    BY NeedTypeNext
  <2>2. QED
    BY <2>1
<1>3. \A u \in Orders \ {o} : CashNeed[u] = CashNeed'[u] /\ SharesNeed[u] = SharesNeed'[u]
  BY DEF CashNeed, SharesNeed
<1>4. /\ Total(CashNeed', Orders) = CashNeed'[o] + Total(CashNeed', Orders \ {o})
      /\ Total(SharesNeed', Orders) = SharesNeed'[o] + Total(SharesNeed', Orders \ {o})
  BY <1>2, TotalOf
<1>5. /\ Total(CashNeed, Orders \ {o}) = Total(CashNeed', Orders \ {o})
      /\ Total(SharesNeed, Orders \ {o}) = Total(SharesNeed', Orders \ {o})
  <2>1. IsFiniteSet(Orders \ {o}) /\ \A u \in Orders \ {o} : CashNeed[u] \in Int
        /\ SharesNeed[u] \in Int
    BY <1>1, FS_Subset
  <2>2. QED
    BY <1>3, <2>1, TotalSame
<1>6. QED
  BY <1>4, <1>5

\* A submission is refused unless what is available covers it.
LEMMA SubmitCovered ==
    ASSUME Inv, Inv', SawCovered, SawCovered', Covered, NEW t \in Tasks, NEW o \in Orders,
           NEW x \in Terms, Submit(t, o, x)
    PROVE  Covered'
<1> DEFINE c == Total(CashNeed, Orders \ {o})
           s == Total(SharesNeed, Orders \ {o})
<1>1. End(t) /\ status[o] = "none" /\ done[o] = 0 /\ pc[t] = "in"
  <2>1. End(t)
    BY DEF Submit
  <2>2. status[o] = "none"
    BY <2>1, ReadHolds DEF Submit, Inv
  <2>3. QED
    BY <2>1, <2>2 DEF End, Inv, TypeOK
<1>2. /\ status' = [status EXCEPT ![o] = "pending"] /\ terms' = [terms EXCEPT ![o] = x]
      /\ done' = done /\ cash' = cash /\ held' = held
      /\ outCash' = outCash /\ outShares' = outShares
  BY DEF Submit
<1>3. /\ status'[o] = "pending" /\ terms'[o] = x /\ done'[o] = 0
      /\ \A u \in Orders \ {o} :
               status'[u] = status[u] /\ terms'[u] = terms[u] /\ done'[u] = done[u]
  BY <1>1, <1>2 DEF Inv, TypeOK
<1>4. /\ Total(CashNeed', Orders) = CashNeed'[o] + c
      /\ Total(SharesNeed', Orders) = SharesNeed'[o] + s
  BY <1>3, OneReservation
<1>5. CashNeed[o] = 0 /\ SharesNeed[o] = 0
  BY <1>1 DEF CashNeed, SharesNeed, Open
<1>6. /\ c \in Nat /\ s \in Nat /\ Total(CashNeed, Orders) = 0 + c
      /\ Total(SharesNeed, Orders) = 0 + s
  BY <1>5, NeedTotals
<1>7. /\ CashNeed'[o] = IF x.side = "buy" THEN Cost(x.qty - 0, x.price) ELSE 0
      /\ SharesNeed'[o] = IF x.side = "sell" THEN x.qty - 0 ELSE 0
  BY <1>3 DEF CashNeed, SharesNeed, Open
<1>8. /\ x.qty \in Nat /\ x.price \in Nat /\ x.qty - 0 = x.qty /\ Cost(x.qty, x.price) \in Nat
      /\ x.side \in {"buy", "sell"}
  <2>1. x.qty \in Nat /\ x.price \in Nat /\ x.side \in {"buy", "sell"}
    OBVIOUS
  <2>2. Cost(x.qty, x.price) \in Nat
    BY <2>1, CostType
  <2>3. x.qty - 0 = x.qty
    BY <2>1
  <2>4. QED
    BY <2>1, <2>2, <2>3
<1>9. /\ AvailableCash(t, {}) = sawCash[t] - Total(CashNeed, Orders)
      /\ AvailableShares(t, {}) = held - Total(SharesNeed, Orders)
  <2>1. Orders \ {} = Orders
    OBVIOUS
  <2>2. QED
    BY <1>1, <2>1, AvailableIs
<1>10. sawCash[t] <= cash + outCash /\ sawCash[t] \in Int
  BY <1>1 DEF SawCovered, Inv, TypeOK
<1>11. cash \in Int /\ held \in Int /\ outCash \in Nat /\ outShares \in Nat
  BY DEF Inv, TypeOK, SawCovered
<1> HIDE DEF c, s
<1>12. CashNeed'[o] + c <= cash + outCash
  <2>1. CASE x.side = "buy"
    <3>1. Cost(x.qty, x.price) <= AvailableCash(t, {})
      BY <2>1 DEF Submit
    <3>2. QED
      BY <2>1, <3>1, <1>6, <1>7, <1>8, <1>9, <1>10, <1>11
  <2>2. CASE x.side = "sell"
    BY <2>2, <1>6, <1>7, <1>8, <1>11 DEF Covered
  <2>3. QED
    BY <2>1, <2>2, <1>8
<1>13. SharesNeed'[o] + s <= held + outShares
  <2>1. CASE x.side = "sell"
    <3>1. x.qty <= AvailableShares(t, {})
      BY <2>1 DEF Submit
    <3>2. QED
      BY <2>1, <3>1, <1>6, <1>7, <1>8, <1>9, <1>11
  <2>2. CASE x.side = "buy"
    BY <2>2, <1>6, <1>7, <1>8, <1>11 DEF Covered
  <2>3. QED
    BY <2>1, <2>2, <1>8
<1>14. QED
  BY <1>2, <1>4, <1>12, <1>13 DEF Covered

\* A fill takes no more than the order had reserved, or than is available besides.
LEMMA FillCovered ==
    ASSUME Inv, Inv', SawCovered, SawCovered', Covered, NEW t \in Tasks, NEW o \in Orders,
           NEW k, NEW m, NEW q \in Nat, NEW p \in Nat, FillOrder(t, o, k, m, q, p)
    PROVE  Covered'
<1> DEFINE c == Total(CashNeed, Orders \ {o})
           s == Total(SharesNeed, Orders \ {o})
           r == terms[o].qty - done[o]
           x == terms[o]
<1>1. End(t) /\ pc[t] = "in"
  BY DEF FillOrder, End
<1>2. /\ sawBook[t].terms = terms /\ sawBook[t].done = done /\ status[o] \in Open
  BY <1>1, ReadHolds DEF FillOrder, Inv
<1>3. /\ x \in Terms /\ x.price \in Nat /\ x.qty \in Nat /\ done[o] \in Nat /\ r \in Nat
      /\ x.side \in {"buy", "sell"} /\ Remaining(sawBook[t], o) = r
  BY <1>2, OpenTerms DEF Remaining
<1>4. /\ status' = [status EXCEPT ![o] = StatusAfter(x, done[o] + q)]
      /\ done' = [done EXCEPT ![o] = done[o] + q] /\ terms' = terms
      /\ outCash' = outCash /\ outShares' = outShares /\ q <= r
  BY <1>2, <1>3 DEF FillOrder
<1>5. /\ status'[o] = StatusAfter(x, done[o] + q) /\ done'[o] = done[o] + q /\ terms'[o] = x
      /\ \A u \in Orders \ {o} :
               status'[u] = status[u] /\ terms'[u] = terms[u] /\ done'[u] = done[u]
  BY <1>4 DEF Inv, TypeOK
<1>6. /\ Total(CashNeed', Orders) = CashNeed'[o] + c
      /\ Total(SharesNeed', Orders) = SharesNeed'[o] + s
  BY <1>5, OneReservation
<1>7. /\ c \in Nat /\ s \in Nat
      /\ Total(CashNeed, Orders) = CashNeed[o] + c
      /\ Total(SharesNeed, Orders) = SharesNeed[o] + s
  BY NeedTotals
<1>8. CashNeed'[o] \in Nat /\ SharesNeed'[o] \in Nat
  BY NeedTypeNext
<1>9. r - q \in Nat /\ x.qty - (done[o] + q) = r - q
  BY <1>3, <1>4
<1>10. /\ Cost(r - q, x.price) \in Nat /\ Cost(q, p) \in Nat
       /\ Reservation(sawBook[t], o, Remaining(sawBook[t], o) - q) = Cost(r - q, x.price)
  BY <1>2, <1>3, <1>9, CostType DEF Reservation
<1>11. /\ CashNeed'[o] = IF status'[o] \in Open /\ x.side = "buy"
                         THEN Cost(r - q, x.price) ELSE 0
       /\ SharesNeed'[o] = IF status'[o] \in Open /\ x.side = "sell" THEN r - q ELSE 0
  BY <1>5, <1>9 DEF CashNeed, SharesNeed
<1>12. /\ AvailableCash(t, {o}) = sawCash[t] - c /\ AvailableShares(t, {o}) = held - s
  BY <1>1, AvailableIs
<1>13. sawCash[t] <= cash + outCash /\ sawCash[t] \in Int
  BY <1>1 DEF SawCovered, Inv, TypeOK
<1>14. cash \in Int /\ held \in Int /\ outCash \in Nat /\ outShares \in Nat
  BY DEF Inv, TypeOK, SawCovered
<1>15. CASE x.side = "buy"
  <2>1. /\ cash' = cash - Cost(q, p) /\ held' = held + q
        /\ Cost(q, p) + Cost(r - q, x.price) <= sawCash[t] - c
    BY <1>2, <1>10, <1>12, <1>15 DEF FillOrder
  <2>2. CashNeed'[o] <= Cost(r - q, x.price) /\ SharesNeed'[o] = 0 /\ SharesNeed[o] = 0
    BY <1>10, <1>11, <1>15 DEF SharesNeed
  <2> HIDE DEF c, s, r, x
  <2>3. CashNeed'[o] + c <= cash' + outCash
    BY <2>1, <2>2, <1>7, <1>8, <1>10, <1>13, <1>14
  <2>4. SharesNeed'[o] + s <= held' + outShares /\ held' >= 0
    BY <2>1, <2>2, <1>7, <1>14 DEF Covered
  <2>5. QED
    BY <1>4, <1>6, <2>3, <2>4 DEF Covered
<1>16. CASE x.side = "sell"
  <2>1. /\ cash' = cash + q * p * (Unit - Fee) /\ held' = held - q /\ q <= held - s
    BY <1>2, <1>12, <1>16 DEF FillOrder
  <2>2. /\ SharesNeed'[o] <= r - q /\ SharesNeed[o] = r
        /\ CashNeed'[o] = 0 /\ CashNeed[o] = 0
    BY <1>2, <1>9, <1>11, <1>16 DEF SharesNeed, CashNeed
  <2>3. q * p * (Unit - Fee) \in Nat
    <3>1. q * p \in Nat /\ Unit - Fee \in Nat
      OBVIOUS
    <3>2. QED
      BY <3>1
  <2> DEFINE gain == q * p * (Unit - Fee)
  <2> HIDE DEF c, s, r, x, gain
  <2>4. CashNeed'[o] + c <= cash' + outCash
    <3>1. c <= cash + outCash
      BY <2>2, <1>7 DEF Covered
    <3>2. gain \in Nat /\ cash' = cash + gain
      BY <2>1, <2>3 DEF gain
    <3>3. QED
      BY <2>2, <3>1, <3>2, <1>7, <1>14
  <2>5. SharesNeed'[o] + s <= held' + outShares /\ held' >= 0
    BY <2>1, <2>2, <1>3, <1>7, <1>8, <1>14 DEF Covered
  <2>6. QED
    BY <1>4, <1>6, <2>4, <2>5 DEF Covered
<1>17. QED
  BY <1>3, <1>15, <1>16

\* The price of a fill by quote.
LEMMA PriceIsNat == ASSUME NEW x \in Terms, NEW m \in Quotes PROVE SlippedPrice(x, m) \in Nat
  BY DEF SlippedPrice, WithinLimit

\* An order that is open and no other reserves anything; closing it frees that.
LEMMA ClosedCovered ==
    ASSUME Inv, Inv', SawCovered, SawCovered', Covered,
           \A o \in Orders : status'[o] = status[o] \/ status'[o] \in Final,
           UNCHANGED <<cash, held, terms, done, outCash, outShares>>
    PROVE  Covered'
<1>1. ASSUME NEW o \in Orders
      PROVE  CashNeed'[o] <= CashNeed[o] /\ SharesNeed'[o] <= SharesNeed[o]
  <2>1. CashNeed[o] \in Nat /\ SharesNeed[o] \in Nat
    BY NeedType
  <2>2. CASE status'[o] = status[o]
    <3>1. CashNeed'[o] = CashNeed[o] /\ SharesNeed'[o] = SharesNeed[o]
      BY <2>2 DEF CashNeed, SharesNeed
    <3>2. QED
      BY <2>1, <3>1
  <2>3. CASE status'[o] \in Final
    <3>1. CashNeed'[o] = 0 /\ SharesNeed'[o] = 0
      BY <2>3, OpenIsNotFinal DEF CashNeed, SharesNeed
    <3>2. QED
      BY <2>1, <3>1
  <2>4. QED
    BY <2>2, <2>3
<1>2. /\ cash + outCash <= cash' + outCash' /\ held + outShares <= held' + outShares'
      /\ held' >= 0
  BY DEF Inv, TypeOK, Covered
<1>3. QED
  BY <1>1, <1>2, LessReserved

\* The owner's own trade: what it takes is counted as taken out.
LEMMA OwnTradeCovered ==
    ASSUME Inv, Inv', SawCovered, SawCovered', Covered, NEW t \in Tasks,
           NEW side \in {"buy", "sell"}, NEW q \in Sizes, NEW p \in Prices,
           OwnTrade(t, side, q, p)
    PROVE  Covered'
<1> DEFINE paid == q * p * Unit
<1>1. q \in Nat /\ p \in Nat /\ q * p \in Nat
  BY DEF Sizes
<1>2. paid \in Nat
  BY <1>1
<1>3. UNCHANGED <<status, terms, done>> /\ End(t)
  BY DEF OwnTrade
<1>4. sawBook[t].held = held
  BY <1>3, ReadHolds DEF Inv
<1>5. \/ /\ cash' = cash - paid /\ held' = held + q
         /\ outCash' = outCash + paid /\ outShares' = outShares
      \/ /\ cash' = cash + paid /\ held' = held - q /\ q <= held
         /\ outCash' = outCash /\ outShares' = outShares + q
  BY <1>4 DEF OwnTrade
<1>6. cash \in Int /\ held \in Nat /\ outCash \in Nat /\ outShares \in Nat
  BY DEF Inv, TypeOK, SawCovered, Covered
<1> HIDE DEF paid
<1>7. /\ cash + outCash <= cash' + outCash' /\ held + outShares <= held' + outShares'
      /\ held' >= 0
  BY <1>1, <1>2, <1>5, <1>6
<1>8. ASSUME NEW o \in Orders
      PROVE  CashNeed'[o] <= CashNeed[o] /\ SharesNeed'[o] <= SharesNeed[o]
  <2>1. CashNeed'[o] = CashNeed[o] /\ SharesNeed'[o] = SharesNeed[o]
    BY <1>3 DEF CashNeed, SharesNeed
  <2>2. CashNeed[o] \in Nat /\ SharesNeed[o] \in Nat
    BY NeedType
  <2>3. QED
    BY <2>1, <2>2
<1>9. QED
  BY <1>7, <1>8, LessReserved

LEMMA MoveCashCovered ==
    ASSUME Inv, Inv', SawCovered, SawCovered', Covered, NEW a \in Amounts, MoveCash(a)
    PROVE  Covered'
<1>1. /\ cash + outCash <= cash' + outCash' /\ held + outShares <= held' + outShares'
      /\ held' >= 0
  BY DEF MoveCash, Inv, TypeOK, Covered
<1>2. ASSUME NEW o \in Orders
      PROVE  CashNeed'[o] <= CashNeed[o] /\ SharesNeed'[o] <= SharesNeed[o]
  <2>1. CashNeed'[o] = CashNeed[o] /\ SharesNeed'[o] = SharesNeed[o]
    BY DEF MoveCash, CashNeed, SharesNeed
  <2>2. CashNeed[o] \in Nat /\ SharesNeed[o] \in Nat
    BY NeedType
  <2>3. QED
    BY <2>1, <2>2
<1>3. QED
  BY <1>1, <1>2, LessReserved

LEMMA NextCovered ==
    Inv /\ Inv' /\ SawCovered /\ SawCovered' /\ Covered /\ [Next]_vars => Covered'
<1> SUFFICES ASSUME Inv, Inv', SawCovered, SawCovered', Covered, [Next]_vars
             PROVE  Covered'
  OBVIOUS
<1> DEFINE Same == UNCHANGED <<cash, held, status, terms, done, outCash, outShares>>
<1>0. CASE Same
  BY <1>0, ClosedCovered
<1>1. ASSUME NEW t \in Tasks, Advance(t) PROVE Same
  BY <1>1 DEF Advance, Arrive, Begin, Skip, JobEnds
<1>2. ASSUME NEW t \in Tasks, Dies(t) PROVE Same
  BY <1>2 DEF Dies
<1>3. ASSUME NEW t \in Tasks, Leave(t) PROVE Same
  BY <1>3 DEF Leave
<1>4. CASE Close \/ Opens \/ UNCHANGED vars
  <2>1. Same
    BY <1>4 DEF Close, Opens
  <2>2. QED
    BY <1>0, <2>1
<1>5. ASSUME NEW t \in Tasks, NEW o \in Orders, NEW k \in Keys, NEW q \in Sizes,
             NEW p \in Prices, ManualFill(t, o, k, q, p)
      PROVE  Covered'
  <2>1. q \in Nat /\ p \in Nat
    BY DEF Sizes
  <2>2. QED
    BY <1>5, <2>1, FillCovered DEF ManualFill
<1>6. ASSUME NEW t \in Tasks, NEW o \in Orders, NEW m \in Quotes, Match(t, o, m)
      PROVE  Covered'
  <2> DEFINE r == Remaining(sawBook[t], o)
             q == IF r < m.size THEN r ELSE m.size
             p == SlippedPrice(sawBook[t].terms[o], m)
             key == QuoteKey(m, sawBook[t].done[o])
  <2>1. End(t) /\ FillOrder(t, o, key, m, q, p)
    BY <1>6 DEF Match, FillOrder
  <2>2. status[o] \in Open /\ sawBook[t].terms[o] = terms[o]
    BY <2>1, ReadHolds DEF FillOrder, Inv
  <2>3. r \in Nat /\ terms[o] \in Terms
    BY <2>1, <2>2, RemainingType
  <2>4. p \in Nat
    BY <2>2, <2>3, PriceIsNat
  <2>5. q \in Nat
    BY <2>3
  <2> HIDE DEF p, q, r, key
  <2>6. QED
    BY <2>1, <2>4, <2>5, FillCovered
<1>7. ASSUME NEW t \in Tasks, NEW o \in Orders, Expire(t, o) \/ Cancel(t, o)
      PROVE  Covered'
  <2>1. UNCHANGED <<cash, held, terms, done, outCash, outShares>>
    BY <1>7 DEF Expire, Cancel
  <2>2. \A u \in Orders : status'[u] = status[u] \/ status'[u] \in Final
    BY <1>7 DEF Expire, Cancel, Final, Inv, TypeOK
  <2>3. QED
    BY <2>1, <2>2, ClosedCovered
<1>8. ASSUME NEW t \in Tasks, NEW e \in BOOLEAN, NEW c \in Caps, UpdatePolicy(t, e, c)
      PROVE  Covered'
  <2>1. UNCHANGED <<cash, held, terms, done, outCash, outShares>>
    BY <1>8 DEF UpdatePolicy
  <2>2. \A u \in Orders : status'[u] = status[u] \/ status'[u] \in Final
    BY <1>8 DEF UpdatePolicy, Final
  <2>3. QED
    BY <2>1, <2>2, ClosedCovered
<1>9. ASSUME NEW t \in Tasks, Finish(t) PROVE Covered'
  BY <1>0, <1>3, <1>5, <1>6, <1>7, <1>8, <1>9, SubmitCovered, OwnTradeCovered DEF Finish
<1>10. QED
  BY <1>0, <1>1, <1>2, <1>4, <1>9, MoveCashCovered DEF Next

\* A portfolio that begins without a debt has, for all its open buy orders, the cash
\* at their prices with fees, and for all its open sell orders the shares, but for
\* what the owner has taken out by hand: however its orders are submitted and filled.
THEOREM ReservedIsThere == Cash >= 0 => (Spec => []ReservationsCovered)
<1> SUFFICES ASSUME Cash >= 0 PROVE Spec => []ReservationsCovered
  OBVIOUS
<1>1. Init => SawCovered /\ Covered
  <2> SUFFICES ASSUME Init PROVE SawCovered /\ Covered
    OBVIOUS
  <2>1. \A o \in Orders : CashNeed[o] = 0 /\ SharesNeed[o] = 0
    BY DEF Init, CashNeed, SharesNeed, Open
  <2>2. Total(CashNeed, Orders) = 0 /\ Total(SharesNeed, Orders) = 0
    <3>1. \A o \in Orders : CashNeed[o] \in Int /\ SharesNeed[o] \in Int
      BY <2>1
    <3>2. {} \in SUBSET Orders
      OBVIOUS
    <3>3. /\ Total(CashNeed, Orders) = Total(CashNeed, {})
          /\ Total(SharesNeed, Orders) = Total(SharesNeed, {})
      BY <2>1, <3>1, <3>2, TotalSupport
    <3>4. QED
      BY <3>3, TotalEmpty
  <2>3. QED
    BY <2>2 DEF Init, SawCovered, Covered
<1>2. Inv /\ SawCovered /\ Covered => ReservationsCovered
  <2> SUFFICES ASSUME Inv, SawCovered, Covered PROVE ReservationsCovered
    OBVIOUS
  <2>1. Book.status = status /\ Book.done = done /\ Book.terms = terms
    BY DEF Book
  <2>2. Orders \ {} = Orders
    OBVIOUS
  <2>3. /\ ReservedCash(Book, {}) = Total(CashNeed, Orders)
        /\ ReservedShares(Book, {}) = Total(SharesNeed, Orders)
    BY <2>1, <2>2, ReservedCashIs, ReservedSharesIs
  <2>4. /\ Total(CashNeed, Orders) \in Int /\ Total(SharesNeed, Orders) \in Int
        /\ cash + outCash \in Int /\ held + outShares \in Int
    <3>1. \A o \in Orders : CashNeed[o] \in Nat /\ SharesNeed[o] \in Nat
      BY NeedType
    <3>2. QED
      BY <3>1, TotalNat DEF Inv, TypeOK
  <2>5. QED
    BY <2>3, <2>4 DEF Covered, ReservationsCovered
<1>3. QED
  BY <1>1, <1>2, NextSaw, NextCovered, InvHolds, PTL DEF Spec

-----------------------------------------------------------------------------
(* The fills of an order add up.                                            *)

FillRows == [order : Orders, key : Keys \cup Quotes, quote : Quotes \cup {NoQuote}, qty : Nat]
FillQty == [f \in FillRows |-> f.qty]
FillsOf(o) == {f \in fills : f.order = o}
AddUp ==
    /\ IsFiniteSet(fills)
    /\ \A o \in Orders :
        /\ done[o] = Total(FillQty, FillsOf(o))
        /\ status[o] \in {"none", "pending"} => done[o] = 0
        /\ status[o] = "partially_filled" => done[o] \in 1..(terms[o].qty - 1)
        /\ status[o] = "filled" => done[o] = terms[o].qty

\* A step fills one order by a new row, or leaves what has been filled alone.
FillStep(o, f) ==
    /\ status[o] \in Open /\ f.order = o /\ f.qty # 0 /\ f \notin fills
    /\ f.qty <= terms[o].qty - done[o]
    /\ fills' = fills \cup {f} /\ terms' = terms
    /\ done' = [done EXCEPT ![o] = done[o] + f.qty]
    /\ status' = [status EXCEPT ![o] = StatusAfter(terms[o], done[o] + f.qty)]
QuietOrder(o) ==
    \/ status'[o] = status[o] /\ terms'[o] = terms[o]
    \/ status[o] = "none" /\ status'[o] = "pending"
    \/ status'[o] \in {"cancelled", "expired"}
Quiet == UNCHANGED <<done, fills>> /\ \A o \in Orders : QuietOrder(o)

LEMMA FillIsStep ==
    ASSUME Inv, NEW t \in Tasks, NEW o \in Orders, NEW k \in Keys \cup Quotes,
           NEW m \in Quotes \cup {NoQuote}, NEW q \in Nat \ {0}, NEW p,
           FillOrder(t, o, k, m, q, p)
    PROVE  \E f \in FillRows : FillStep(o, f)
<1> DEFINE f == [order |-> o, key |-> k, quote |-> m, qty |-> q]
<1>1. End(t)
  BY DEF FillOrder
<1>2. /\ status[o] \in Open /\ sawBook[t].done = done /\ sawBook[t].terms = terms
      /\ ~\E g \in fills : g.order = o /\ g.key = k
  BY <1>1, ReadHolds DEF FillOrder, Inv
<1>3. q <= terms[o].qty - done[o]
  BY <1>1, <1>2, RemainingType DEF FillOrder
<1>4. /\ fills' = fills \cup {f} /\ terms' = terms
      /\ done' = [done EXCEPT ![o] = done[o] + q]
      /\ status' = [status EXCEPT ![o] = StatusAfter(terms[o], done[o] + q)]
  BY <1>2 DEF FillOrder
<1>5. f \in FillRows /\ f.order = o /\ f.key = k /\ f.qty = q
  BY DEF FillRows
<1>6. f \notin fills
  BY <1>2, <1>5
<1> HIDE DEF f
<1>7. FillStep(o, f)
  BY <1>2, <1>3, <1>4, <1>5, <1>6 DEF FillStep
<1>8. QED
  BY <1>5, <1>7

\* An open order has something left.
LEMMA SomethingLeft ==
    ASSUME Inv, AddUp, NEW o \in Orders, status[o] \in Open
    PROVE  terms[o].qty - done[o] \in Nat \ {0}
<1>1. terms[o] \in Terms /\ terms[o].qty \in Nat /\ done[o] \in Nat
  BY OpenTerms
<1>2. terms[o].qty # 0
  BY <1>1
<1>3. done[o] = 0 \/ done[o] \in 1..(terms[o].qty - 1)
  BY DEF AddUp, Open
<1>4. QED
  BY <1>1, <1>2, <1>3

LEMMA StepFills ==
    ASSUME Inv, AddUp, [Next]_vars
    PROVE  Quiet \/ \E o \in Orders, f \in FillRows : FillStep(o, f)
<1> DEFINE Fills == \E o \in Orders, f \in FillRows : FillStep(o, f)
<1> HIDE DEF Fills
<1>0. ASSUME UNCHANGED <<status, terms, done, fills>> PROVE Quiet
  BY <1>0 DEF Quiet, QuietOrder
<1>1. ASSUME NEW t \in Tasks, Advance(t) PROVE UNCHANGED <<status, terms, done, fills>>
  BY <1>1 DEF Advance, Arrive, Begin, Skip, JobEnds
<1>2. ASSUME NEW t \in Tasks, Dies(t) \/ Leave(t) PROVE UNCHANGED <<status, terms, done, fills>>
  BY <1>2 DEF Dies, Leave
<1>3. ASSUME (\E a \in Amounts : MoveCash(a)) \/ Close \/ Opens \/ UNCHANGED vars
      PROVE  Quiet
  <2>1. UNCHANGED <<status, terms, done, fills>>
    BY <1>3 DEF MoveCash, Close, Opens
  <2>2. QED
    BY <1>0, <2>1
<1>4. ASSUME NEW t \in Tasks, NEW s \in {"buy", "sell"}, NEW q \in Sizes, NEW p \in Prices,
             OwnTrade(t, s, q, p)
      PROVE  UNCHANGED <<status, terms, done, fills>>
  BY <1>4 DEF OwnTrade
<1>5. ASSUME NEW t \in Tasks, NEW o \in Orders, NEW x \in Terms, Submit(t, o, x)
      PROVE  Quiet
  <2>1. End(t) /\ status[o] = "none"
    BY <1>5, ReadHolds DEF Submit, Inv
  <2>2. /\ status' = [status EXCEPT ![o] = "pending"] /\ terms' = [terms EXCEPT ![o] = x]
        /\ UNCHANGED <<done, fills>>
    BY <1>5 DEF Submit
  <2>3. QED
    BY <2>1, <2>2 DEF Quiet, QuietOrder, Inv, TypeOK
<1>6. ASSUME NEW t \in Tasks, NEW o \in Orders, NEW k \in Keys, NEW q \in Sizes,
             NEW p \in Prices, ManualFill(t, o, k, q, p)
      PROVE  Fills
  <2>1. q \in Nat \ {0}
    BY DEF Sizes
  <2>2. QED
    BY <1>6, <2>1, FillIsStep DEF ManualFill, Fills
<1>7. ASSUME NEW t \in Tasks, NEW o \in Orders, NEW m \in Quotes, Match(t, o, m)
      PROVE  Fills
  <2> DEFINE r == Remaining(sawBook[t], o)
             q == IF r < m.size THEN r ELSE m.size
             p == SlippedPrice(sawBook[t].terms[o], m)
  <2>1. End(t) /\ FillOrder(t, o, m, m, q, p)
    BY <1>7 DEF Match, FillOrder, QuoteKey
  <2>2. status[o] \in Open
    BY <2>1, ReadHolds DEF FillOrder, Inv
  <2>3. r \in Nat \ {0}
    BY <2>1, <2>2, RemainingType, SomethingLeft
  <2>4. q \in Nat \ {0}
    BY <2>3
  <2> HIDE DEF p, q, r
  <2>5. QED
    BY <2>1, <2>4, FillIsStep DEF Fills
<1>8. ASSUME NEW t \in Tasks, NEW o \in Orders, Expire(t, o) \/ Cancel(t, o) PROVE Quiet
  BY <1>8 DEF Expire, Cancel, Quiet, QuietOrder, Inv, TypeOK
<1>9. ASSUME NEW t \in Tasks, NEW e \in BOOLEAN, NEW c \in Caps, UpdatePolicy(t, e, c)
      PROVE  Quiet
  BY <1>9 DEF UpdatePolicy, Quiet, QuietOrder
<1>10. ASSUME NEW t \in Tasks, Finish(t) PROVE Quiet \/ Fills
  BY <1>0, <1>2, <1>4, <1>5, <1>6, <1>7, <1>8, <1>9, <1>10 DEF Finish
<1>11. Quiet \/ Fills
  BY <1>0, <1>1, <1>2, <1>3, <1>10 DEF Next
<1>12. QED
  BY <1>11 DEF Fills

LEMMA NextAddUp == Inv /\ Inv' /\ AddUp /\ [Next]_vars => AddUp'
<1> SUFFICES ASSUME Inv, Inv', AddUp, [Next]_vars PROVE AddUp'
  OBVIOUS
<1>1. CASE Quiet
  <2>1. IsFiniteSet(fills)'
    BY <1>1 DEF Quiet, AddUp
  <2>2. ASSUME NEW o \in Orders
        PROVE  /\ done'[o] = Total(FillQty, FillsOf(o)')
               /\ status'[o] \in {"none", "pending"} => done'[o] = 0
               /\ status'[o] = "partially_filled" => done'[o] \in 1..(terms'[o].qty - 1)
               /\ status'[o] = "filled" => done'[o] = terms'[o].qty
    <3>1. FillsOf(o)' = FillsOf(o) /\ done'[o] = done[o] /\ QuietOrder(o)
      BY <1>1 DEF Quiet, FillsOf
    <3>2. QED
      BY <3>1 DEF AddUp, QuietOrder
  <2>3. QED
    BY <2>1, <2>2 DEF AddUp
<1>2. ASSUME NEW u \in Orders, NEW f \in FillRows, FillStep(u, f) PROVE AddUp'
  <2>1. IsFiniteSet(fills)'
    <3>1. IsFiniteSet(fills \cup {f})
      BY FS_AddElement DEF AddUp
    <3>2. QED
      BY <1>2, <3>1 DEF FillStep
  <2>2. /\ terms[u] \in Terms /\ terms[u].qty \in Nat /\ done[u] \in Nat
        /\ f.qty \in Nat \ {0} /\ f.qty <= terms[u].qty - done[u]
    BY <1>2, OpenTerms DEF FillStep, FillRows
  <2>3. /\ done'[u] = done[u] + f.qty
        /\ status'[u] = StatusAfter(terms[u], done[u] + f.qty) /\ terms' = terms
        /\ \A o \in Orders \ {u} : done'[o] = done[o] /\ status'[o] = status[o]
    BY <1>2 DEF FillStep, Inv, TypeOK
  <2>4. FillsOf(u)' = FillsOf(u) \cup {f} /\ f \notin FillsOf(u)
    BY <1>2 DEF FillStep, FillsOf
  <2>5. Total(FillQty, FillsOf(u)') = f.qty + Total(FillQty, FillsOf(u))
    <3>1. IsFiniteSet(FillsOf(u))
      BY FS_Subset DEF FillsOf, AddUp
    <3>2. \A g \in FillRows : FillQty[g] \in Int
      BY DEF FillQty, FillRows
    <3>3. FillsOf(u) \subseteq FillRows
      BY DEF FillsOf, FillRows, Inv, TypeOK
    <3>4. \A g \in FillsOf(u) \cup {f} : FillQty[g] \in Int
      BY <3>2, <3>3
    <3>5. FillQty[f] = f.qty
      BY DEF FillQty
    <3>6. QED
      BY <2>4, <3>1, <3>4, <3>5, TotalAdd
  <2>6. done'[u] = Total(FillQty, FillsOf(u)')
    BY <2>2, <2>3, <2>5 DEF AddUp
  <2>7. /\ status'[u] \in {"none", "pending"} => done'[u] = 0
        /\ status'[u] = "partially_filled" => done'[u] \in 1..(terms'[u].qty - 1)
        /\ status'[u] = "filled" => done'[u] = terms'[u].qty
    BY <2>2, <2>3 DEF StatusAfter
  <2>8. ASSUME NEW o \in Orders, o # u
        PROVE  /\ done'[o] = Total(FillQty, FillsOf(o)')
               /\ status'[o] \in {"none", "pending"} => done'[o] = 0
               /\ status'[o] = "partially_filled" => done'[o] \in 1..(terms'[o].qty - 1)
               /\ status'[o] = "filled" => done'[o] = terms'[o].qty
    <3>1. FillsOf(o)' = FillsOf(o)
      BY <1>2, <2>8 DEF FillStep, FillsOf
    <3>2. QED
      BY <2>3, <2>8, <3>1 DEF AddUp
  <2>9. QED
    BY <2>1, <2>6, <2>7, <2>8 DEF AddUp
<1>3. QED
  BY <1>1, <1>2, StepFills

\* The sum of the model over the fills of an order.
LEMMA FillSumIs ==
    ASSUME NEW S \in SUBSET FillRows, IsFiniteSet(S)
    PROVE  MapThenSumSet(LAMBDA f : f.qty, S) = Total(FillQty, S)
<1> DEFINE h == Table(FillQty, S)
<1>1. \A f \in S : FillQty[f] \in Int /\ FillQty[f] = f.qty
  BY DEF FillQty, FillRows
<1>2. IsTable(h, FillQty, S) /\ \A g : IsTable(g, FillQty, S) => g = h
  <2>1. IsTable(h, FillQty, S)
    BY <1>1, TableHolds
  <2>2. QED
    BY <1>1, <2>1, TableUnique
<1>3. \A U \in SUBSET S : U # {} => FillQty[Pick(U)] = Pick(U).qty
  BY <1>1, PickIn
<1> HIDE DEF h
<1>4. h = [U \in SUBSET S |-> IF U = {} THEN 0
              ELSE (CHOOSE f \in U : TRUE).qty + h[U \ {CHOOSE f \in U : TRUE}]]
  BY <1>2, <1>3 DEF IsTable, Pick
<1>5. ASSUME NEW g, g = [U \in SUBSET S |-> IF U = {} THEN 0
              ELSE (CHOOSE f \in U : TRUE).qty + g[U \ {CHOOSE f \in U : TRUE}]]
      PROVE  g = h
  <2>1. ASSUME NEW U \in SUBSET S
        PROVE  g[U] = IF U = {} THEN 0 ELSE FillQty[Pick(U)] + g[U \ {Pick(U)}]
    <3>1. g[U] = IF U = {} THEN 0 ELSE Pick(U).qty + g[U \ {Pick(U)}]
      BY <1>5 DEF Pick
    <3>2. QED
      BY <1>3, <3>1
  <2>2. g = [U \in SUBSET S |-> g[U]]
    BY <1>5
  <2>3. IsTable(g, FillQty, S)
    BY <2>1, <2>2 DEF IsTable
  <2>4. QED
    BY <1>2, <2>3
<1>6. MapThenSumSet(LAMBDA f : f.qty, S) = h[S]
  BY <1>4, <1>5 DEF MapThenSumSet, MapThenFoldSet
<1>7. QED
  BY <1>6 DEF Total, h

\* What an order has been filled is the sum of its fills, and its status says how far
\* it has got.
THEOREM FillsAreCounted == Spec => []FillsAddUp
<1>1. Init => AddUp
  <2> SUFFICES ASSUME Init PROVE AddUp
    OBVIOUS
  <2>1. \A o \in Orders : FillsOf(o) = {}
    BY DEF Init, FillsOf
  <2>2. QED
    BY <2>1, TotalEmpty, FS_EmptySet DEF Init, AddUp
<1>2. Inv /\ AddUp => FillsAddUp
  <2> SUFFICES ASSUME Inv, AddUp, NEW o \in Orders
               PROVE  /\ done[o] = MapThenSumSet(LAMBDA f : f.qty, FillsOf(o))
                      /\ status[o] \in {"none", "pending"} => done[o] = 0
                      /\ status[o] = "partially_filled" => done[o] \in 1..(terms[o].qty - 1)
                      /\ status[o] \in Final => done[o] <= terms[o].qty
                      /\ status[o] = "filled" => done[o] = terms[o].qty
    BY DEF FillsAddUp, FillsOf
  <2>1. FillsOf(o) \in SUBSET FillRows /\ IsFiniteSet(FillsOf(o))
    BY FS_Subset DEF FillsOf, FillRows, AddUp, Inv, TypeOK
  <2>2. MapThenSumSet(LAMBDA f : f.qty, FillsOf(o)) = Total(FillQty, FillsOf(o))
    BY <2>1, FillSumIs
  <2>3. status[o] \in Final => done[o] <= terms[o].qty
    BY DEF Inv, TypeOK, Final
  <2>4. QED
    BY <2>2, <2>3 DEF AddUp
<1>3. QED
  BY <1>1, <1>2, NextAddUp, InvHolds, PTL DEF Spec

=============================================================================
