----------------------------- MODULE TradeHistory -----------------------------
(***************************************************************************)
(* The arithmetic of a portfolio's transactions: the order they are read   *)
(* in, the position after each, what a rebuild stores as the holding and   *)
(* which rows an import refuses.  A book is a function from transaction    *)
(* numbers, given in the order of creation, to terms or NoTrade.           *)
(***************************************************************************)
EXTENDS Integers, Sequences, FiniteSets, SequencesExt, FiniteSetsExt

CONSTANTS
    Ids,          \* numbers of transactions, as they are created
    NoTrade,      \* the transaction does not exist (yet, or any more)
    Instruments,  \* (symbol, market) pairs
    CurrencyOf    \* the settlement currency of an instrument's market

Sides == {"buy", "sell", "dividend"}
\* What a transaction says: prices may be zero, quantities are positive.
Terms == [inst : Instruments, side : Sides, qty : Nat \ {0}, price : Nat, day : Nat]

Live(book) == {t \in Ids : book[t] # NoTrade}
Of(book, i) == {t \in Live(book) : book[t].inst = i}
\* The transactions in i, each with its number.
History(book, i) == {[no |-> t, x |-> book[t]] : t \in Of(book, i)}

\* ORDER BY tx_date, created_at, id.
Earlier(p, q) == p.x.day < q.x.day \/ (p.x.day = q.x.day /\ p.no < q.no)

\* What a transaction adds to the position, and several together.
Signed(x) == CASE x.side = "buy" -> x.qty [] x.side = "sell" -> -x.qty [] OTHER -> 0
Position(h) == MapThenSumSet(LAMBDA p : Signed(p.x), h)
UpTo(h, q) == {p \in h : p = q \/ Earlier(p, q)}
\* _validate_no_short_position: no sale exceeds what is held at its time.
NeverNegative(h) == \A p \in h : p.x.side = "sell" => Position(UpTo(h, p)) >= 0
Covered(book, i) == NeverNegative(History(book, i))

\* A sale of more than there is leaves nothing; an import's replay skips it.
Clamp(q, x) == CASE x.side = "buy" -> q + x.qty
                 [] x.side = "sell" -> IF q > x.qty THEN q - x.qty ELSE 0
                 [] OTHER -> q
Skip(q, x) == IF x.side = "sell" /\ q < x.qty THEN q ELSE q + Signed(x)

Rebuilt_Backwards(book, i) ==                                     \* mutant
    {FoldLeft(LAMBDA q, p : Clamp(q, p.x), 0, s) :
        s \in {r \in SetToSeqs(History(book, i)) :
                   \A m, n \in 1..Len(r) : m < n => r[m].x.day >= r[n].x.day}}
\* _rebuild_holding orders by the date alone: transactions of one day are
\* replayed in any order.
Rebuilt(book, i) ==
    {FoldLeft(LAMBDA q, p : Clamp(q, p.x), 0, s) :
        s \in {r \in SetToSeqs(History(book, i)) :
                   \A m, n \in 1..Len(r) : m < n => r[m].x.day <= r[n].x.day}}

\* import_transactions: the sale t exceeds what the replay has left for it.
Oversold(book, t) ==
    LET it == [no |-> t, x |-> book[t]]
        before == SetToSortSeq(UpTo(History(book, it.x.inst), it) \ {it}, Earlier)
    IN /\ it.x.side = "sell"
       /\ FoldLeft(LAMBDA q, p : Skip(q, p.x), 0, before) < it.x.qty

\* transaction_cash_amount and transaction_settlement_currency.
CashAmount(x) == IF x.side = "buy" THEN -(x.qty * x.price) ELSE x.qty * x.price
Cash(x) == [cur |-> CurrencyOf[x.inst], amount |-> CashAmount(x), day |-> x.day]
\* What a transaction settles with: nothing for an amount of zero.
Settlement(x) == IF CashAmount(x) = 0 THEN {} ELSE {Cash(x)}
=============================================================================
