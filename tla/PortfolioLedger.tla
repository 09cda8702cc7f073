--------------------------- MODULE PortfolioLedger ---------------------------
(***************************************************************************)
(* The ledger of one portfolio: its transactions, the holdings rebuilt     *)
(* from them, and the append-only cash entries that settle them.  An       *)
(* operation on transactions is one database transaction under the lock of *)
(* the portfolio's row, so it is one step; cash entries made by hand take  *)
(* no lock and are a check and an insertion.  A refused request changes    *)
(* nothing.  LedgerBook says what all of it amounts to.                    *)
(***************************************************************************)
EXTENDS TradeHistory

CONSTANTS
    MaxTrades,  \* bound on the transactions created
    MaxPosts,   \* bound on the settlements posted for one transaction
    Inputs,     \* the terms a caller may send
    Files,      \* the contents of CSV files ...
    Rows,       \* ... the terms in each, by date
    NoFile,     \* not imported
    Requests,   \* requests on cash entries
    Keys,       \* their idempotency keys
    NoKey,      \* not depositing
    NoEntry,    \* not reversing
    Deposits,   \* the currency and signed amount a caller may send
    Fees,       \* of paper fills
    Currencies, Today

ASSUME LedgerAssumption ==
    /\ MaxTrades \in Nat /\ Ids = 1..MaxTrades /\ NoTrade \notin Terms \cup Ids
    /\ Keys \cap Ids = {} /\ NoKey \notin Keys
    /\ CurrencyOf \in [Instruments -> Currencies] /\ Inputs \subseteq Terms
    /\ NoFile \notin Files /\ Rows \in [Files -> Seq(Terms)]
    /\ Deposits \subseteq [cur : Currencies, amount : Int]
    /\ Fees \subseteq Nat /\ MaxPosts \in Nat /\ Today \in Nat
ASSUME RowsAssumption ==
    \A f \in Files : /\ Rows[f] # <<>>
                     /\ \A m, n \in DOMAIN Rows[f] : m < n => Rows[f][m].day <= Rows[f][n].day

VARIABLES
    made,       \* transactions created so far
    trade,      \* the terms of each, or NoTrade
    source,     \* import_id
    imported,   \* portfolio_transaction_imports, by content hash
    paper,      \* transactions that a paper fill refers to
    holding,    \* quantity held of each instrument
    \* portfolio_cash_entries: settlements, the reversals of them, entries by
    \* hand (and fees of paper fills), reversals by hand
    settled, undone, manual, handback,
    posts,      \* settlements posted for each transaction
    \* the requests between their check and their insertion
    depositing, reversing

bookVars == <<made, trade, source, imported, paper, holding>>
cashVars == <<settled, undone, posts>>
handVars == <<manual, handback, depositing, reversing>>
vars == <<bookVars, cashVars, handVars>>

Init ==
    /\ made = 0 /\ trade = [t \in Ids |-> NoTrade] /\ source = [t \in Ids |-> NoFile]
    /\ imported = {} /\ paper = {} /\ holding = [i \in Instruments |-> 0]
    /\ settled = {} /\ undone = {} /\ manual = {} /\ handback = {}
    /\ posts = [t \in Ids |-> 0]
    /\ depositing = [r \in Requests |-> NoKey] /\ reversing = [r \in Requests |-> NoEntry]

-----------------------------------------------------------------------------
(* Cash entries.                                                           *)

Reversed(e) == \E r \in undone \cup handback : r.of = e
\* The settlements of t that are not reversed.
Open(t) == {e \in settled : e.trade = t /\ ~Reversed(e)}

Counter_Today(e) ==                                               \* mutant
    [of |-> e, by |-> "ledger", cur |-> e.cur, amount |-> -e.amount, day |-> Today]
\* transaction_reversal: it carries the date of what it reverses.
Counter(e) ==
    [of |-> e, by |-> "ledger", cur |-> e.cur, amount |-> -e.amount, day |-> e.day]
Entry(t, n, x) ==
    [kind |-> "settlement", trade |-> t, no |-> n,
     cur |-> Cash(x).cur, amount |-> Cash(x).amount, day |-> Cash(x).day]

\* reverse_transaction_settlement.
ReverseOpen(S) == undone' = undone \cup {Counter(e) : e \in UNION {Open(t) : t \in S}}

Settle_ZeroKept(S, book) ==                                       \* mutant
    LET owing == {t \in S : CashAmount(book[t]) # 0}
    IN /\ ReverseOpen(owing)
       /\ posts' = [t \in Ids |-> IF t \in owing THEN posts[t] + 1 ELSE posts[t]]
       /\ settled' = settled \cup {Entry(t, posts[t] + 1, book[t]) : t \in owing}
\* replace_transaction_settlement, for each of S.
Settle(S, book) ==
    LET owing == {t \in S : CashAmount(book[t]) # 0}
    IN /\ ReverseOpen(S)
       /\ posts' = [t \in Ids |-> IF t \in owing THEN posts[t] + 1 ELSE posts[t]]
       /\ settled' = settled \cup {Entry(t, posts[t] + 1, book[t]) : t \in owing}

\* _rebuild_holding, for each of I.
Rebuild(I, book) ==
    holding' \in {h \in [Instruments -> UNION {Rebuilt(book, i) : i \in I}
                                        \cup {holding[i] : i \in Instruments}] :
                     \A i \in Instruments :
                         IF i \in I THEN h[i] \in Rebuilt(book, i) ELSE h[i] = holding[i]}

-----------------------------------------------------------------------------
(* Operations on transactions.                                             *)

\* add_transaction.
Add(x) ==
    LET t == made + 1
        book == [trade EXCEPT ![t] = x]
    IN /\ t \in Ids
       /\ Covered(book, x.inst)
       /\ made' = t /\ trade' = book
       /\ Settle({t}, book) /\ Rebuild({x.inst}, book)
       /\ UNCHANGED <<source, imported>>
AddByHand(x) == Add(x) /\ UNCHANGED <<paper, handVars>>
\* A paper fill adds its transaction and an entry for its fee, which belongs
\* to the transaction.
Fill(x, fee) ==
    /\ x.side # "dividend"
    /\ Add(x)
    /\ paper' = paper \cup {made'}
    /\ manual' = manual \cup
           (IF fee = 0 THEN {}
            ELSE {[kind |-> "manual", key |-> made', trade |-> made', by |-> "fill",
                   cur |-> CurrencyOf[x.inst], amount |-> -fee, day |-> x.day]})
    /\ UNCHANGED <<handback, depositing, reversing>>

\* import_transactions: nothing for a file that is in the book, nothing for
\* one with a row that sells too much.  The rows are created by date.
Import(f) ==
    LET new == (made + 1)..(made + Len(Rows[f]))
        book == [t \in Ids |-> IF t \in new THEN Rows[f][t - made] ELSE trade[t]]
    IN /\ f \notin imported /\ new \subseteq Ids
       /\ \A t \in new : ~Oversold(book, t)
       /\ made' = made + Len(Rows[f]) /\ trade' = book
       /\ source' = [t \in Ids |-> IF t \in new THEN f ELSE source[t]]
       /\ imported' = imported \cup {f}
       /\ Settle(new, book) /\ Rebuild({book[t].inst : t \in new}, book)
       /\ UNCHANGED <<paper, handVars>>

Linked(f) == {t \in Ids : source[t] = f}
\* The import's rows are all there.
Whole(f) == Linked(f) # {} /\ Cardinality(Linked(f)) = Len(Rows[f])
\* The transactions S are deleted.
RemoveTrades(S) ==
    LET book == [t \in Ids |-> IF t \in S THEN NoTrade ELSE trade[t]]
        touched == {trade[t].inst : t \in S}
    IN /\ \A i \in touched : Covered(book, i)
       /\ trade' = book
       /\ source' = [t \in Ids |-> IF t \in S THEN NoFile ELSE source[t]]
       /\ ReverseOpen(S) /\ Rebuild(touched, book)
       /\ UNCHANGED <<made, paper, settled, posts, handVars>>
\* rollback_transaction_import.
Rollback(f) ==
    /\ f \in imported /\ Whole(f)
    /\ RemoveTrades(Linked(f))
    /\ imported' = imported \ {f}
\* delete_transaction.
Delete(t) ==
    /\ t \in Live(trade) /\ t \notin paper
    /\ RemoveTrades({t})
    /\ UNCHANGED imported

Touched_Now(t, x) == {x.inst}                                     \* mutant
\* The instruments before and after an update.
Touched(t, x) == {trade[t].inst, x.inst}
\* update_transaction: the settlement is replaced when a field it depends on
\* is in the request, changed or not.
Update(t, x, replace) ==
    LET book == [trade EXCEPT ![t] = x]
    IN /\ t \in Live(trade) /\ t \notin paper /\ posts[t] < MaxPosts
       /\ \/ replace
          \/ /\ [trade[t] EXCEPT !.inst = x.inst] = x
             /\ CurrencyOf[x.inst] = CurrencyOf[trade[t].inst]
       /\ \A i \in Touched(t, x) : Covered(book, i)
       /\ trade' = book
       /\ IF replace THEN Settle({t}, book) ELSE UNCHANGED cashVars
       /\ Rebuild(Touched(t, x), book)
       /\ UNCHANGED <<made, source, imported, paper, handVars>>

-----------------------------------------------------------------------------
(* Cash entries by hand: no lock.                                          *)

Idle(r) == depositing[r] = NoKey /\ reversing[r] = NoEntry
Deposited(k) == \E e \in manual : e.key = k

\* create_manual_entry finds no entry under its key ...
DepositChecks(r, k) ==
    /\ Idle(r) /\ ~Deposited(k)
    /\ depositing' = [depositing EXCEPT ![r] = k]
    /\ UNCHANGED <<bookVars, cashVars, manual, handback, reversing>>
\* The unique constraint on the key.
KeyTaken(k) == Deposited(k)
\* ... and inserts one, or fails on the constraint.
DepositInserts(r, m) ==
    LET k == depositing[r]
        e == [kind |-> "manual", key |-> k, trade |-> NoTrade, by |-> r,
              cur |-> m.cur, amount |-> m.amount, day |-> Today]
    IN /\ k # NoKey
       /\ manual' = IF KeyTaken(k) THEN manual ELSE manual \cup {e}
       /\ depositing' = [depositing EXCEPT ![r] = NoKey]
       /\ UNCHANGED <<bookVars, cashVars, handback, reversing>>

\* The entry's transaction: NULL once the transaction is deleted.
TransactionOf(e) == IF e.trade \in Live(trade) THEN e.trade ELSE NoTrade
MayReverse_Unchecked(e) == TransactionOf(e) = NoTrade             \* mutant
MayReverse(e) == TransactionOf(e) = NoTrade /\ ~Reversed(e)
\* reverse_entry passes its checks ...
ReverseChecks(r, e) ==
    /\ Idle(r) /\ e \in manual \cup settled /\ MayReverse(e)
    /\ reversing' = [reversing EXCEPT ![r] = e]
    /\ UNCHANGED <<bookVars, cashVars, manual, handback, depositing>>
\* ... and inserts, unless the key reversal:<id> is there by now.
ReverseInserts(r) ==
    LET e == reversing[r]
        back == [of |-> e, by |-> r, cur |-> e.cur, amount |-> -e.amount, day |-> Today]
    IN /\ e # NoEntry
       /\ handback' = IF \E b \in handback : b.of = e THEN handback ELSE handback \cup {back}
       /\ reversing' = [reversing EXCEPT ![r] = NoEntry]
       /\ UNCHANGED <<bookVars, cashVars, manual, depositing>>

-----------------------------------------------------------------------------
Trading(x) ==
    \/ AddByHand(x)
    \/ \E fee \in Fees : Fill(x, fee)
    \/ \E t \in Ids, replace \in BOOLEAN : Update(t, x, replace)
Filing(f) == Import(f) \/ Rollback(f)
ByHand(r) ==
    \/ \E k \in Keys : DepositChecks(r, k)
    \/ \E m \in Deposits : DepositInserts(r, m)
    \/ \E e \in manual \cup settled : ReverseChecks(r, e)
    \/ ReverseInserts(r)

Next ==
    \/ \E x \in Inputs : Trading(x)
    \/ \E t \in Ids : Delete(t)
    \/ \E f \in Files : Filing(f)
    \/ \E r \in Requests : ByHand(r)

Spec == Init /\ [][Next]_vars

-----------------------------------------------------------------------------
(* Properties.                                                             *)

\* Every variable keeps its type; what a holding may be, HoldingIsHistory says.
Accounts(by) == [of : manual \cup settled, by : by, cur : Currencies, amount : Int, day : Nat]
TypeOK ==
    /\ made \in 0..MaxTrades /\ trade \in [Ids -> Terms \cup {NoTrade}]
    /\ source \in [Ids -> Files \cup {NoFile}] /\ imported \subseteq Files
    /\ paper \subseteq Ids /\ DOMAIN holding = Instruments
    /\ settled \subseteq [kind : {"settlement"}, trade : Ids, no : Nat \ {0},
                          cur : Currencies, amount : Int, day : Nat]
    /\ manual \subseteq [kind : {"manual"}, key : Keys \cup Ids, trade : Ids \cup {NoTrade},
                         by : Requests \cup {"fill"},
                         cur : Currencies, amount : Int, day : Nat]
    /\ undone \subseteq Accounts({"ledger"}) /\ handback \subseteq Accounts(Requests)
    /\ posts \in [Ids -> Nat]
    /\ depositing \in [Requests -> Keys \cup {NoKey}]
    /\ reversing \in [Requests -> manual \cup settled \cup {NoEntry}]

\* The append-only entries amount to one settlement for each transaction that
\* is in the book, by its present terms, and none for one that is not, and
\* imports are entered and undone as a whole (README: a change reverses the
\* old settlement and appends the new one).
NetCash == [t \in Ids |-> {[cur |-> e.cur, amount |-> e.amount, day |-> e.day] : e \in Open(t)}]
Book == INSTANCE LedgerBook WITH book <- trade, cash <- NetCash, kept <- paper
ImplementsBook == Book!Spec

\* The cash balance as of any day (get_cash_balances) holds, for the
\* transactions, what the transactions up to that day say: a correction leaves
\* no trace in it, not even on the days between.
AsOf(S, c, d) == MapThenSumSet(LAMBDA e : e.amount, {e \in S : e.cur = c /\ e.day <= d})
TradeCash(c, d) ==
    AsOf(settled, c, d) + AsOf(undone, c, d) + AsOf({b \in handback : b.of \in settled}, c, d)
BookCash(c, d) ==
    MapThenSumSet(LAMBDA t : CashAmount(trade[t]),
                  {t \in Live(trade) : Cash(trade[t]).cur = c /\ trade[t].day <= d})
BalanceIsHistory ==
    \A c \in Currencies, d \in 0..Today : TradeCash(c, d) = BookCash(c, d)

\* A holding is the position that the transactions leave, unless one is sold
\* short; it may only exceed it, and only where a day has both a purchase and
\* a sale, which the rebuild takes in any order.
Mixed(i) == \E t, u \in Of(trade, i) :
                trade[t].day = trade[u].day /\ trade[t].side = "buy" /\ trade[u].side = "sell"
HoldingIsHistory ==
    \A i \in Instruments : Covered(trade, i) =>
        LET position == Position(History(trade, i))
        IN holding[i] = position \/ (Mixed(i) /\ holding[i] > position)

\* No entry has two counter-entries and no key two entries, whichever of the
\* transaction, its deletion and two requests posts them.
NoDoubleEntry ==
    /\ \A a, b \in undone \cup handback : a.of = b.of => a = b
    /\ \A a, b \in manual : a.key = b.key => a = b

\* Only an import may leave a sale uncovered that was covered before.
ShortOnlyByImport ==
    [][imported' \subseteq imported =>
           \A i \in Instruments : Covered(trade, i) => Covered(trade', i)]_vars

\* A sale that would make the inventory negative at its time is rejected
\* (src/README.md on migration 0086).  Not so: an import may be dated before
\* existing sales, as ShortOnlyByImport allows.
NeverShort == \A i \in Instruments : Covered(trade, i)
=============================================================================
