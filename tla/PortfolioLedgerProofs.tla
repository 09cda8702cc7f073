------------------------ MODULE PortfolioLedgerProofs ------------------------
(***************************************************************************)
(* Theorems about PortfolioLedger, for any book, files and requests.  The  *)
(* invariant says what makes an append-only ledger behave like a table:    *)
(* settlements are numbered, their counter-entries mirror them, and what   *)
(* is not countered of a transaction is what its terms settle with.  The   *)
(* balance of any day follows from it, counter-entries having the date of  *)
(* what they take back.  Holdings follow the transactions as well: each is *)
(* one that a rebuild of the present history may give.                     *)
(***************************************************************************)
EXTENDS PortfolioLedger, FiniteSums

Bare(t) == trade[t] = NoTrade /\ posts[t] = 0 /\ source[t] = NoFile
Fresh == \A t \in Ids : t > made => Bare(t)
Sourced == \A t \in Ids : source[t] # NoFile =>
               source[t] \in imported /\ trade[t] # NoTrade /\ t \notin paper
PaperLives == \A t \in paper : trade[t] # NoTrade
Numbered == /\ \A e \in settled : e.no <= posts[e.trade]
            /\ \A e, f \in settled : e.trade = f.trade /\ e.no = f.no => e = f
Countered == \A r \in undone : r.of \in settled /\ r = Counter(r.of)
HandsOff == /\ \A b \in handback : b.of \in manual
            /\ reversing \in [Requests -> manual \cup {NoEntry}]
Owes(x) == x # NoTrade /\ CashAmount(x) # 0
Follow(t) == IF Owes(trade[t]) THEN \E n \in 1..posts[t] : Open(t) = {Entry(t, n, trade[t])}
                               ELSE Open(t) = {}
Follows == \A t \in Ids : Follow(t)
Once == /\ \A a, b \in handback : a.of = b.of => a = b
        /\ \A a, b \in manual : a.key = b.key => a = b
        /\ \A e \in manual : e.key \in Ids => e.key <= made
Safe == TypeOK /\ Fresh /\ Sourced /\ PaperLives /\ Numbered /\ Countered /\ HandsOff /\ Follows /\ Once

-----------------------------------------------------------------------------
(* The terms, and the entry they settle with.                              *)

LEMMA CashType ==
    ASSUME NEW x \in Terms
    PROVE  /\ CashAmount(x) \in Int
           /\ Cash(x).cur \in Currencies /\ Cash(x).amount = CashAmount(x)
           /\ Cash(x).day = x.day /\ x.day \in Nat
           /\ Cash(x) = [cur |-> Cash(x).cur, amount |-> Cash(x).amount, day |-> Cash(x).day]
<1>1. x.qty \in Nat /\ x.price \in Nat /\ x.inst \in Instruments /\ x.day \in Nat BY DEF Terms
<1>2. x.qty * x.price \in Int BY <1>1
<1> QED BY <1>1, <1>2, LedgerAssumption DEF Cash, CashAmount

LEMMA EntryType ==
    ASSUME NEW t \in Ids, NEW n \in Nat \ {0}, NEW x \in Terms
    PROVE  /\ Entry(t, n, x) \in [kind : {"settlement"}, trade : Ids, no : Nat \ {0},
                                  cur : Currencies, amount : Int, day : Nat]
           /\ Entry(t, n, x).trade = t /\ Entry(t, n, x).no = n
           /\ Entry(t, n, x).cur = Cash(x).cur /\ Entry(t, n, x).amount = CashAmount(x)
           /\ Entry(t, n, x).day = x.day
BY CashType DEF Entry

\* Nothing that is open has a number that is still to come.
LEMMA NewIsOpen ==
    ASSUME Safe, NEW t \in Ids, NEW x \in Terms
    PROVE  LET e == Entry(t, posts[t] + 1, x)
           IN e \notin settled /\ \A r \in undone \cup handback : r.of # e
<1> DEFINE e == Entry(t, posts[t] + 1, x)
<1>0. posts[t] \in Nat BY DEF Safe, TypeOK
<1>1. e.trade = t /\ e.no = posts[t] + 1 /\ e.kind = "settlement" BY <1>0, EntryType DEF Entry
<1> HIDE DEF e
<1>2. e \notin settled BY <1>0, <1>1 DEF Safe, Numbered
<1>3. \A r \in undone : r.of # e BY <1>2 DEF Safe, Countered
<1>4. \A b \in handback : b.of.kind = "manual" BY DEF Safe, HandsOff, TypeOK
<1> QED BY <1>1, <1>2, <1>3, <1>4 DEF e

-----------------------------------------------------------------------------
(* What reversing and settling do to the open settlements.                 *)

Kept(t) == Open(t)' = Open(t)

LEMMA NoChange ==
    ASSUME UNCHANGED <<settled, undone, handback>>
    PROVE  \A t \in Ids : Kept(t)
BY DEF Kept, Open, Reversed

\* Counter-entries by hand are of other entries.
LEMMA HandKeeps ==
    ASSUME Safe, UNCHANGED <<settled, undone>>,
           \A b \in handback' \ handback : b.of \in manual
    PROVE  \A t \in Ids : Kept(t)
<1>1. \A e \in settled : e.kind = "settlement" BY DEF Safe, TypeOK
<1>2. \A e \in manual : e.kind = "manual" BY DEF Safe, TypeOK
<1>3. \A b \in handback \cup handback' : b.of \in manual BY DEF Safe, HandsOff
<1>4. \A e \in settled : Reversed(e)' <=> Reversed(e) BY <1>1, <1>2, <1>3 DEF Reversed
<1> QED BY <1>4 DEF Kept, Open

LEMMA ReverseEffect ==
    ASSUME Safe, NEW S \in SUBSET Ids, ReverseOpen(S), UNCHANGED <<settled, handback>>
    PROVE  \A t \in Ids : IF t \in S THEN Open(t)' = {} ELSE Kept(t)
<1> DEFINE Gone == UNION {Open(t) : t \in S}
<1>1. undone' = undone \cup {Counter(e) : e \in Gone} BY DEF ReverseOpen
<1>2. \A e \in Gone : Counter(e).of = e BY DEF Counter
<1>3. \A e \in settled : Reversed(e)' <=> Reversed(e) \/ e \in Gone
  BY <1>1, <1>2 DEF Reversed
<1>4. \A e \in Gone : e \in settled /\ e.trade \in S BY DEF Open
<1>5. \A e \in settled : e.trade \in S /\ ~Reversed(e) => e \in Gone BY DEF Open
<1> HIDE DEF Gone
<1>6. ASSUME NEW t \in S PROVE Open(t)' = {} BY <1>3, <1>5, <1>6 DEF Open
<1>7. ASSUME NEW t \in Ids \ S PROVE Kept(t) BY <1>3, <1>4, <1>7 DEF Kept, Open
<1> QED BY <1>6, <1>7

Owing(S, book) == {t \in S : CashAmount(book[t]) # 0}
LEMMA SettleEffect ==
    ASSUME Safe, NEW S \in SUBSET Ids, NEW book, \A t \in S : book[t] \in Terms,
           Settle(S, book), UNCHANGED handback
    PROVE  \A t \in Ids :
               /\ t \in Owing(S, book) => Open(t)' = {Entry(t, posts[t] + 1, book[t])}
               /\ t \in S \ Owing(S, book) => Open(t)' = {}
               /\ t \notin S => Kept(t)
<1> DEFINE Gone == UNION {Open(t) : t \in S}
           New == {Entry(t, posts[t] + 1, book[t]) : t \in Owing(S, book)}
<1>1. undone' = undone \cup {Counter(e) : e \in Gone} /\ settled' = settled \cup New
  BY DEF Settle, ReverseOpen, Owing
<1>2. \A e \in Gone : Counter(e).of = e BY DEF Counter
<1>3. \A t \in Owing(S, book) : t \in Ids /\ posts[t] \in Nat /\ book[t] \in Terms
  BY DEF Owing, Safe, TypeOK
<1>4. \A e \in New : e \notin settled /\ \A r \in undone \cup handback : r.of # e
  BY <1>3, NewIsOpen
<1>5. \A t \in Owing(S, book) : Entry(t, posts[t] + 1, book[t]).trade = t
  BY <1>3, EntryType
<1>6. \A e \in Gone : e \in settled /\ e.trade \in S BY DEF Open
<1>7. \A e \in settled : e.trade \in S /\ ~Reversed(e) => e \in Gone BY DEF Open
<1>8. \A e \in settled : Reversed(e)' <=> Reversed(e) \/ e \in Gone
  BY <1>1, <1>2 DEF Reversed
<1>9. \A e \in New : ~Reversed(e)'
  <2> HIDE DEF New, Gone
  <2> QED BY <1>1, <1>2, <1>4, <1>6 DEF Reversed
<1>10. \A t \in Ids : Open(t)' = {e \in settled : e.trade = t /\ ~Reversed(e) /\ e \notin Gone}
                                 \cup {e \in New : e.trade = t}
  <2> HIDE DEF New, Gone
  <2> QED BY <1>1, <1>8, <1>9 DEF Open
<1>11. ASSUME NEW t \in Ids PROVE {e \in New : e.trade = t} =
           IF t \in Owing(S, book) THEN {Entry(t, posts[t] + 1, book[t])} ELSE {}
  BY <1>5
<1> HIDE DEF New, Gone
<1>12. \A t \in S : {e \in settled : e.trade = t /\ ~Reversed(e) /\ e \notin Gone} = {}
  BY <1>7
<1>13. \A t \in Ids \ S : {e \in settled : e.trade = t /\ ~Reversed(e) /\ e \notin Gone} = Open(t)
  BY <1>6 DEF Open
<1>14. Owing(S, book) \subseteq S BY DEF Owing
<1> QED BY <1>10, <1>11, <1>12, <1>13, <1>14 DEF Kept

-----------------------------------------------------------------------------
(* The cash part of the invariant, through settling and reversing.         *)

CashTypes == /\ settled \subseteq [kind : {"settlement"}, trade : Ids, no : Nat \ {0},
                                   cur : Currencies, amount : Int, day : Nat]
             /\ undone \subseteq Accounts({"ledger"})
             /\ posts \in [Ids -> Nat]

LEMMA CounterType ==
    ASSUME NEW e, e.cur \in Currencies, e.amount \in Int, e.day \in Nat
    PROVE  /\ Counter(e).of = e
           /\ Counter(e) \in [of : {e}, by : {"ledger"}, cur : Currencies, amount : Int, day : Nat]
BY DEF Counter

LEMMA ReverseSafe ==
    ASSUME Safe, NEW S \in SUBSET Ids, ReverseOpen(S), UNCHANGED <<settled, posts>>,
           manual \subseteq manual'
    PROVE  CashTypes' /\ Numbered' /\ Countered'
<1> DEFINE Gone == UNION {Open(t) : t \in S}
<1>1. undone' = undone \cup {Counter(e) : e \in Gone} BY DEF ReverseOpen
<1>2. Gone \subseteq settled BY DEF Open
<1>3. \A e \in settled : e.cur \in Currencies /\ e.amount \in Int /\ e.day \in Nat
  BY DEF Safe, TypeOK
<1> HIDE DEF Gone
<1>4. \A e \in Gone : Counter(e).of = e
                      /\ Counter(e) \in [of : {e}, by : {"ledger"}, cur : Currencies, amount : Int, day : Nat]
  BY <1>2, <1>3, CounterType
<1>5. undone' \subseteq Accounts({"ledger"})'
  BY <1>1, <1>2, <1>4 DEF Accounts, Safe, TypeOK
<1>6. CashTypes' BY <1>5 DEF CashTypes, Safe, TypeOK
<1>7. Numbered' BY DEF Safe, Numbered
<1>8. Countered'
  <2>1. \A r \in undone : r.of \in settled /\ r = Counter(r.of) BY DEF Safe, Countered
  <2> QED BY <1>1, <1>2, <1>4, <2>1 DEF Countered, Counter
<1> QED BY <1>6, <1>7, <1>8

LEMMA SettleSafe ==
    ASSUME Safe, NEW S \in SUBSET Ids, NEW book, \A t \in S : book[t] \in Terms,
           Settle(S, book), manual \subseteq manual'
    PROVE  CashTypes' /\ Numbered' /\ Countered' /\ \A t \in Ids : posts'[t] >= posts[t]
<1> DEFINE Gone == UNION {Open(t) : t \in S}
           New == {Entry(t, posts[t] + 1, book[t]) : t \in Owing(S, book)}
<1>0. \A t \in Owing(S, book) : t \in Ids /\ t \in S /\ posts[t] \in Nat /\ book[t] \in Terms
  BY DEF Owing, Safe, TypeOK
<1>1. undone' = undone \cup {Counter(e) : e \in Gone} /\ settled' = settled \cup New
  BY DEF Settle, ReverseOpen, Owing
<1>2. posts' = [t \in Ids |-> IF t \in Owing(S, book) THEN posts[t] + 1 ELSE posts[t]]
  BY DEF Settle, Owing
<1>3. posts' \in [Ids -> Nat] /\ \A t \in Ids : posts'[t] >= posts[t]
  BY <1>2 DEF Safe, TypeOK
<1>4. \A t \in Owing(S, book) :
          /\ Entry(t, posts[t] + 1, book[t]) \in [kind : {"settlement"}, trade : Ids, no : Nat \ {0},
                                   cur : Currencies, amount : Int, day : Nat]
          /\ Entry(t, posts[t] + 1, book[t]).trade = t
          /\ Entry(t, posts[t] + 1, book[t]).no = posts[t] + 1
  BY <1>0, EntryType
<1>5. New \subseteq [kind : {"settlement"}, trade : Ids, no : Nat \ {0},
                     cur : Currencies, amount : Int, day : Nat]
  BY <1>4
<1>6. \A e \in New : e.trade \in Owing(S, book) /\ e.no = posts[e.trade] + 1
                     /\ e = Entry(e.trade, e.no, book[e.trade])
  BY <1>4
<1>7. Gone \subseteq settled BY DEF Open
<1>8. \A e \in settled : e.cur \in Currencies /\ e.amount \in Int /\ e.day \in Nat
                         /\ e.trade \in Ids /\ e.no \in Nat
  BY DEF Safe, TypeOK
<1> HIDE DEF Gone, New
<1>9. \A e \in Gone : Counter(e).of = e
                      /\ Counter(e) \in [of : {e}, by : {"ledger"}, cur : Currencies, amount : Int, day : Nat]
  BY <1>7, <1>8, CounterType
<1>10. undone' \subseteq Accounts({"ledger"})'
  BY <1>1, <1>7, <1>9 DEF Accounts, Safe, TypeOK
<1>11. CashTypes' BY <1>1, <1>3, <1>5, <1>10 DEF CashTypes, Safe, TypeOK
<1>12. Numbered'
  <2>1. \A e \in settled' : e.no <= posts'[e.trade]
    <3>1. \A e \in settled : e.no <= posts[e.trade] /\ posts[e.trade] \in Nat /\ posts'[e.trade] \in Nat
      BY <1>3, <1>8 DEF Safe, TypeOK, Numbered
    <3> QED BY <1>0, <1>1, <1>2, <1>3, <1>6, <1>8, <3>1
  <2>2. ASSUME NEW e \in settled', NEW f \in settled', e.trade = f.trade, e.no = f.no
        PROVE  e = f
    <3>1. CASE e \in settled /\ f \in settled BY <2>2, <3>1 DEF Safe, Numbered
    <3>2. CASE e \in New /\ f \in New BY <1>6, <2>2, <3>2
    <3>3. \A g \in settled : g.no <= posts[g.trade] BY DEF Safe, Numbered
    <3>4. \A g \in settled, k \in New : ~(g.trade = k.trade /\ g.no = k.no)
      BY <1>0, <1>6, <1>8, <3>3
    <3> QED BY <1>1, <2>2, <3>1, <3>2, <3>4
  <2> QED BY <2>1, <2>2 DEF Numbered
<1>13. Countered'
  <2>1. \A r \in undone : r.of \in settled /\ r = Counter(r.of) BY DEF Safe, Countered
  <2> QED BY <1>1, <1>7, <1>9, <2>1 DEF Countered, Counter
<1> QED BY <1>3, <1>11, <1>12, <1>13

-----------------------------------------------------------------------------
(* What is open follows the book.                                          *)

LEMMA FollowKept ==
    ASSUME Safe, NEW t \in Ids, Kept(t), posts' \in [Ids -> Nat], posts'[t] >= posts[t],
           Owes(trade'[t]) <=> Owes(trade[t]),
           \A n \in Nat : Owes(trade[t]) => Entry(t, n, trade'[t]) = Entry(t, n, trade[t])
    PROVE  Follow(t)'
<1>1. Follow(t) /\ posts[t] \in Nat /\ posts'[t] \in Nat BY DEF Safe, Follows, TypeOK
<1>2. CASE ~Owes(trade[t]) BY <1>1, <1>2 DEF Follow, Kept
<1>3. CASE Owes(trade[t])
  <2>1. PICK n \in 1..posts[t] : Open(t) = {Entry(t, n, trade[t])} BY <1>1, <1>3 DEF Follow
  <2>2. n \in 1..posts'[t] /\ n \in Nat BY <1>1
  <2>3. Open(t)' = {Entry(t, n, trade'[t])} BY <1>3, <2>1, <2>2 DEF Kept
  <2> QED BY <1>3, <2>2, <2>3 DEF Follow
<1> QED BY <1>2, <1>3

LEMMA SettleFollows ==
    ASSUME Safe, NEW S \in SUBSET Ids, Settle(S, trade'), UNCHANGED handback,
           \A t \in S : trade'[t] \in Terms, \A t \in Ids \ S : trade'[t] = trade[t],
           manual \subseteq manual'
    PROVE  Follows'
<1>1. posts' \in [Ids -> Nat] /\ posts \in [Ids -> Nat] /\ \A t \in Ids : posts'[t] >= posts[t]
  BY SettleSafe DEF CashTypes, Safe, TypeOK
<1>2. \A t \in Ids :
          /\ t \in Owing(S, trade') => Open(t)' = {Entry(t, posts[t] + 1, trade'[t])}
          /\ t \in S \ Owing(S, trade') => Open(t)' = {}
          /\ t \notin S => Kept(t)
  BY SettleEffect
<1>3. NoTrade \notin Terms BY LedgerAssumption
<1>4. ASSUME NEW t \in S PROVE Follow(t)'
  <2>1. CASE t \in Owing(S, trade')
    <3>1. Owes(trade'[t]) BY <1>3, <1>4, <2>1 DEF Owes, Owing
    <3>2. posts'[t] = posts[t] + 1 BY <2>1 DEF Settle, Owing
    <3>3. posts[t] + 1 \in 1..posts'[t] BY <1>1, <1>4, <3>2
    <3>4. Open(t)' = {Entry(t, posts[t] + 1, trade'[t])} BY <1>2, <1>4, <2>1
    <3> QED BY <3>1, <3>3, <3>4 DEF Follow
  <2>2. CASE t \notin Owing(S, trade')
    <3>1. ~Owes(trade'[t]) BY <1>4, <2>2 DEF Owes, Owing
    <3>2. Open(t)' = {} BY <1>2, <1>4, <2>2
    <3> QED BY <3>1, <3>2 DEF Follow
  <2> QED BY <2>1, <2>2
<1>5. ASSUME NEW t \in Ids \ S PROVE Follow(t)' BY <1>1, <1>2, <1>5, FollowKept
<1> QED BY <1>4, <1>5 DEF Follows

LEMMA ReverseFollows ==
    ASSUME Safe, NEW S \in SUBSET Ids, ReverseOpen(S), UNCHANGED <<settled, handback, posts>>,
           \A t \in S : trade'[t] = NoTrade, \A t \in Ids \ S : trade'[t] = trade[t]
    PROVE  Follows'
<1>1. posts \in [Ids -> Nat] BY DEF Safe, TypeOK
<1>2. \A t \in Ids : IF t \in S THEN Open(t)' = {} ELSE Kept(t) BY ReverseEffect
<1>3. ASSUME NEW t \in S PROVE Follow(t)' BY <1>2, <1>3 DEF Follow, Owes
<1>4. ASSUME NEW t \in Ids \ S PROVE Follow(t)' BY <1>1, <1>2, <1>4, FollowKept
<1> QED BY <1>3, <1>4 DEF Follows

LEMMA StillFollows ==
    ASSUME Safe, \A t \in Ids : Kept(t), UNCHANGED <<trade, posts>>
    PROVE  Follows'
<1>1. posts \in [Ids -> Nat] BY DEF Safe, TypeOK
<1>2. ASSUME NEW t \in Ids PROVE Follow(t)' BY <1>1, <1>2, FollowKept
<1> QED BY <1>2 DEF Follows


-----------------------------------------------------------------------------
(* The operations on transactions.                                         *)

LEMMA HoldingDomain ==
    ASSUME NEW I, NEW book, Rebuild(I, book) PROVE DOMAIN holding' = Instruments
BY DEF Rebuild

ManualType == manual \subseteq [kind : {"manual"}, key : Keys \cup Ids,
                                trade : Ids \cup {NoTrade}, by : Requests \cup {"fill"},
                                cur : Currencies, amount : Int, day : Nat]

LEMMA OnceSame ==
    ASSUME Safe, UNCHANGED <<manual, handback>>, made' \in Nat, made <= made'
    PROVE  Once' /\ ManualType'
<1>1. made \in Nat /\ Ids \subseteq Nat BY LedgerAssumption DEF Safe, TypeOK
<1>2. ASSUME NEW e \in manual', e.key \in Ids PROVE e.key <= made'
  <2>1. e.key <= made /\ e.key \in Nat BY <1>1, <1>2 DEF Safe, Once
  <2> QED BY <1>1, <2>1
<1> QED BY <1>2 DEF Safe, Once, TypeOK, ManualType

\* The fee of a fill has the number of the transaction that is new.
LEMMA OnceFee ==
    ASSUME Safe, UNCHANGED handback, made' = made + 1, made' \in Ids,
           NEW e \in [kind : {"manual"}, key : {made'}, trade : Ids, by : {"fill"},
                      cur : Currencies, amount : Int, day : Nat],
           manual' = manual \cup {e}
    PROVE  Once' /\ ManualType'
<1>1. made \in Nat /\ Ids \subseteq Nat BY LedgerAssumption DEF Safe, TypeOK
<1>2. e.key = made + 1 BY DEF Safe
<1>3. \A a \in manual : a.key \in Ids => a.key <= made BY DEF Safe, Once
<1>4. \A a \in manual : a.key # e.key BY <1>1, <1>2, <1>3
<1>5. \A a, b \in manual' : a.key = b.key => a = b BY <1>4 DEF Safe, Once
<1>6. ASSUME NEW a \in manual', a.key \in Ids PROVE a.key <= made'
  <2>1. CASE a \in manual
    <3>1. a.key <= made /\ a.key \in Nat BY <1>1, <1>3, <1>6, <2>1
    <3> QED BY <1>1, <3>1
  <2>2. CASE a = e BY <1>1, <1>2, <2>2
  <2> QED BY <2>1, <2>2
<1>7. e \in [kind : {"manual"}, key : Keys \cup Ids, trade : Ids \cup {NoTrade},
             by : Requests \cup {"fill"}, cur : Currencies, amount : Int, day : Nat]
  OBVIOUS
<1>8. ManualType' BY <1>7 DEF ManualType, Safe, TypeOK
<1> QED BY <1>5, <1>6, <1>8 DEF Safe, Once

LEMMA AddSafe ==
    ASSUME Safe, NEW x \in Terms, Add(x), UNCHANGED <<handback, depositing, reversing>>,
           paper' \in {paper, paper \cup {made'}}, Once', ManualType', manual \subseteq manual'
    PROVE  Safe'
<1> DEFINE t == made + 1
           book == [trade EXCEPT ![t] = x]
<1>1. t \in Ids /\ made' = t /\ trade' = book BY DEF Add
<1>2. Settle({t}, book) BY DEF Add
<1>3. DOMAIN holding' = Instruments BY HoldingDomain DEF Add
<1>4. made \in Nat /\ Ids \subseteq Nat /\ trade \in [Ids -> Terms \cup {NoTrade}]
  BY LedgerAssumption DEF Safe, TypeOK
<1>5. trade[t] = NoTrade /\ source[t] = NoFile BY <1>1, <1>4 DEF Safe, Fresh, Bare
<1>6. trade' \in [Ids -> Terms \cup {NoTrade}] /\ trade'[t] = x
      /\ \A u \in Ids \ {t} : trade'[u] = trade[u]
  BY <1>1, <1>4
<1>7. UNCHANGED <<source, imported>> BY DEF Add
<1>8. /\ Settle({t}, trade') /\ {t} \in SUBSET Ids /\ \A u \in {t} : trade'[u] \in Terms
      /\ \A u \in Ids \ {t} : trade'[u] = trade[u]
  BY <1>1, <1>2, <1>6
<1> HIDE DEF t, book
<1>20. CashTypes' /\ Numbered' /\ Countered' /\ \A u \in Ids : posts'[u] >= posts[u]
  BY <1>8, SettleSafe
<1>9. Follows' BY <1>8, SettleFollows
<1> USE DEF t
<1>10. \A u \in Ids : u # t => posts'[u] = posts[u] BY <1>2 DEF Settle
<1>11. Fresh'
  <2> SUFFICES ASSUME NEW u \in Ids, u > made' PROVE Bare(u)'
    BY DEF Fresh
  <2>1. u > made /\ u # t BY <1>1, <1>4
  <2> QED BY <1>6, <1>7, <1>10, <2>1 DEF Safe, Fresh, Bare
<1>12. NoTrade \notin Terms BY LedgerAssumption
<1>13. Sourced' BY <1>1, <1>5, <1>6, <1>7, <1>12 DEF Safe, Sourced
<1>21. PaperLives' BY <1>1, <1>5, <1>6, <1>12 DEF Safe, PaperLives, TypeOK
<1>14. HandsOff' BY DEF Safe, HandsOff
<1>15. made' \in 0..MaxTrades BY <1>1, LedgerAssumption
<1>16. settled \subseteq settled' BY <1>2 DEF Settle
<1>17. handback' \subseteq Accounts(Requests)' BY <1>16 DEF Safe, TypeOK, Accounts
<1>18. reversing' \in [Requests -> manual' \cup settled' \cup {NoEntry}] BY <1>16 DEF Safe, TypeOK
<1>19. TypeOK'
  BY <1>1, <1>3, <1>6, <1>7, <1>20, <1>15, <1>17, <1>18 DEF Safe, TypeOK, CashTypes, ManualType
<1> QED BY <1>20, <1>9, <1>11, <1>13, <1>14, <1>19, <1>21 DEF Safe

LEMMA ByHandSafe == ASSUME Safe, NEW x \in Terms, AddByHand(x) PROVE Safe'
<1>1. Add(x) /\ UNCHANGED <<paper, manual, handback, depositing, reversing>>
  BY DEF AddByHand, handVars
<1>2. made \in Nat /\ made' = made + 1 BY <1>1 DEF Add, Safe, TypeOK
<1>3. Once' /\ ManualType' BY <1>1, <1>2, OnceSame
<1> QED BY <1>1, <1>3, AddSafe

LEMMA FillSafe == ASSUME Safe, NEW x \in Terms, NEW fee \in Fees, Fill(x, fee) PROVE Safe'
<1>1. Add(x) /\ UNCHANGED <<handback, depositing, reversing>> /\ paper' = paper \cup {made'}
  BY DEF Fill
<1>2. made \in Nat /\ made' = made + 1 /\ made' \in Ids BY <1>1 DEF Add, Safe, TypeOK
<1>3. Once' /\ ManualType' /\ manual \subseteq manual'
  <2>1. CASE fee = 0
    <3>1. manual' = manual BY <2>1 DEF Fill
    <3> QED BY <1>1, <1>2, <3>1, OnceSame
  <2>2. CASE fee # 0
    <3> DEFINE e == [kind |-> "manual", key |-> made', trade |-> made', by |-> "fill",
                     cur |-> CurrencyOf[x.inst], amount |-> -fee, day |-> x.day]
    <3>1. manual' = manual \cup {e} BY <2>2 DEF Fill
    <3>2. fee \in Nat /\ CurrencyOf[x.inst] \in Currencies /\ x.day \in Nat
      BY LedgerAssumption DEF Terms
    <3>3. e \in [kind : {"manual"}, key : {made'}, trade : Ids, by : {"fill"},
                 cur : Currencies, amount : Int, day : Nat]
      BY <1>2, <3>2
    <3> QED BY <1>1, <1>2, <3>1, <3>3, OnceFee
  <2> QED BY <2>1, <2>2
<1> QED BY <1>1, <1>3, AddSafe


LEMMA ImportSafe == ASSUME Safe, NEW f \in Files, Import(f) PROVE Safe'
<1> DEFINE new == (made + 1)..(made + Len(Rows[f]))
<1>0. made \in Nat /\ Ids \subseteq Nat /\ trade \in [Ids -> Terms \cup {NoTrade}]
      /\ Rows[f] \in Seq(Terms) /\ Len(Rows[f]) \in Nat
  BY LedgerAssumption DEF Safe, TypeOK
<1>1. /\ f \notin imported /\ imported' = imported \cup {f} /\ new \subseteq Ids
      /\ made' = made + Len(Rows[f])
      /\ trade' = [t \in Ids |-> IF t \in new THEN Rows[f][t - made] ELSE trade[t]]
      /\ source' = [t \in Ids |-> IF t \in new THEN f ELSE source[t]]
      /\ Settle(new, trade')
      /\ UNCHANGED <<paper, manual, handback, depositing, reversing>>
  BY DEF Import, handVars
<1>2. DOMAIN holding' = Instruments BY HoldingDomain DEF Import
<1>3. \A t \in new : Rows[f][t - made] \in Terms
  <2>1. \A t \in new : t - made \in 1..Len(Rows[f]) BY <1>0
  <2> QED BY <1>0, <2>1
<1>4. \A t \in new : t \in Ids /\ t > made BY <1>0, <1>1
<1>5. \A t \in Ids : t > made' => t \notin new BY <1>0, <1>1
<1>6. \A t \in new : trade[t] = NoTrade /\ source[t] = NoFile BY <1>4 DEF Safe, Fresh, Bare
<1>7. made' \in 0..MaxTrades /\ made' >= made
  <2>1. MaxTrades \in Nat /\ Ids = 1..MaxTrades /\ made \in 0..MaxTrades
    BY LedgerAssumption DEF Safe, TypeOK
  <2>2. CASE Len(Rows[f]) = 0 BY <1>0, <1>1, <2>1, <2>2
  <2>3. CASE Len(Rows[f]) # 0
    <3>1. made + Len(Rows[f]) \in new BY <1>0, <2>3
    <3> QED BY <1>0, <1>1, <2>1, <3>1
  <2> QED BY <2>2, <2>3
<1> HIDE DEF new
<1>8. /\ trade' \in [Ids -> Terms \cup {NoTrade}] /\ \A t \in new : trade'[t] \in Terms
      /\ \A t \in Ids \ new : trade'[t] = trade[t]
  BY <1>0, <1>1, <1>3
<1>9. CashTypes' /\ Numbered' /\ Countered' BY <1>1, <1>8, SettleSafe
<1>10. Follows' BY <1>1, <1>8, SettleFollows
<1>11. \A t \in Ids : t \notin new => posts'[t] = posts[t] BY <1>1 DEF Settle
<1>12. Fresh'
  <2> SUFFICES ASSUME NEW t \in Ids, t > made' PROVE Bare(t)'
    BY DEF Fresh
  <2>1. t > made /\ t \notin new BY <1>0, <1>1, <1>5, <1>7
  <2> QED BY <1>1, <1>8, <1>11, <2>1 DEF Safe, Fresh, Bare
<1>13. NoTrade \notin Terms BY LedgerAssumption
<1>14. Sourced'
  <2>1. \A t \in new : t \notin paper
    BY <1>4, <1>6 DEF Safe, PaperLives
  <2> QED BY <1>1, <1>8, <1>13, <2>1 DEF Safe, Sourced
<1>15. HandsOff' /\ settled \subseteq settled' BY <1>1 DEF Safe, HandsOff, Settle
<1>16. Once' /\ ManualType' BY <1>0, <1>1, <1>7, OnceSame
<1>17. PaperLives' BY <1>1, <1>6, <1>8 DEF Safe, PaperLives, TypeOK
<1>18. handback' \subseteq Accounts(Requests)' BY <1>1, <1>15 DEF Safe, TypeOK, Accounts
<1>19. reversing' \in [Requests -> manual' \cup settled' \cup {NoEntry}]
  BY <1>1, <1>15 DEF Safe, TypeOK
<1>20. TypeOK'
  BY <1>1, <1>2, <1>7, <1>8, <1>9, <1>16, <1>18, <1>19 DEF Safe, TypeOK, CashTypes, ManualType
<1> QED BY <1>9, <1>10, <1>12, <1>14, <1>15, <1>16, <1>17, <1>20 DEF Safe

LEMMA RemoveSafe ==
    ASSUME Safe, NEW S \in SUBSET (Ids \ paper), RemoveTrades(S),
           imported' \subseteq imported,
           \A t \in Ids \ S : source[t] # NoFile => source[t] \in imported'
    PROVE  Safe'
<1>1. /\ trade' = [t \in Ids |-> IF t \in S THEN NoTrade ELSE trade[t]]
      /\ source' = [t \in Ids |-> IF t \in S THEN NoFile ELSE source[t]]
      /\ ReverseOpen(S)
      /\ UNCHANGED <<made, paper, settled, posts, manual, handback, depositing, reversing>>
  BY DEF RemoveTrades, handVars
<1>2. DOMAIN holding' = Instruments BY HoldingDomain DEF RemoveTrades
<1>3. S \subseteq Ids /\ trade \in [Ids -> Terms \cup {NoTrade}]
      /\ source \in [Ids -> Files \cup {NoFile}] /\ made \in Nat
  BY DEF Safe, TypeOK
<1>4. trade' \in [Ids -> Terms \cup {NoTrade}] /\ (\A t \in S : trade'[t] = NoTrade)
      /\ \A t \in Ids \ S : trade'[t] = trade[t]
  BY <1>1, <1>3
<1>5. CashTypes' /\ Numbered' /\ Countered' BY <1>1, <1>3, ReverseSafe
<1>6. Follows' BY <1>1, <1>3, <1>4, ReverseFollows
<1>7. Fresh' BY <1>1 DEF Safe, Fresh, Bare
<1>8. Sourced' BY <1>1, <1>3 DEF Safe, Sourced
<1>9. PaperLives' BY <1>1, <1>4 DEF Safe, PaperLives, TypeOK
<1>10. HandsOff' BY <1>1 DEF Safe, HandsOff
<1>11. Once' /\ ManualType' BY <1>1, <1>3, OnceSame
<1>12. handback' \subseteq Accounts(Requests)' BY <1>1 DEF Safe, TypeOK, Accounts
<1>13. TypeOK'
  <2>1. source' \in [Ids -> Files \cup {NoFile}] BY <1>1, <1>3
  <2>2. imported' \subseteq Files BY DEF Safe, TypeOK
  <2>3. made' \in 0..MaxTrades /\ paper' \subseteq Ids
        /\ depositing' \in [Requests -> Keys \cup {NoKey}]
        /\ reversing' \in [Requests -> manual' \cup settled' \cup {NoEntry}]
    BY <1>1 DEF Safe, TypeOK
  <2> QED BY <1>2, <1>4, <1>5, <1>11, <1>12, <2>1, <2>2, <2>3 DEF TypeOK, CashTypes, ManualType
<1> QED BY <1>5, <1>6, <1>7, <1>8, <1>9, <1>10, <1>11, <1>13 DEF Safe

LEMMA DeleteSafe == ASSUME Safe, NEW t \in Ids, Delete(t) PROVE Safe'
<1>1. t \notin paper /\ RemoveTrades({t}) /\ imported' = imported BY DEF Delete
<1> QED BY <1>1, RemoveSafe DEF Safe, Sourced

LEMMA RollbackSafe == ASSUME Safe, NEW f \in Files, Rollback(f) PROVE Safe'
<1>1. f \in imported /\ RemoveTrades(Linked(f)) /\ imported' = imported \ {f} BY DEF Rollback
<1>2. f # NoFile BY LedgerAssumption
<1>3. Linked(f) \in SUBSET (Ids \ paper) BY <1>2 DEF Linked, Safe, Sourced
<1>4. \A t \in Ids \ Linked(f) : source[t] # NoFile => source[t] \in imported'
  BY <1>1 DEF Linked, Safe, Sourced
<1> QED BY <1>1, <1>3, <1>4, RemoveSafe

LEMMA UpdateSafe ==
    ASSUME Safe, NEW t \in Ids, NEW x \in Terms, NEW replace \in BOOLEAN, Update(t, x, replace)
    PROVE  Safe'
<1>1. /\ t \in Live(trade) /\ t \notin paper
      /\ trade' = [trade EXCEPT ![t] = x]
      /\ UNCHANGED <<made, source, imported, paper, manual, handback, depositing, reversing>>
  BY DEF Update, handVars
<1>2. DOMAIN holding' = Instruments BY HoldingDomain DEF Update
<1>3. trade \in [Ids -> Terms \cup {NoTrade}] /\ made \in Nat /\ trade[t] # NoTrade
  BY <1>1 DEF Safe, TypeOK, Live
<1>4. /\ trade' \in [Ids -> Terms \cup {NoTrade}] /\ trade'[t] = x /\ trade[t] \in Terms
      /\ \A u \in Ids \ {t} : trade'[u] = trade[u]
  BY <1>1, <1>3
<1>5. ASSUME replace
      PROVE  /\ CashTypes' /\ Numbered' /\ Countered' /\ Follows' /\ settled \subseteq settled'
             /\ \A u \in Ids : u # t => posts'[u] = posts[u]
  <2>1. Settle({t}, trade') BY <1>1, <1>5 DEF Update
  <2>2. {t} \in SUBSET Ids /\ \A u \in {t} : trade'[u] \in Terms BY <1>4
  <2>3. CashTypes' /\ Numbered' /\ Countered' BY <1>1, <2>1, <2>2, SettleSafe
  <2>4. Follows' BY <1>1, <1>4, <2>1, <2>2, SettleFollows
  <2>5. \A u \in Ids : u # t => posts'[u] = posts[u] BY <2>1 DEF Settle
  <2>6. settled \subseteq settled' BY <2>1 DEF Settle
  <2> QED BY <2>3, <2>4, <2>5, <2>6
<1>6. ASSUME ~replace
      PROVE  /\ CashTypes' /\ Numbered' /\ Countered' /\ Follows' /\ settled \subseteq settled'
             /\ \A u \in Ids : u # t => posts'[u] = posts[u]
  <2>1. UNCHANGED cashVars /\ [trade[t] EXCEPT !.inst = x.inst] = x
        /\ CurrencyOf[x.inst] = CurrencyOf[trade[t].inst]
    BY <1>6 DEF Update
  <2>2. x.side = trade[t].side /\ x.qty = trade[t].qty /\ x.price = trade[t].price
        /\ x.day = trade[t].day
    BY <1>4, <2>1 DEF Terms
  <2>3. CashAmount(x) = CashAmount(trade[t]) BY <2>2 DEF CashAmount
  <2>4. Cash(x) = Cash(trade[t]) BY <2>1, <2>2, <2>3 DEF Cash
  <2>5. \A n \in Nat : Entry(t, n, x) = Entry(t, n, trade[t]) BY <2>4 DEF Entry
  <2>6. Owes(x) <=> Owes(trade[t]) BY <1>3, <2>3, LedgerAssumption DEF Owes
  <2>7. UNCHANGED <<settled, undone, posts>> BY <2>1 DEF cashVars
  <2>8. CashTypes' /\ Numbered' /\ Countered'
    BY <1>1, <2>7 DEF CashTypes, Numbered, Countered, Safe, TypeOK, Accounts
  <2>9. posts \in [Ids -> Nat] BY DEF Safe, TypeOK
  <2>10. \A u \in Ids : Kept(u) BY <1>1, <2>7, NoChange
  <2>11. ASSUME NEW u \in Ids PROVE Follow(u)'
    <3>1. posts' \in [Ids -> Nat] /\ posts'[u] >= posts[u] BY <2>7, <2>9
    <3>2. CASE u = t BY <1>4, <2>5, <2>6, <2>10, <3>1, <3>2, FollowKept
    <3>3. CASE u # t BY <1>4, <2>10, <3>1, <3>3, FollowKept
    <3> QED BY <3>2, <3>3
  <2> QED BY <2>7, <2>8, <2>11 DEF Follows
<1>7. CashTypes' /\ Numbered' /\ Countered' /\ Follows' /\ settled \subseteq settled'
      /\ \A u \in Ids : u # t => posts'[u] = posts[u]
  BY <1>5, <1>6
<1>8. t <= made BY <1>3, LedgerAssumption DEF Safe, Fresh, Bare
<1>9. Fresh'
  <2> SUFFICES ASSUME NEW u \in Ids, u > made' PROVE Bare(u)'
    BY DEF Fresh
  <2>1. u > made /\ u # t BY <1>1, <1>3, <1>8, LedgerAssumption
  <2> QED BY <1>1, <1>4, <1>7, <2>1 DEF Safe, Fresh, Bare
<1>10. NoTrade \notin Terms BY LedgerAssumption
<1>11. Sourced' BY <1>1, <1>4, <1>10 DEF Safe, Sourced
<1>12. PaperLives' BY <1>1, <1>4, <1>10 DEF Safe, PaperLives, TypeOK
<1>13. HandsOff' BY <1>1 DEF Safe, HandsOff
<1>14. Once' /\ ManualType' BY <1>1, <1>3, OnceSame
<1>15. handback' \subseteq Accounts(Requests)' BY <1>1, <1>7 DEF Safe, TypeOK, Accounts
<1>16. reversing' \in [Requests -> manual' \cup settled' \cup {NoEntry}]
  BY <1>1, <1>7 DEF Safe, TypeOK
<1>17. TypeOK'
  BY <1>1, <1>2, <1>4, <1>7, <1>14, <1>15, <1>16 DEF Safe, TypeOK, CashTypes, ManualType
<1> QED BY <1>7, <1>9, <1>11, <1>12, <1>13, <1>14, <1>17 DEF Safe


-----------------------------------------------------------------------------
(* The requests on cash entries.                                           *)

\* A request changes entries by hand only.
LEMMA HandSafe ==
    ASSUME Safe, UNCHANGED <<bookVars, cashVars>>, HandsOff', Once', ManualType',
           manual \subseteq manual', handback' \subseteq Accounts(Requests)',
           depositing' \in [Requests -> Keys \cup {NoKey}],
           \A b \in handback' \ handback : b.of \in manual
    PROVE  Safe'
<1>1. UNCHANGED <<made, trade, source, imported, paper, holding, settled, undone, posts>>
  BY DEF bookVars, cashVars
<1>2. \A t \in Ids : Kept(t) BY <1>1, HandKeeps
<1>3. Follows' BY <1>1, <1>2, StillFollows
<1>4. Fresh' /\ Sourced' /\ PaperLives' BY <1>1 DEF Safe, Fresh, Bare, Sourced, PaperLives
<1>5. Numbered' /\ Countered' BY <1>1 DEF Safe, Numbered, Countered
<1>6. undone' \subseteq Accounts({"ledger"})' BY <1>1 DEF Safe, TypeOK, Accounts
<1>7. reversing' \in [Requests -> manual' \cup settled' \cup {NoEntry}] BY DEF HandsOff
<1>8. TypeOK' BY <1>1, <1>6, <1>7 DEF Safe, TypeOK, ManualType
<1> QED BY <1>3, <1>4, <1>5, <1>8 DEF Safe

LEMMA DepositChecksSafe ==
    ASSUME Safe, NEW r \in Requests, NEW k \in Keys, DepositChecks(r, k) PROVE Safe'
<1>1. /\ UNCHANGED <<bookVars, cashVars, manual, handback, reversing, made>>
      /\ depositing' = [depositing EXCEPT ![r] = k]
  BY DEF DepositChecks, bookVars
<1>2. made \in Nat BY DEF Safe, TypeOK
<1>3. Once' /\ ManualType' BY <1>1, <1>2, OnceSame
<1>4. HandsOff' BY <1>1 DEF Safe, HandsOff
<1>5. handback' \subseteq Accounts(Requests)' BY <1>1 DEF Safe, TypeOK, Accounts, cashVars
<1>6. depositing' \in [Requests -> Keys \cup {NoKey}] BY <1>1 DEF Safe, TypeOK
<1> QED BY <1>1, <1>3, <1>4, <1>5, <1>6, HandSafe

LEMMA DepositInsertsSafe ==
    ASSUME Safe, NEW r \in Requests, NEW m \in Deposits, DepositInserts(r, m) PROVE Safe'
<1> DEFINE k == depositing[r]
           e == [kind |-> "manual", key |-> k, trade |-> NoTrade, by |-> r,
                 cur |-> m.cur, amount |-> m.amount, day |-> Today]
<1>1. /\ k # NoKey /\ UNCHANGED <<bookVars, cashVars, handback, reversing, made>>
      /\ manual' = IF KeyTaken(k) THEN manual ELSE manual \cup {e}
      /\ depositing' = [depositing EXCEPT ![r] = NoKey]
  BY DEF DepositInserts, bookVars
<1>2. k \in Keys /\ k \notin Ids BY <1>1, LedgerAssumption DEF Safe, TypeOK
<1>3. m.cur \in Currencies /\ m.amount \in Int /\ Today \in Nat BY LedgerAssumption
<1>4. e \in [kind : {"manual"}, key : Keys \cup Ids, trade : Ids \cup {NoTrade},
             by : Requests \cup {"fill"}, cur : Currencies, amount : Int, day : Nat]
  BY <1>2, <1>3
<1>5. ManualType' BY <1>1, <1>4 DEF ManualType, Safe, TypeOK
<1>6. ~KeyTaken(k) => \A a \in manual : a.key # k BY DEF KeyTaken, Deposited
<1>7. e.key = k OBVIOUS
<1> HIDE DEF e, k
<1>8. Once'
  <2>1. \A a, b \in manual' : a.key = b.key => a = b BY <1>1, <1>6, <1>7 DEF Safe, Once
  <2>2. \A a \in manual' : a.key \in Ids => a.key <= made' BY <1>1, <1>2, <1>7 DEF Safe, Once
  <2> QED BY <1>1, <2>1, <2>2 DEF Safe, Once
<1>9. manual \subseteq manual' BY <1>1
<1>10. HandsOff' BY <1>1, <1>9 DEF Safe, HandsOff
<1>11. settled' = settled BY <1>1 DEF cashVars
<1>12. handback' \subseteq Accounts(Requests)' BY <1>1, <1>9, <1>11 DEF Safe, TypeOK, Accounts
<1>13. depositing' \in [Requests -> Keys \cup {NoKey}] BY <1>1 DEF Safe, TypeOK
<1> QED BY <1>1, <1>5, <1>8, <1>9, <1>10, <1>12, <1>13, HandSafe

\* The settlement of a transaction that is gone has its counter-entry.
LEMMA DeadAreReversed ==
    ASSUME Safe, NEW e \in settled, TransactionOf(e) = NoTrade PROVE Reversed(e)
<1>1. e.trade \in Ids /\ NoTrade \notin Ids BY LedgerAssumption DEF Safe, TypeOK
<1>2. trade[e.trade] = NoTrade BY <1>1 DEF TransactionOf, Live
<1>3. Open(e.trade) = {} BY <1>1, <1>2 DEF Safe, Follows, Follow, Owes
<1> QED BY <1>1, <1>3 DEF Open

LEMMA ReverseChecksSafe ==
    ASSUME Safe, NEW r \in Requests, NEW e \in manual \cup settled, ReverseChecks(r, e)
    PROVE  Safe'
<1>1. /\ MayReverse(e) /\ UNCHANGED <<bookVars, cashVars, manual, handback, depositing, made>>
      /\ reversing' = [reversing EXCEPT ![r] = e]
  BY DEF ReverseChecks, bookVars
<1>2. e \in manual BY <1>1, DeadAreReversed DEF MayReverse
<1>3. made \in Nat BY DEF Safe, TypeOK
<1>4. Once' /\ ManualType' BY <1>1, <1>3, OnceSame
<1>5. HandsOff' BY <1>1, <1>2 DEF Safe, HandsOff, TypeOK
<1>6. handback' \subseteq Accounts(Requests)' BY <1>1 DEF Safe, TypeOK, Accounts, cashVars
<1>7. depositing' \in [Requests -> Keys \cup {NoKey}] BY <1>1 DEF Safe, TypeOK
<1> QED BY <1>1, <1>4, <1>5, <1>6, <1>7, HandSafe

LEMMA ReverseInsertsSafe == ASSUME Safe, NEW r \in Requests, ReverseInserts(r) PROVE Safe'
<1> DEFINE e == reversing[r]
           back == [of |-> e, by |-> r, cur |-> e.cur, amount |-> -e.amount, day |-> Today]
<1>1. /\ e # NoEntry /\ UNCHANGED <<bookVars, cashVars, manual, depositing, made>>
      /\ handback' = IF \E b \in handback : b.of = e THEN handback ELSE handback \cup {back}
      /\ reversing' = [reversing EXCEPT ![r] = NoEntry]
  BY DEF ReverseInserts, bookVars
<1>2. e \in manual BY <1>1 DEF Safe, HandsOff
<1>3. e.cur \in Currencies /\ e.amount \in Int /\ Today \in Nat
  BY <1>2, LedgerAssumption DEF Safe, TypeOK
<1>4. back.of = e /\ back \in [of : manual \cup settled, by : Requests, cur : Currencies,
                               amount : Int, day : Nat]
  BY <1>2, <1>3
<1> HIDE DEF back, e
<1>5. settled' = settled BY <1>1 DEF cashVars
<1>6. handback' \subseteq Accounts(Requests)' BY <1>1, <1>4, <1>5 DEF Safe, TypeOK, Accounts
<1>7. \A b \in handback' \ handback : b.of \in manual BY <1>1, <1>2, <1>4
<1>8. HandsOff' BY <1>1, <1>7 DEF Safe, HandsOff, TypeOK
<1>9. made \in Nat /\ ManualType' BY <1>1 DEF Safe, TypeOK, ManualType
<1>10. Once' BY <1>1, <1>4 DEF Safe, Once
<1>11. depositing' \in [Requests -> Keys \cup {NoKey}] BY <1>1 DEF Safe, TypeOK
<1> QED BY <1>1, <1>6, <1>7, <1>8, <1>9, <1>10, <1>11, HandSafe

-----------------------------------------------------------------------------

LEMMA InitSafe == Init => Safe
<1> SUFFICES ASSUME Init PROVE Safe OBVIOUS
<1>1. TypeOK BY LedgerAssumption DEF Init, TypeOK, Accounts
<1>2. Fresh /\ Sourced /\ PaperLives BY DEF Init, Fresh, Bare, Sourced, PaperLives
<1>3. Numbered /\ Countered /\ HandsOff /\ Once BY DEF Init, Numbered, Countered, HandsOff, Once
<1>4. Follows BY DEF Init, Follows, Follow, Owes, Open
<1> QED BY <1>1, <1>2, <1>3, <1>4 DEF Safe

LEMMA StepSafe == Safe /\ [Next]_vars => Safe'
<1> SUFFICES ASSUME Safe, [Next]_vars PROVE Safe' OBVIOUS
<1>1. ASSUME NEW x \in Inputs, Trading(x) PROVE Safe'
  <2>1. x \in Terms BY LedgerAssumption
  <2> QED BY <1>1, <2>1, ByHandSafe, FillSafe, UpdateSafe DEF Trading
<1>2. ASSUME NEW t \in Ids, Delete(t) PROVE Safe' BY <1>2, DeleteSafe
<1>3. ASSUME NEW f \in Files, Filing(f) PROVE Safe'
  BY <1>3, ImportSafe, RollbackSafe DEF Filing
<1>4. ASSUME NEW r \in Requests, ByHand(r) PROVE Safe'
  BY <1>4, DepositChecksSafe, DepositInsertsSafe, ReverseChecksSafe, ReverseInsertsSafe DEF ByHand
<1>5. ASSUME UNCHANGED vars PROVE Safe'
  <2>1. UNCHANGED <<bookVars, cashVars, made, manual, handback, depositing, reversing, settled>>
    BY <1>5 DEF vars, bookVars, cashVars, handVars
  <2>2. made \in Nat BY DEF Safe, TypeOK
  <2>3. Once' /\ ManualType' BY <2>1, <2>2, OnceSame
  <2>4. HandsOff' BY <2>1 DEF Safe, HandsOff
  <2>5. handback' \subseteq Accounts(Requests)' /\ depositing' \in [Requests -> Keys \cup {NoKey}]
    BY <2>1 DEF Safe, TypeOK, Accounts
  <2> QED BY <2>1, <2>3, <2>4, <2>5, HandSafe
<1> QED BY <1>1, <1>2, <1>3, <1>4, <1>5 DEF Next

LEMMA AlwaysSafe == Spec => []Safe
BY InitSafe, StepSafe, PTL DEF Spec

\* The types of all the variables, for any book, files and requests.
THEOREM TypeCorrect == Spec => []TypeOK
<1>1. Safe => TypeOK BY DEF Safe
<1> QED BY <1>1, AlwaysSafe, PTL

\* No entry gets two counter-entries, by the change or the deletion of its
\* transaction and by any number of requests at once, and no key two entries.
THEOREM EntriesOnce == Spec => []NoDoubleEntry
<1>1. ASSUME Safe PROVE NoDoubleEntry
  <2>1. \A a \in undone : a = Counter(a.of) /\ a.of \in settled BY <1>1 DEF Safe, Countered
  <2>2. \A a \in settled : a.kind = "settlement" BY <1>1 DEF Safe, TypeOK
  <2>3. \A b \in handback : b.of.kind = "manual" BY <1>1 DEF Safe, HandsOff, TypeOK
  <2>4. \A a \in undone, b \in handback : a.of # b.of BY <2>1, <2>2, <2>3
  <2>5. \A a, b \in undone : a.of = b.of => a = b BY <2>1
  <2> QED BY <1>1, <2>4, <2>5 DEF Safe, Once, NoDoubleEntry
<1> QED BY <1>1, AlwaysSafe, PTL


-----------------------------------------------------------------------------
(* Positions.                                                              *)

Elsewhere(x, i) == x = NoTrade \/ x.inst # i

\* What happens in other instruments does not uncover a sale.
LEMMA SameHistory ==
    ASSUME NEW b, NEW c, NEW i,
           \A t \in Ids : b[t] = c[t] \/ (Elsewhere(b[t], i) /\ Elsewhere(c[t], i))
    PROVE  Covered(b, i) <=> Covered(c, i)
<1>1. Of(b, i) = Of(c, i) BY DEF Of, Live, Elsewhere
<1>2. \A t \in Of(b, i) : b[t] = c[t] BY DEF Of, Live, Elsewhere
<1>3. History(b, i) = History(c, i) BY <1>1, <1>2 DEF History
<1> QED BY <1>3 DEF Covered

LEMMA StepCovered ==
    ASSUME Safe, [Next]_vars, imported' \subseteq imported,
           NEW i \in Instruments, Covered(trade, i)
    PROVE  Covered(trade', i)
<1>0. trade \in [Ids -> Terms \cup {NoTrade}] /\ made \in Nat BY DEF Safe, TypeOK
<1>1. ASSUME NEW x \in Inputs, Trading(x) PROVE Covered(trade', i)
  <2>1. CASE \E t \in Ids : made + 1 = t /\ trade' = [trade EXCEPT ![t] = x]
                            /\ Covered(trade', x.inst)
    <3>1. PICK t \in Ids : made + 1 = t /\ trade' = [trade EXCEPT ![t] = x]
                           /\ Covered(trade', x.inst)
      BY <2>1
    <3>2. trade[t] = NoTrade BY <1>0, <3>1 DEF Safe, Fresh, Bare
    <3>3. CASE x.inst = i BY <3>1, <3>3
    <3>4. CASE x.inst # i BY <1>0, <3>1, <3>2, <3>4, SameHistory DEF Elsewhere
    <3> QED BY <3>3, <3>4
  <2>2. ASSUME Add(x) PROVE Covered(trade', i) BY <2>1, <2>2 DEF Add
  <2>3. ASSUME NEW t \in Ids, NEW replace \in BOOLEAN, Update(t, x, replace)
        PROVE  Covered(trade', i)
    <3>1. trade' = [trade EXCEPT ![t] = x] /\ \A j \in Touched(t, x) : Covered(trade', j)
      BY <2>3 DEF Update
    <3>2. CASE i \in Touched(t, x) BY <3>1, <3>2
    <3>3. CASE i \notin Touched(t, x)
      <4>1. x.inst # i /\ trade[t].inst # i BY <3>3 DEF Touched
      <4> QED BY <1>0, <3>1, <4>1, SameHistory DEF Elsewhere
    <3> QED BY <3>2, <3>3
  <2> QED BY <1>1, <2>2, <2>3 DEF Trading, AddByHand, Fill
<1>2. ASSUME NEW S \in SUBSET Ids, RemoveTrades(S) PROVE Covered(trade', i)
  <2>1. /\ trade' = [t \in Ids |-> IF t \in S THEN NoTrade ELSE trade[t]]
        /\ \A j \in {trade[t].inst : t \in S} : Covered(trade', j)
    BY <1>2 DEF RemoveTrades
  <2>2. CASE i \in {trade[t].inst : t \in S} BY <2>1, <2>2
  <2>3. CASE i \notin {trade[t].inst : t \in S}
    <3>1. \A t \in S : trade[t].inst # i BY <2>3
    <3> QED BY <1>0, <2>1, <3>1, SameHistory DEF Elsewhere
  <2> QED BY <2>2, <2>3
<1>3. ASSUME NEW t \in Ids, Delete(t) PROVE Covered(trade', i) BY <1>2, <1>3 DEF Delete
<1>4. ASSUME NEW f \in Files, Filing(f) PROVE Covered(trade', i)
  <2>1. ~Import(f) BY DEF Import
  <2>2. Linked(f) \subseteq Ids BY DEF Linked
  <2> QED BY <1>2, <1>4, <2>1, <2>2 DEF Filing, Rollback
<1>5. ASSUME NEW r \in Requests, ByHand(r) PROVE Covered(trade', i)
  <2>1. trade' = trade
    BY <1>5 DEF ByHand, DepositChecks, DepositInserts, ReverseChecks, ReverseInserts, bookVars
  <2> QED BY <2>1
<1>6. ASSUME UNCHANGED vars PROVE Covered(trade', i) BY <1>6 DEF vars, bookVars
<1> QED BY <1>1, <1>3, <1>4, <1>5, <1>6 DEF Next

\* Nothing but an import can leave a sale uncovered: an addition, a change, a
\* deletion and an undone import check every instrument they touch.
THEOREM OnlyImportsUncover == Spec => ShortOnlyByImport
<1>1. Safe /\ [Next]_vars =>
          (imported' \subseteq imported =>
               \A i \in Instruments : Covered(trade, i) => Covered(trade', i))
  BY StepCovered
<1> QED BY <1>1, AlwaysSafe, PTL DEF Spec, ShortOnlyByImport

-----------------------------------------------------------------------------
(* The refinement.                                                         *)

Net(e) == [cur |-> e.cur, amount |-> e.amount, day |-> e.day]

\* What is open is what the present terms settle with.
LEMMA NetFollows == Safe => NetCash = Book!Settled(trade)
<1> SUFFICES ASSUME Safe PROVE NetCash = Book!Settled(trade) OBVIOUS
<1>1. trade \in [Ids -> Terms \cup {NoTrade}] /\ posts \in [Ids -> Nat] BY DEF Safe, TypeOK
<1>2. ASSUME NEW t \in Ids
      PROVE  {Net(e) : e \in Open(t)} = IF trade[t] = NoTrade THEN {} ELSE Settlement(trade[t])
  <2>1. Follow(t) BY DEF Safe, Follows
  <2>2. CASE ~Owes(trade[t]) BY <2>1, <2>2 DEF Follow, Owes, Settlement
  <2>3. CASE Owes(trade[t])
    <3>1. trade[t] \in Terms BY <1>1, <2>3 DEF Owes
    <3>2. PICK n \in 1..posts[t] : Open(t) = {Entry(t, n, trade[t])} BY <2>1, <2>3 DEF Follow
    <3>3. n \in Nat \ {0} BY <1>1, <3>2
    <3>4. Net(Entry(t, n, trade[t])) = Cash(trade[t])
      BY <3>1, CashType DEF Net, Entry
    <3>5. {Net(e) : e \in Open(t)} = {Cash(trade[t])} BY <3>2, <3>4
    <3> QED BY <2>3, <3>5 DEF Owes, Settlement
  <2> QED BY <2>2, <2>3
<1> QED BY <1>2 DEF NetCash, Net, Book!Settled

LEMMA BookInit == Init => Book!Init
<1> SUFFICES ASSUME Init PROVE Book!Init OBVIOUS
<1>1. NetCash = Book!Settled(trade) BY InitSafe, NetFollows
<1> QED BY <1>1 DEF Init, Book!Init

LEMMA BookStep == Safe /\ [Next]_vars => [Book!Next]_(Book!vars)
<1> SUFFICES ASSUME Safe, [Next]_vars PROVE [Book!Next]_(Book!vars) OBVIOUS
<1>0. Safe' BY StepSafe
<1>1. (NetCash = Book!Settled(trade))' BY <1>0, NetFollows, PTL
<1>2. NetCash' = Book!Settled(trade') BY <1>1 DEF Book!Settled
<1>3. /\ trade' \in [Ids -> Terms \cup {NoTrade}] /\ source' \in [Ids -> Files \cup {NoFile}]
      /\ trade \in [Ids -> Terms \cup {NoTrade}] /\ source \in [Ids -> Files \cup {NoFile}]
      /\ made \in Nat /\ NoTrade \notin Terms /\ NoFile \notin Files
  BY <1>0, LedgerAssumption DEF Safe, TypeOK
<1>4. ASSUME NEW x \in Terms, Add(x), paper' \in {paper, paper \cup {made'}} PROVE Book!Next
  <2>1. PICK t \in Ids : /\ t = made + 1 /\ made' = t /\ trade' = [trade EXCEPT ![t] = x]
                         /\ Covered(trade', x.inst) /\ UNCHANGED <<source, imported>>
    BY <1>4 DEF Add
  <2>2. trade[t] = NoTrade /\ source[t] = NoFile BY <1>3, <2>1 DEF Safe, Fresh, Bare
  <2>3. Book!Only({t}) BY <1>3, <2>1 DEF Book!Only
  <2>4. Book!Enter(t) BY <1>3, <1>4, <2>1, <2>2, <2>3 DEF Book!Enter
  <2> QED BY <1>2, <1>3, <2>4 DEF Book!Next
<1>5. ASSUME NEW t \in Ids, NEW x \in Terms, NEW replace \in BOOLEAN, Update(t, x, replace)
      PROVE  Book!Next
  <2>1. /\ trade[t] # NoTrade /\ t \notin paper /\ trade' = [trade EXCEPT ![t] = x]
        /\ \A i \in {trade[t].inst, x.inst} : Covered(trade', i)
        /\ UNCHANGED <<source, imported, paper>>
    BY <1>5 DEF Update, Touched, Live
  <2>2. Book!Only({t}) BY <1>3, <2>1 DEF Book!Only
  <2>3. Book!Change(t) BY <1>3, <2>1, <2>2 DEF Book!Change
  <2> QED BY <1>2, <1>3, <2>3 DEF Book!Next
<1>6. ASSUME NEW t \in Ids, Delete(t) PROVE Book!Next
  <2>1. /\ trade[t] # NoTrade /\ t \notin paper
        /\ trade' = [u \in Ids |-> IF u \in {t} THEN NoTrade ELSE trade[u]]
        /\ source' = [u \in Ids |-> IF u \in {t} THEN NoFile ELSE source[u]]
        /\ \A i \in {trade[u].inst : u \in {t}} : Covered(trade', i)
        /\ UNCHANGED <<imported, paper>>
    BY <1>6 DEF Delete, RemoveTrades, Live
  <2>2. Book!Only({t}) BY <1>3, <2>1 DEF Book!Only
  <2>3. Book!Strike(t) BY <1>3, <2>1, <2>2 DEF Book!Strike
  <2> QED BY <1>2, <1>3, <2>3 DEF Book!Next
<1>7. ASSUME NEW f \in Files, Import(f) PROVE Book!Next
  <2> DEFINE new == (made + 1)..(made + Len(Rows[f]))
  <2>1. /\ f \notin imported /\ imported' = imported \cup {f} /\ new \subseteq Ids
        /\ trade' = [t \in Ids |-> IF t \in new THEN Rows[f][t - made] ELSE trade[t]]
        /\ source' = [t \in Ids |-> IF t \in new THEN f ELSE source[t]]
        /\ paper' = paper
    BY <1>7 DEF Import
  <2>2. Rows[f] \in Seq(Terms) /\ Ids \subseteq Nat BY LedgerAssumption
  <2>3. \A t \in new : t \in Ids /\ t > made /\ t - made \in 1..Len(Rows[f])
    BY <1>3, <2>1, <2>2
  <2>4. \A t \in new : Rows[f][t - made] \in Terms BY <2>2, <2>3
  <2>5. \A t \in new : trade[t] = NoTrade BY <2>3 DEF Safe, Fresh, Bare
  <2> HIDE DEF new
  <2>6. \A t \in Ids : source[t] # f BY <1>3, <2>1 DEF Safe, Sourced
  <2>7. {t \in Ids : source'[t] = f} = new BY <2>1, <2>6
  <2>8. Book!Only(new) BY <1>3, <2>1 DEF Book!Only
  <2>9. \A t \in new : trade'[t] \in Terms BY <2>1, <2>4
  <2>10. Book!Import(f) BY <2>1, <2>5, <2>7, <2>8, <2>9 DEF Book!Import
  <2> QED BY <1>2, <1>3, <2>10 DEF Book!Next
<1>8. ASSUME NEW f \in Files, Rollback(f) PROVE Book!Next
  <2>1. /\ f \in imported /\ imported' = imported \ {f} /\ paper' = paper
        /\ trade' = [t \in Ids |-> IF t \in Linked(f) THEN NoTrade ELSE trade[t]]
        /\ source' = [t \in Ids |-> IF t \in Linked(f) THEN NoFile ELSE source[t]]
        /\ \A i \in {trade[t].inst : t \in Linked(f)} : Covered(trade', i)
    BY <1>8 DEF Rollback, RemoveTrades
  <2>2. Linked(f) \cap paper = {} BY <1>3 DEF Linked, Safe, Sourced
  <2>3. Book!Only(Linked(f)) BY <1>3, <2>1 DEF Book!Only
  <2>4. \A t \in Linked(f) : t \in Ids /\ trade'[t] = NoTrade /\ source'[t] = NoFile
                             /\ Covered(trade', trade[t].inst)
    BY <2>1 DEF Linked
  <2>5. Book!Undo(f) BY <2>1, <2>2, <2>3, <2>4 DEF Book!Undo, Linked
  <2> QED BY <1>2, <1>3, <2>5 DEF Book!Next
<1>9. ASSUME UNCHANGED <<trade, source, imported, paper>> PROVE UNCHANGED Book!vars
  <2>1. NetCash = Book!Settled(trade) BY NetFollows
  <2>2. NetCash' = NetCash BY <1>2, <1>9, <2>1
  <2> QED BY <1>9, <2>2 DEF Book!vars
<1>10. ASSUME NEW x \in Inputs, Trading(x) PROVE Book!Next
  <2>1. x \in Terms BY LedgerAssumption
  <2> QED BY <1>4, <1>5, <1>10, <2>1 DEF Trading, AddByHand, Fill
<1>11. ASSUME NEW r \in Requests, ByHand(r) PROVE UNCHANGED <<trade, source, imported, paper>>
  BY <1>11 DEF ByHand, DepositChecks, DepositInserts, ReverseChecks, ReverseInserts, bookVars
<1> QED BY <1>6, <1>7, <1>8, <1>9, <1>10, <1>11 DEF Next, Filing, vars, bookVars

\* An append-only ledger in which a change reverses one entry and appends
\* another is, in what it amounts to, a table that is written in place:
\* every step is a step of LedgerBook or changes nothing in it.
THEOREM LedgerImplementsBook == Spec => ImplementsBook
BY BookInit, BookStep, AlwaysSafe, InitSafe, PTL DEF Spec, ImplementsBook, Book!Spec

-----------------------------------------------------------------------------
(* The balance.                                                            *)

LEMMA SettlesOrNot ==
    ASSUME [Next]_vars
    PROVE  settled' = settled \/ \E S \in SUBSET Ids : \E book : Settle(S, book)
<1>1. ASSUME NEW x, Add(x) PROVE \E S \in SUBSET Ids : \E book : Settle(S, book)
  BY <1>1 DEF Add
<1>2. ASSUME NEW x \in Inputs, Trading(x)
      PROVE  settled' = settled \/ \E S \in SUBSET Ids : \E book : Settle(S, book)
  <2>1. ASSUME NEW t \in Ids, NEW replace \in BOOLEAN, Update(t, x, replace)
        PROVE  settled' = settled \/ \E S \in SUBSET Ids : \E book : Settle(S, book)
    <3>1. CASE replace
      <4>1. Settle({t}, [trade EXCEPT ![t] = x])
        BY <2>1, <3>1 DEF Update
      <4> QED
        BY <4>1
    <3>2. CASE ~replace
      BY <2>1, <3>2 DEF Update, cashVars
    <3> QED
      BY <3>1, <3>2
  <2> QED
    BY <1>1, <1>2, <2>1 DEF Trading, AddByHand, Fill
<1>3. ASSUME NEW t \in Ids, Delete(t) PROVE settled' = settled
  BY <1>3 DEF Delete, RemoveTrades
<1>4. ASSUME NEW f \in Files, Import(f) PROVE \E S \in SUBSET Ids : \E book : Settle(S, book)
  <2>1. (made + 1)..(made + Len(Rows[f])) \in SUBSET Ids
    BY <1>4 DEF Import
  <2> DEFINE new == (made + 1)..(made + Len(Rows[f]))
             book == [t \in Ids |-> IF t \in new THEN Rows[f][t - made] ELSE trade[t]]
  <2>2. Settle(new, book)
    BY <1>4 DEF Import
  <2> QED
    BY <2>1, <2>2
<1>5. ASSUME NEW f \in Files, Rollback(f) PROVE settled' = settled
  BY <1>5 DEF Rollback, RemoveTrades
<1>6. ASSUME NEW r \in Requests, ByHand(r) PROVE settled' = settled
  BY <1>6 DEF ByHand, DepositChecks, DepositInserts, ReverseChecks, ReverseInserts, cashVars
<1>7. ASSUME UNCHANGED vars PROVE settled' = settled
  BY <1>7 DEF vars, cashVars
<1> QED
  BY <1>2, <1>3, <1>4, <1>5, <1>6, <1>7 DEF Next, Filing

\* Sums are over finitely many entries.
Finite == IsFiniteSet(settled)

LEMMA FiniteStep == Finite /\ [Next]_vars => Finite'
<1> SUFFICES ASSUME IsFiniteSet(settled), [Next]_vars PROVE IsFiniteSet(settled')
  BY DEF Finite
<1>1. ASSUME NEW S \in SUBSET Ids, NEW book, Settle(S, book) PROVE IsFiniteSet(settled')
  <2> DEFINE m == [t \in Owing(S, book) |-> Entry(t, posts[t] + 1, book[t])]
  <2>1. settled' = settled \cup Image(m, Owing(S, book))
    BY <1>1 DEF Settle, Owing, Image
  <2>2. IsFiniteSet(Owing(S, book))
    <3>1. IsFiniteSet(Ids)
      BY FS_Interval, LedgerAssumption
    <3>2. Owing(S, book) \subseteq Ids
      BY DEF Owing
    <3> QED
      BY <3>1, <3>2, FS_Subset
  <2> HIDE DEF m
  <2> QED
    BY <2>1, <2>2, ImageFinite, FS_Union
<1> QED
  BY <1>1, SettlesOrNot

\* The model's sums, over entries and over transactions.
LEMMA AmountSumIs ==
    ASSUME NEW S, IsFiniteSet(S), \A e \in S : e.amount \in Int
    PROVE  MapThenSumSet(LAMBDA e : e.amount, S) = Total([e \in S |-> e.amount], S)
<1> DEFINE a == [e \in S |-> e.amount]
           h == Table(a, S)
<1>1. \A e \in S : a[e] \in Int /\ a[e] = e.amount
  OBVIOUS
<1> HIDE DEF a
<1>2. IsTable(h, a, S) /\ \A g : IsTable(g, a, S) => g = h
  <2>1. IsTable(h, a, S)
    BY <1>1, TableHolds
  <2>2. QED
    BY <1>1, <2>1, TableUnique
<1>3. \A U \in SUBSET S : U # {} => a[Pick(U)] = Pick(U).amount
  BY <1>1, PickIn
<1> HIDE DEF h
<1>4. h = [U \in SUBSET S |-> IF U = {} THEN 0
              ELSE (CHOOSE e \in U : TRUE).amount + h[U \ {CHOOSE e \in U : TRUE}]]
  BY <1>2, <1>3 DEF IsTable, Pick
<1>5. ASSUME NEW g, g = [U \in SUBSET S |-> IF U = {} THEN 0
              ELSE (CHOOSE e \in U : TRUE).amount + g[U \ {CHOOSE e \in U : TRUE}]]
      PROVE  g = h
  <2>1. ASSUME NEW U \in SUBSET S
        PROVE  g[U] = IF U = {} THEN 0 ELSE a[Pick(U)] + g[U \ {Pick(U)}]
    <3>1. g[U] = IF U = {} THEN 0 ELSE Pick(U).amount + g[U \ {Pick(U)}]
      BY <1>5 DEF Pick
    <3>2. QED
      BY <1>3, <3>1
  <2>2. g = [U \in SUBSET S |-> g[U]]
    BY <1>5
  <2>3. IsTable(g, a, S)
    BY <2>1, <2>2 DEF IsTable
  <2>4. QED
    BY <1>2, <2>3
<1>6. MapThenSumSet(LAMBDA e : e.amount, S) = h[S]
  BY <1>4, <1>5 DEF MapThenSumSet, MapThenFoldSet
<1>7. QED
  BY <1>6 DEF Total, h, a

CashOf == [t \in Ids |-> CashAmount(trade[t])]

LEMMA CashSumIs ==
    ASSUME NEW S \in SUBSET Ids, IsFiniteSet(S), \A t \in S : CashOf[t] \in Int
    PROVE  MapThenSumSet(LAMBDA t : CashAmount(trade[t]), S) = Total(CashOf, S)
<1> DEFINE h == Table(CashOf, S)
<1>1. \A t \in S : CashOf[t] = CashAmount(trade[t])
  BY DEF CashOf
<1>2. IsTable(h, CashOf, S) /\ \A g : IsTable(g, CashOf, S) => g = h
  <2>1. IsTable(h, CashOf, S)
    BY TableHolds
  <2>2. QED
    BY <2>1, TableUnique
<1>3. \A U \in SUBSET S : U # {} => CashOf[Pick(U)] = CashAmount(trade[Pick(U)])
  BY <1>1, PickIn
<1> HIDE DEF h
<1>4. h = [U \in SUBSET S |-> IF U = {} THEN 0
              ELSE CashAmount(trade[CHOOSE t \in U : TRUE]) + h[U \ {CHOOSE t \in U : TRUE}]]
  BY <1>2, <1>3 DEF IsTable, Pick
<1>5. ASSUME NEW g, g = [U \in SUBSET S |-> IF U = {} THEN 0
              ELSE CashAmount(trade[CHOOSE t \in U : TRUE]) + g[U \ {CHOOSE t \in U : TRUE}]]
      PROVE  g = h
  <2>1. ASSUME NEW U \in SUBSET S
        PROVE  g[U] = IF U = {} THEN 0 ELSE CashOf[Pick(U)] + g[U \ {Pick(U)}]
    <3>1. g[U] = IF U = {} THEN 0 ELSE CashAmount(trade[Pick(U)]) + g[U \ {Pick(U)}]
      BY <1>5 DEF Pick
    <3>2. QED
      BY <1>3, <3>1
  <2>2. g = [U \in SUBSET S |-> g[U]]
    BY <1>5
  <2>3. IsTable(g, CashOf, S)
    BY <2>1, <2>2 DEF IsTable
  <2>4. QED
    BY <1>2, <2>3
<1>6. MapThenSumSet(LAMBDA t : CashAmount(trade[t]), S) = h[S]
  BY <1>4, <1>5 DEF MapThenSumSet, MapThenFoldSet
<1>7. QED
  BY <1>6 DEF Total, h

-----------------------------------------------------------------------------
(* The entries of one currency up to a day.                                *)

UpToDay(S, c, d) == {e \in S : e.cur = c /\ e.day <= d}
Withdrawn(c, d) == {e \in UpToDay(settled, c, d) : \E r \in undone : r.of = e}
Standing(c, d) == UpToDay(settled, c, d) \ Withdrawn(c, d)
Settling(c, d) == {t \in Live(trade) : Cash(trade[t]).cur = c /\ trade[t].day <= d}
Amounts(S) == [e \in S |-> e.amount]

LEMMA EntriesType ==
    ASSUME Safe, IsFiniteSet(settled)
    PROVE  /\ \A e \in settled : e.amount \in Int /\ e.trade \in Ids
           /\ \A r \in undone : /\ r.of \in settled /\ r = Counter(r.of) /\ r.amount \in Int
                                /\ r.cur = r.of.cur /\ r.amount = -r.of.amount /\ r.day = r.of.day
           /\ \A c, d : UpToDay({b \in handback : b.of \in settled}, c, d) = {}
<1>1. \A e \in settled : e.amount \in Int /\ e.trade \in Ids /\ e.kind = "settlement"
  BY DEF Safe, TypeOK
<1>2. ASSUME NEW r \in undone
      PROVE  /\ r.of \in settled /\ r = Counter(r.of)
             /\ r.cur = r.of.cur /\ r.amount = -r.of.amount /\ r.day = r.of.day
  <2>1. r.of \in settled /\ r = Counter(r.of)
    BY DEF Safe, Countered
  <2>2. /\ Counter(r.of).cur = r.of.cur /\ Counter(r.of).amount = -r.of.amount
        /\ Counter(r.of).day = r.of.day
    BY DEF Counter
  <2> QED
    BY <2>1, <2>2
<1>3. \A b \in handback : b.of.kind = "manual"
  BY DEF Safe, HandsOff, TypeOK
<1>4. \A r \in undone : r.amount \in Int
  BY <1>1, <1>2
<1>5. {b \in handback : b.of \in settled} = {}
  BY <1>1, <1>3
<1> QED
  BY <1>1, <1>2, <1>4, <1>5 DEF UpToDay

\* The counter-entries take back what was withdrawn, to the day.
LEMMA UndoneSum ==
    ASSUME Safe, IsFiniteSet(settled), NEW c, NEW d
    PROVE  /\ IsFiniteSet(UpToDay(undone, c, d))
           /\ Total(Amounts(UpToDay(undone, c, d)), UpToDay(undone, c, d))
                = -Total(Amounts(settled), Withdrawn(c, d))
<1> DEFINE W == Withdrawn(c, d)
           U == UpToDay(undone, c, d)
           m == [e \in W |-> Counter(e)]
           n == [e \in W |-> -e.amount]
<1>1. W \subseteq settled /\ IsFiniteSet(W)
  <2>1. W \subseteq settled
    BY DEF Withdrawn, UpToDay
  <2> QED
    BY <2>1, FS_Subset
<1>2. \A e \in W : m[e] = Counter(e) /\ Counter(e).of = e /\ Counter(e).amount = -e.amount
  BY DEF Counter
<1>3. Image(m, W) = U
  <2>1. ASSUME NEW e \in W PROVE m[e] \in U
    <3>1. PICK r \in undone : r.of = e
      BY DEF Withdrawn
    <3>2. r = Counter(e) /\ r.cur = e.cur /\ r.day = e.day
      BY <3>1, EntriesType
    <3>3. e.cur = c /\ e.day <= d
      BY DEF Withdrawn, UpToDay
    <3> QED
      BY <1>2, <3>2, <3>3 DEF UpToDay
  <2>2. ASSUME NEW r \in U PROVE \E e \in W : r = m[e]
    <3>1. r \in undone /\ r.cur = c /\ r.day <= d
      BY DEF UpToDay
    <3>2. r.of \in settled /\ r = Counter(r.of) /\ r.of.cur = c /\ r.of.day <= d
      BY <3>1, EntriesType
    <3>3. r.of \in W
      BY <3>1, <3>2 DEF Withdrawn, UpToDay
    <3> QED
      BY <1>2, <3>2, <3>3
  <2> HIDE DEF W, U, m
  <2> QED
    BY <2>1, <2>2 DEF Image
<1>4. \A x, y \in W : m[x] = m[y] => x = y
  BY <1>2
<1>5. \A e \in W : n[e] = -e.amount /\ e.amount \in Int /\ n[e] \in Int
  BY <1>1, EntriesType
<1>6. IsFiniteSet(U)
  <2> HIDE DEF W, U, m
  <2> QED
    BY <1>1, <1>3, ImageFinite
<1>7. \A e \in W : Amounts(U)[m[e]] = n[e]
  <2>1. \A e \in W : m[e] \in U
    BY <1>3 DEF Image
  <2> HIDE DEF W, U, m, n
  <2> QED
    BY <1>2, <1>5, <2>1 DEF Amounts
<1>8. \A e \in W : Amounts(settled)[e] = e.amount
  BY <1>1 DEF Amounts
<1> HIDE DEF W, U, m, n
<1>9. Total(Amounts(U), U) = Total(n, W)
  BY <1>1, <1>3, <1>4, <1>5, <1>7, TotalOfImage
<1>10. Total(n, W) = -Total(Amounts(settled), W)
  <2>1. \A e \in W : Amounts(settled)[e] \in Int /\ n[e] = -Amounts(settled)[e]
    BY <1>5, <1>8
  <2> QED
    BY <1>1, <2>1, TotalCancels
<1> QED
  BY <1>6, <1>9, <1>10 DEF U, W

\* What stands is one entry for each transaction that settles with anything.
LEMMA StandingSum ==
    ASSUME Safe, IsFiniteSet(settled), NEW c, NEW d
    PROVE  /\ IsFiniteSet(Settling(c, d)) /\ \A t \in Settling(c, d) : CashOf[t] \in Int
           /\ Total(Amounts(settled), Standing(c, d)) = Total(CashOf, Settling(c, d))
<1> DEFINE B == Settling(c, d)
           O == Standing(c, d)
           P == {t \in B : CashOf[t] # 0}
           k == [t \in P |-> CHOOSE e : e \in Open(t)]
<1>0. trade \in [Ids -> Terms \cup {NoTrade}] /\ posts \in [Ids -> Nat]
  BY DEF Safe, TypeOK
<1>1. B \subseteq Ids /\ \A t \in B : trade[t] \in Terms
  BY <1>0 DEF Settling, Live
<1>2. IsFiniteSet(B) /\ IsFiniteSet(P)
  BY <1>1, FS_Interval, FS_Subset, LedgerAssumption
<1>3. \A t \in B : CashOf[t] = CashAmount(trade[t]) /\ CashOf[t] \in Int
  BY <1>1, CashType DEF CashOf
<1>4. ASSUME NEW t \in P
      PROVE  /\ k[t] \in O /\ k[t].trade = t /\ k[t].amount = CashOf[t]
  <2>1. Owes(trade[t]) /\ t \in Ids /\ trade[t] \in Terms
    BY <1>1, <1>3 DEF Owes, Settling, Live
  <2>2. PICK n \in 1..posts[t] : Open(t) = {Entry(t, n, trade[t])}
    BY <2>1 DEF Safe, Follows, Follow
  <2>3. n \in Nat \ {0}
    BY <1>0, <2>1, <2>2
  <2>4. k[t] = Entry(t, n, trade[t])
    BY <2>2
  <2>5. /\ k[t].trade = t /\ k[t].cur = Cash(trade[t]).cur
        /\ k[t].amount = CashAmount(trade[t]) /\ k[t].day = trade[t].day
    BY <2>1, <2>3, <2>4, EntryType
  <2>6. k[t] \in settled /\ ~Reversed(k[t])
    BY <2>2, <2>4 DEF Open
  <2>7. k[t].cur = c /\ k[t].day <= d
    BY <2>5 DEF Settling
  <2> HIDE DEF k
  <2>8. k[t] \in O
    BY <2>6, <2>7 DEF Standing, Withdrawn, UpToDay, Reversed
  <2> QED
    BY <1>3, <2>5, <2>8
<1>5. ASSUME NEW e \in O PROVE \E t \in P : e = k[t]
  <2>1. e \in settled /\ e.cur = c /\ e.day <= d /\ \A r \in undone : r.of # e
    BY DEF Standing, Withdrawn, UpToDay
  <2>2. e.trade \in Ids /\ ~Reversed(e)
    <3>1. e.kind = "settlement" /\ \A b \in handback : b.of.kind = "manual"
      BY <2>1 DEF Safe, HandsOff, TypeOK
    <3> QED
      BY <2>1, <3>1, EntriesType DEF Reversed
  <2> DEFINE t == e.trade
  <2>3. e \in Open(t)
    BY <2>1, <2>2 DEF Open
  <2>4. Owes(trade[t]) /\ \E n \in 1..posts[t] : Open(t) = {Entry(t, n, trade[t])}
    BY <2>2, <2>3 DEF Safe, Follows, Follow
  <2>5. PICK n \in 1..posts[t] : Open(t) = {Entry(t, n, trade[t])}
    BY <2>4
  <2>6. n \in Nat \ {0} /\ trade[t] \in Terms
    BY <1>0, <2>2, <2>4 DEF Owes
  <2>7. e.cur = Cash(trade[t]).cur /\ e.day = trade[t].day
    BY <2>2, <2>3, <2>5, <2>6, EntryType
  <2>8. t \in B
    BY <2>1, <2>2, <2>4, <2>7 DEF Settling, Live, Owes
  <2>9. CashOf[t] # 0
    BY <1>3, <2>4, <2>8 DEF Owes
  <2>10. k[t] = e
    BY <2>3, <2>5, <2>8, <2>9
  <2> QED
    BY <2>8, <2>9, <2>10
<1>6. Image(k, P) = O
  <2> HIDE DEF k, P, O
  <2> QED
    BY <1>4, <1>5 DEF Image
<1>7. \A x, y \in P : k[x] = k[y] => x = y
  BY <1>4
<1>8. \A t \in P : Amounts(settled)[k[t]] = CashOf[t]
  <2>1. O \subseteq settled
    BY DEF Standing, UpToDay
  <2> HIDE DEF k, P, O
  <2> QED
    BY <1>4, <2>1 DEF Amounts
<1>9. P \subseteq B /\ \A t \in B \ P : CashOf[t] = 0
  OBVIOUS
<1> HIDE DEF k, P, O, B
<1>10. Total(Amounts(settled), O) = Total(CashOf, P)
  BY <1>2, <1>3, <1>6, <1>7, <1>8, <1>9, TotalOfImage
<1>11. Total(CashOf, B) = Total(CashOf, P)
  BY <1>2, <1>3, <1>9, TotalSupport
<1> QED
  BY <1>2, <1>3, <1>10, <1>11 DEF B, O

LEMMA Balanced == Safe /\ Finite => BalanceIsHistory
<1> SUFFICES ASSUME Safe, IsFiniteSet(settled), NEW c \in Currencies, NEW d \in 0..Today
             PROVE  TradeCash(c, d) = BookCash(c, d)
  BY DEF BalanceIsHistory, Finite
<1> DEFINE S == UpToDay(settled, c, d)
           U == UpToDay(undone, c, d)
           W == Withdrawn(c, d)
           O == Standing(c, d)
           B == Settling(c, d)
<1>1. S \subseteq settled /\ W \cup O = S /\ W \cap O = {} /\ IsFiniteSet(S)
      /\ IsFiniteSet(W) /\ IsFiniteSet(O) /\ \A e \in S : e.amount \in Int
  <2>1. S \subseteq settled /\ W \subseteq S /\ O = S \ W
    BY DEF UpToDay, Withdrawn, Standing
  <2>2. IsFiniteSet(S)
    BY <2>1, FS_Subset
  <2>3. IsFiniteSet(W) /\ IsFiniteSet(O)
    BY <2>1, <2>2, FS_Subset
  <2> HIDE DEF S, W, O
  <2> QED
    BY <2>1, <2>2, <2>3, EntriesType
<1>2. IsFiniteSet(U) /\ Total(Amounts(U), U) = -Total(Amounts(settled), W)
  BY UndoneSum
<1>3. /\ IsFiniteSet(B) /\ \A t \in B : CashOf[t] \in Int
      /\ Total(Amounts(settled), O) = Total(CashOf, B)
  BY StandingSum
<1>4. \A r \in U : r.amount \in Int
  BY EntriesType DEF UpToDay
<1>5. AsOf(settled, c, d) = Total(Amounts(S), S)
  <2>1. AsOf(settled, c, d) = MapThenSumSet(LAMBDA e : e.amount, S)
    BY DEF AsOf, UpToDay
  <2> HIDE DEF S
  <2> QED
    BY <1>1, <2>1, AmountSumIs DEF Amounts
<1>6. AsOf(undone, c, d) = Total(Amounts(U), U)
  <2>1. AsOf(undone, c, d) = MapThenSumSet(LAMBDA e : e.amount, U)
    BY DEF AsOf, UpToDay
  <2> HIDE DEF U
  <2> QED
    BY <1>2, <1>4, <2>1, AmountSumIs DEF Amounts
<1>7. AsOf({b \in handback : b.of \in settled}, c, d) = 0
  <2> DEFINE H == UpToDay({b \in handback : b.of \in settled}, c, d)
  <2>1. AsOf({b \in handback : b.of \in settled}, c, d) = MapThenSumSet(LAMBDA e : e.amount, H)
    BY DEF AsOf, UpToDay
  <2>2. H = {}
    BY EntriesType
  <2> HIDE DEF H
  <2>3. IsFiniteSet(H) /\ \A e \in H : e.amount \in Int
    BY <2>2, FS_EmptySet
  <2>4. MapThenSumSet(LAMBDA e : e.amount, H) = Total([e \in H |-> e.amount], H)
    BY <2>3, AmountSumIs
  <2> QED
    BY <2>1, <2>2, <2>4, TotalEmpty
<1>8. BookCash(c, d) = Total(CashOf, B)
  <2>1. B \subseteq Ids /\ BookCash(c, d) = MapThenSumSet(LAMBDA t : CashAmount(trade[t]), B)
    BY DEF BookCash, Settling, Live
  <2> HIDE DEF B
  <2> QED
    BY <1>3, <2>1, CashSumIs
<1> HIDE DEF S, U, W, O, B
<1>9. Total(Amounts(S), S) = Total(Amounts(settled), S)
  <2>1. \A e \in S : Amounts(S)[e] = e.amount /\ Amounts(settled)[e] = e.amount
    BY <1>1 DEF Amounts
  <2> QED
    BY <1>1, <2>1, TotalSame
<1>10. /\ Total(Amounts(settled), S) = Total(Amounts(settled), W) + Total(Amounts(settled), O)
       /\ Total(Amounts(settled), W) \in Int /\ Total(Amounts(settled), O) \in Int
  <2>1. \A e \in W \cup O : Amounts(settled)[e] \in Int
    BY <1>1 DEF Amounts
  <2>2. Total(Amounts(settled), W \cup O)
          = Total(Amounts(settled), W) + Total(Amounts(settled), O)
    BY <1>1, <2>1, TotalUnion
  <2>3. Total(Amounts(settled), W) \in Int /\ Total(Amounts(settled), O) \in Int
    BY <1>1, <2>1, TotalType
  <2> QED
    BY <1>1, <2>2, <2>3
<1>11. TradeCash(c, d) = Total(Amounts(S), S) + Total(Amounts(U), U) + 0
  BY <1>5, <1>6, <1>7 DEF TradeCash
<1> QED
  BY <1>2, <1>3, <1>8, <1>9, <1>10, <1>11

\* The cash balance as of any day is what the transactions up to that day settle with:
\* every counter-entry takes back its settlement in the same currency and on the same
\* day, and one settlement stands for each transaction in the book.
THEOREM BalanceFollows == Spec => []BalanceIsHistory
<1>1. Init => Finite
  BY FS_EmptySet DEF Init, Finite
<1>2. Spec => []Finite
  BY <1>1, FiniteStep, PTL DEF Spec
<1> QED
  BY <1>2, AlwaysSafe, Balanced, PTL

-----------------------------------------------------------------------------
(* Holdings.  A rebuild replays the history in some order of its days.  Each  *)
(* transaction adds what it is signed with, but a sale of more than there is  *)
(* leaves nothing instead of a debt.                                          *)

USE LedgerAssumption

\* The replay of s, step by step.
Replays(q, s, n) == /\ q \in [0..n -> Int] /\ q[0] = 0
                    /\ \A k \in 1..n : q[k] = Clamp(q[k - 1], s[k].x)

LEMMA ClampType == ASSUME NEW q \in Int, NEW x \in Terms PROVE Clamp(q, x) \in Int
  BY DEF Clamp, Terms

LEMMA ReplayThere ==
    ASSUME NEW n \in Nat, NEW s, DOMAIN s = 1..n, \A j \in 1..n : s[j].x \in Terms
    PROVE  \E q : Replays(q, s, n) /\ q[n] = FoldLeft(LAMBDA a, p : Clamp(a, p.x), 0, s)
<1> DEFINE D == 1..n
           m == [T \in SUBSET D |-> Max(T)]
           F == [T \in SUBSET D |-> [a \in Int |-> Clamp(a, s[m[T]].x)]]
<1>1. Chooses(m, D) /\ \A T \in SUBSET D : T # {} => m[T] = Max(T) /\ Max(T) \in T
                                                     /\ \A y \in T : Max(T) >= y
  <2>1. ASSUME NEW T \in SUBSET D, T # {} PROVE Max(T) \in T /\ \A y \in T : Max(T) >= y
    BY <2>1, LargestThere DEF Max
  <2> QED
    BY <2>1 DEF Chooses
<1>2. \A T \in SUBSET D : T # {} => F[T] \in [Int -> Int]
                                    /\ \A a \in Int : F[T][a] = Clamp(a, s[Max(T)].x)
  <2> SUFFICES ASSUME NEW T \in SUBSET D, T # {}
               PROVE  F[T] \in [Int -> Int] /\ \A a \in Int : F[T][a] = Clamp(a, s[Max(T)].x)
    OBVIOUS
  <2>1. m[T] = Max(T) /\ s[Max(T)].x \in Terms
    BY <1>1
  <2> HIDE DEF m
  <2>2. \A a \in Int : Clamp(a, s[m[T]].x) \in Int
    BY <2>1, ClampType
  <2> QED
    BY <2>1, <2>2
<1>3. IsFiniteSet(D)
  BY FS_Interval
<1> HIDE DEF m, F
<1>4. PICK g \in [SUBSET D -> Int] : IsFold(g, F, m, D)
  BY <1>1, <1>2, <1>3, FoldExists
<1>5. \A h : IsFold(h, F, m, D) => h = g
  BY <1>1, <1>3, <1>4, FoldUnique
<1>6. \A T \in SUBSET D : T # {} => g[T] = Clamp(g[T \ {Max(T)}], s[Max(T)].x)
  <2> SUFFICES ASSUME NEW T \in SUBSET D, T # {}
               PROVE  g[T] = Clamp(g[T \ {Max(T)}], s[Max(T)].x)
    OBVIOUS
  <2>1. g[T] = F[T][g[T \ {m[T]}]]
    BY <1>4 DEF IsFold
  <2>2. m[T] = Max(T) /\ g[T \ {Max(T)}] \in Int
    BY <1>1, <1>4
  <2> QED
    BY <1>2, <2>1, <2>2
<1>7. g[{}] = 0 /\ g = [T \in SUBSET D |-> g[T]]
  BY <1>4 DEF IsFold
<1>8. g = [T \in SUBSET D |-> IF T = {} THEN 0 ELSE Clamp(g[T \ {Max(T)}], s[Max(T)].x)]
  BY <1>6, <1>7
<1>9. ASSUME NEW h,
             h = [T \in SUBSET D |-> IF T = {} THEN 0 ELSE Clamp(h[T \ {Max(T)}], s[Max(T)].x)]
      PROVE  h = g
  <2> SUFFICES IsFold(h, F, m, D)
    BY <1>5
  <2>1. ASSUME NEW T \in SUBSET D PROVE h[T] = g[T]
    <3> DEFINE G == {U \in SUBSET D : h[U] = g[U]}
    <3>1. ASSUME NEW U \in SUBSET T, \A V \in SUBSET U : V # U => V \in G PROVE U \in G
      <4>1. CASE U = {}
        BY <1>7, <1>9, <4>1
      <4>2. CASE U # {}
        <5>1. Max(U) \in U
          BY <1>1, <4>2
        <5>2. U \ {Max(U)} \in G
          BY <3>1, <5>1
        <5> QED
          BY <1>6, <1>9, <4>2, <5>2
      <4> QED
        BY <4>1, <4>2
    <3>2. IsFiniteSet(T)
      BY <1>3, FS_Subset
    <3>3. T \in G
      <4> HIDE DEF G
      <4> QED
        BY <3>1, <3>2, SubsetInduction
    <3> QED
      BY <3>3
  <2>2. h = [T \in SUBSET D |-> h[T]]
    BY <1>9
  <2>3. h = g
    BY <1>7, <2>1, <2>2
  <2> QED
    BY <1>4, <2>3
<1>10. FoldLeft(LAMBDA a, p : Clamp(a, p.x), 0, s) = g[D]
  <2> DEFINE Step(h) == [T \in SUBSET D |-> IF T = {} THEN 0
                                            ELSE Clamp(h[T \ {Max(T)}], s[Max(T)].x)]
  <2>1. FoldLeft(LAMBDA a, p : Clamp(a, p.x), 0, s)
          = (CHOOSE h : h = [T \in SUBSET DOMAIN s |->
                                IF T = {} THEN 0
                                ELSE Clamp(h[T \ {Max(T)}], s[Max(T)].x)])[DOMAIN s]
    BY DEF FoldLeft, MapThenFoldSet
  <2>2. FoldLeft(LAMBDA a, p : Clamp(a, p.x), 0, s) = (CHOOSE h : h = Step(h))[D]
    BY <2>1
  <2>3. g = Step(g) /\ \A h : h = Step(h) => h = g
    BY <1>8, <1>9
  <2> HIDE DEF Step
  <2>4. (CHOOSE h : h = Step(h)) = g
    BY <2>3
  <2> QED
    BY <2>2, <2>4
<1> DEFINE q == [k \in 0..n |-> g[1..k]]
<1>11. \A k \in 0..n : 1..k \in SUBSET D
  OBVIOUS
<1>12. q \in [0..n -> Int]
  BY <1>4, <1>11
<1>13. q[0] = 0 /\ q[n] = g[D]
  <2>1. 1..0 = {}
    OBVIOUS
  <2> QED
    BY <1>7, <2>1
<1>14. ASSUME NEW k \in 1..n PROVE q[k] = Clamp(q[k - 1], s[k].x)
  <2>0. 1..k \in SUBSET D /\ k \in 1..k
    OBVIOUS
  <2>1. 1..k \in SUBSET D /\ k \in 1..k /\ 1..k # {}
    BY <2>0
  <2>2. Max(1..k) = k
    <3>1. Max(1..k) \in 1..k /\ Max(1..k) >= k
      BY <1>1, <2>1
    <3> QED
      BY <3>1
  <2>3. (1..k) \ {k} = 1..(k - 1)
    OBVIOUS
  <2>4. g[1..k] = Clamp(g[1..(k - 1)], s[k].x)
    BY <1>6, <2>1, <2>2, <2>3
  <2> QED
    BY <2>4
<1> HIDE DEF q
<1>15. Replays(q, s, n) /\ q[n] = FoldLeft(LAMBDA a, p : Clamp(a, p.x), 0, s)
  BY <1>10, <1>12, <1>13, <1>14 DEF Replays
<1> QED
  BY <1>15

\* What a transaction adds, over the transactions of H.
Gain(H) == [p \in H |-> Signed(p.x)]

\* The rows of one instrument: numbered, of a type, finitely many.
Numbers(H) == /\ IsFiniteSet(H) /\ \A p \in H : p.x \in Terms /\ p.no \in Ids
              /\ \A p, r \in H : p.no = r.no => p = r

LEMMA SignedType ==
    ASSUME NEW x \in Terms
    PROVE  /\ Signed(x) \in Int
           /\ x.side = "buy" => Signed(x) = x.qty
           /\ x.side = "sell" => Signed(x) = -x.qty
           /\ x.side \notin {"buy", "sell"} => Signed(x) = 0
           /\ x.qty \in Nat \ {0} /\ x.day \in Nat
  BY DEF Signed, Terms

\* What a sale of too much gives up is all that the replay changes.
LEMMA ClampGives ==
    ASSUME NEW x \in Terms, NEW q \in Int, NEW r \in Int, q >= r
    PROVE  /\ Clamp(q, x) >= Signed(x) + r
           /\ q = r => (x.side # "sell" \/ Signed(x) + r >= 0 => Clamp(q, x) = Signed(x) + r)
<1>1. x.side \in {"buy", "sell", "dividend"} /\ x.qty \in Nat
  BY DEF Terms, Sides
<1>2. CASE x.side = "buy"
  BY <1>1, <1>2 DEF Clamp, Signed
<1>3. CASE x.side = "sell"
  BY <1>1, <1>3 DEF Clamp, Signed
<1>4. CASE x.side = "dividend"
  BY <1>1, <1>4 DEF Clamp, Signed
<1> QED
  BY <1>1, <1>2, <1>3, <1>4

LEMMA GainType == ASSUME NEW H, Numbers(H) PROVE \A p \in H : Gain(H)[p] \in Int
                                                   /\ Gain(H)[p] = Signed(p.x)
  BY SignedType DEF Gain, Numbers

LEMMA PositionIs ==
    ASSUME NEW H, Numbers(H), NEW S \in SUBSET H
    PROVE  Position(S) = Total(Gain(H), S)
<1> DEFINE a == Gain(H)
           h == Table(a, S)
<1>1. IsFiniteSet(S) /\ \A p \in S : a[p] \in Int /\ a[p] = Signed(p.x)
  <2>1. IsFiniteSet(S)
    BY FS_Subset DEF Numbers
  <2> QED
    BY <2>1, GainType
<1> HIDE DEF a
<1>2. IsTable(h, a, S) /\ \A g : IsTable(g, a, S) => g = h
  <2>1. IsTable(h, a, S)
    BY <1>1, TableHolds
  <2> QED
    BY <1>1, <2>1, TableUnique
<1>3. \A U \in SUBSET S : U # {} => a[Pick(U)] = Signed(Pick(U).x)
  BY <1>1, PickIn
<1> HIDE DEF h
<1> DEFINE Step(g) == [U \in SUBSET S |-> IF U = {} THEN 0
              ELSE Signed((CHOOSE p \in U : TRUE).x) + g[U \ {CHOOSE p \in U : TRUE}]]
<1>4. h = Step(h)
  BY <1>2, <1>3 DEF IsTable, Pick
<1>5. ASSUME NEW g, g = Step(g) PROVE g = h
  <2>1. ASSUME NEW U \in SUBSET S
        PROVE  g[U] = IF U = {} THEN 0 ELSE a[Pick(U)] + g[U \ {Pick(U)}]
    <3>1. g[U] = IF U = {} THEN 0 ELSE Signed(Pick(U).x) + g[U \ {Pick(U)}]
      BY <1>5 DEF Pick
    <3> QED
      BY <1>3, <3>1
  <2>2. g = [U \in SUBSET S |-> g[U]]
    BY <1>5
  <2>3. IsTable(g, a, S)
    BY <2>1, <2>2 DEF IsTable
  <2> QED
    BY <1>2, <2>3
<1>6. Position(S) = (CHOOSE g : g = Step(g))[S]
  BY DEF Position, MapThenSumSet, MapThenFoldSet
<1> HIDE DEF Step
<1>7. (CHOOSE g : g = Step(g)) = h
  BY <1>4, <1>5
<1> QED
  BY <1>6, <1>7 DEF Total, h, a

\* The first k of s, and what they leave.
First(s, k) == {s[j] : j \in 1..k}
\* An enumeration of H.
Lists(s, n, H) == /\ n \in Nat /\ \A j \in 1..n : s[j] \in H
                  /\ \A j, k \in 1..n : s[j] = s[k] => j = k

LEMMA FirstSum ==
    ASSUME NEW H, Numbers(H), NEW n, NEW s, Lists(s, n, H), NEW k \in 1..n
    PROVE  /\ Total(Gain(H), First(s, k)) = Signed(s[k].x) + Total(Gain(H), First(s, k - 1))
           /\ Total(Gain(H), First(s, k - 1)) \in Int
<1> DEFINE A == First(s, k - 1)
<1>0. n \in Nat /\ k - 1 \in Nat /\ \A j \in 1..(k - 1) : j \in 1..n /\ j # k
  BY DEF Lists
<1>1. First(s, k) = A \cup {s[k]}
  <2>1. \A j \in 1..k : j \in 1..(k - 1) \/ j = k
    BY <1>0
  <2>2. \A j \in 1..(k - 1) : j \in 1..k
    BY <1>0
  <2>3. k \in 1..k
    BY <1>0
  <2> QED
    BY <2>1, <2>2, <2>3 DEF First
<1>2. A \subseteq H /\ s[k] \in H /\ s[k] \notin A
  BY <1>0 DEF First, Lists
<1>3. IsFiniteSet(A)
  BY <1>2, FS_Subset DEF Numbers
<1>4. \A p \in A \cup {s[k]} : Gain(H)[p] \in Int
  BY <1>2, GainType
<1>5. Gain(H)[s[k]] = Signed(s[k].x)
  BY <1>2, GainType
<1> HIDE DEF A
<1>6. Total(Gain(H), A) \in Int
  BY <1>3, <1>4, TotalType
<1>7. Total(Gain(H), A \cup {s[k]}) = Gain(H)[s[k]] + Total(Gain(H), A)
  BY <1>2, <1>3, <1>4, TotalAdd
<1> QED
  BY <1>1, <1>5, <1>6, <1>7 DEF A

LEMMA FirstNone == ASSUME NEW f, NEW s PROVE Total(f, First(s, 0)) = 0
<1>1. First(s, 0) = {}
  <2>1. 1..0 = {}
    OBVIOUS
  <2> QED
    BY <2>1 DEF First
<1> QED
  BY <1>1, TotalEmpty

\* Giving up a debt leaves no less than there is.
LEMMA NeverLess ==
    ASSUME NEW H, Numbers(H), NEW n, NEW s, Lists(s, n, H), NEW q, Replays(q, s, n)
    PROVE  \A k \in 0..n : q[k] >= Total(Gain(H), First(s, k))
<1> DEFINE P(k) == Total(Gain(H), First(s, k))
           G == {k \in 0..n : P(k) \in Int /\ q[k] >= P(k)}
<1>0. n \in Nat
  BY DEF Lists
<1>1. 0 \in G
  BY <1>0, FirstNone DEF Replays
<1>2. ASSUME NEW k \in 1..n, k - 1 \in G PROVE k \in G
  <2>1. P(k) = Signed(s[k].x) + P(k - 1) /\ P(k - 1) \in Int
    BY <1>0, FirstSum
  <2>2. k \in 0..n /\ k - 1 \in 0..n /\ s[k] \in H
    BY <1>0 DEF Lists
  <2>3. s[k].x \in Terms
    BY <2>2 DEF Numbers
  <2>4. q[k] = Clamp(q[k - 1], s[k].x) /\ q[k - 1] \in Int /\ q[k - 1] >= P(k - 1)
    BY <1>2, <2>2 DEF Replays
  <2> HIDE DEF P
  <2>5. \A a, r \in Int : a >= r => Clamp(a, s[k].x) >= Signed(s[k].x) + r
    BY <2>3, ClampGives
  <2>6. Signed(s[k].x) \in Int
    BY <2>3, SignedType
  <2>7. q[k] >= Signed(s[k].x) + P(k - 1)
    BY <2>1, <2>4, <2>5
  <2> QED
    BY <2>1, <2>2, <2>6, <2>7
<1> HIDE DEF G
<1>3. \A k \in 0..n : k \in G
  BY <1>0, <1>1, <1>2, UpToInduction
<1> QED
  BY <1>3 DEF G

\* The transactions of some day are not both purchases and sales.
Unmixed(H) == \A p, r \in H : p.x.day = r.x.day /\ p.x.side = "buy" => r.x.side # "sell"
Reaches(s, n, H) == \A p \in H : \E j \in 1..n : s[j] = p
ByDay(s, n) == \A j, k \in 1..n : j < k => s[j].x.day <= s[k].x.day

\* The last sale of the day by number is covered, and so is, in any order of the day,
\* each of its sales: nothing is bought that day.
LEMMA SoldIsThere ==
    ASSUME NEW H, Numbers(H), NeverNegative(H), Unmixed(H),
           NEW n, NEW s, Lists(s, n, H), ByDay(s, n), Reaches(s, n, H),
           NEW k \in 1..n, s[k].x.side = "sell"
    PROVE  Total(Gain(H), First(s, k)) >= 0
<1> DEFINE d == s[k].x.day
           Sales == {p \in H : p.x.day = d /\ p.x.side = "sell"}
           N == {p.no : p \in Sales}
<1>0. n \in Nat /\ s[k] \in H /\ s[k] \in Sales
  BY DEF Lists
<1>1. PICK L \in Sales : \A p \in Sales : p.no <= L.no
  <2>1. N \in SUBSET (1..MaxTrades) /\ N # {}
    BY <1>0 DEF Numbers
  <2>2. PICK z \in N : \A y \in N : z >= y
    BY <2>1, LargestThere
  <2>3. PICK p \in Sales : p.no = z
    BY <2>2
  <2>4. \A r \in Sales : r.no \in N
    OBVIOUS
  <2> QED
    BY <2>2, <2>3, <2>4
<1> HIDE DEF N
<1> DEFINE U == UpTo(H, L)
           F == First(s, k)
           f == Gain(H)
<1>2. \A p \in H : p.x \in Terms /\ p.x.day \in Nat /\ p.no \in Nat
  BY DEF Numbers, Terms
<1>3. \A p \in H : p.x.day = d => p.x.side # "buy"
  BY <1>0 DEF Unmixed
<1>4. \A p \in H : p.x.day = d => f[p] <= 0 /\ (p.x.side # "sell" => f[p] = 0)
  <2> SUFFICES ASSUME NEW p \in H, p.x.day = d PROVE f[p] <= 0 /\ (p.x.side # "sell" => f[p] = 0)
    OBVIOUS
  <2>1. f[p] = Signed(p.x) /\ p.x.side # "buy" /\ p.x \in Terms
    BY <1>2, <1>3, GainType
  <2>2. Signed(p.x) <= 0 /\ (p.x.side # "sell" => Signed(p.x) = 0)
    <3>1. p.x.side \in {"sell", "dividend"} /\ p.x.qty \in Nat
      BY <2>1 DEF Terms, Sides
    <3> QED
      BY <3>1 DEF Signed
  <2> QED
    BY <2>1, <2>2
<1>5. F \subseteq H /\ U \subseteq H /\ L \in H /\ L.x.day = d /\ L.x.side = "sell"
  BY <1>0 DEF First, Lists, UpTo
<1>6. \A p \in F \ U : f[p] = 0
  <2> SUFFICES ASSUME NEW p \in F, p \notin U PROVE f[p] = 0
    OBVIOUS
  <2>1. PICK j \in 1..k : p = s[j]
    BY DEF First
  <2>2. p.x.day <= d
    BY <1>0, <1>2, <1>5, <2>1 DEF ByDay
  <2>3. p # L /\ ~Earlier(p, L)
    BY <1>5 DEF UpTo
  <2>4. p.x.day = d /\ ~(p.no < L.no)
    BY <1>2, <1>5, <2>2, <2>3 DEF Earlier
  <2>5. p.x.side # "sell"
    <3>1. ASSUME p.x.side = "sell" PROVE FALSE
      <4>1. p.no <= L.no
        BY <1>1, <1>5, <2>4, <3>1
      <4>2. p.no = L.no
        BY <1>2, <1>5, <2>4, <4>1
      <4> QED
        BY <1>5, <2>3, <4>2 DEF Numbers
    <3> QED
      BY <3>1
  <2> QED
    BY <1>4, <1>5, <2>4, <2>5
<1>7. \A p \in U \ F : f[p] <= 0
  <2> SUFFICES ASSUME NEW p \in U, p \notin F PROVE f[p] <= 0
    OBVIOUS
  <2>1. PICK j \in 1..n : s[j] = p
    BY <1>5 DEF Reaches
  <2>2. ~(j <= k)
    BY <1>0, <2>1 DEF First
  <2>3. d <= p.x.day
    BY <1>0, <2>1, <2>2 DEF ByDay
  <2>4. p = L \/ Earlier(p, L)
    BY DEF UpTo
  <2>5. p.x.day <= d
    BY <1>2, <1>5, <2>4 DEF Earlier
  <2>6. p.x.day = d
    BY <1>2, <1>5, <2>3, <2>5
  <2> QED
    BY <1>4, <1>5, <2>6
<1> DEFINE B == F \cap U
           C == U \ F
<1>8. /\ IsFiniteSet(F) /\ IsFiniteSet(C) /\ IsFiniteSet(B)
      /\ \A p \in H : f[p] \in Int
  BY <1>5, FS_Subset, GainType DEF Numbers
<1>9. Total(f, U) >= 0
  <2>1. Position(U) >= 0
    BY <1>5 DEF NeverNegative
  <2> QED
    BY <1>5, <2>1, PositionIs
<1> HIDE DEF f, F, U
<1>10. Total(f, F) = Total(f, B)
  <2>1. \A p \in F \ B : f[p] = 0
    BY <1>6
  <2> QED
    BY <1>5, <1>8, <2>1, TotalSupport
<1>11. Total(f, U) = Total(f, B) + Total(f, C)
  <2>1. B \cup C = U /\ B \cap C = {} /\ \A p \in B \cup C : f[p] \in Int
    BY <1>5, <1>8
  <2> HIDE DEF B, C
  <2> QED
    BY <1>8, <2>1, TotalUnion
<1>12. Total(f, C) <= 0 /\ Total(f, C) \in Int
  <2> DEFINE z == [p \in C |-> 0]
  <2>1. \A p \in C : z[p] = 0 /\ f[p] \in Int /\ f[p] <= 0
    BY <1>5, <1>7, <1>8
  <2> HIDE DEF z, C
  <2>2. Total(z, C) = 0
    <3>1. {} \in SUBSET C /\ \A p \in C \ {} : z[p] = 0
      BY <2>1
    <3>2. \A p \in C : z[p] \in Int
      BY <2>1
    <3>3. Total(z, C) = Total(z, {})
      BY <1>8, <3>1, <3>2, TotalSupport
    <3> QED
      BY <3>3, TotalEmpty
  <2>3. Total(f, C) <= Total(z, C)
    <3>1. \A p \in C : z[p] \in Int /\ f[p] \in Int /\ f[p] <= z[p]
      BY <2>1
    <3> QED
      BY <1>8, <3>1, TotalMonotone
  <2>4. Total(f, C) \in Int
    BY <1>8, <2>1, TotalType
  <2> QED
    BY <2>2, <2>3, <2>4
<1>13. Total(f, B) \in Int
  <2>1. \A p \in B : f[p] \in Int
    BY <1>5, <1>8
  <2> QED
    BY <1>8, <2>1, TotalType
<1>14. Total(f, F) >= 0
  BY <1>9, <1>10, <1>11, <1>12, <1>13
<1> QED
  BY <1>14 DEF f, F

\* ... so that nothing is given up.
LEMMA NothingGiven ==
    ASSUME NEW H, Numbers(H), NeverNegative(H), Unmixed(H),
           NEW n, NEW s, Lists(s, n, H), ByDay(s, n), Reaches(s, n, H),
           NEW q, Replays(q, s, n)
    PROVE  \A k \in 0..n : q[k] = Total(Gain(H), First(s, k))
<1> DEFINE P(k) == Total(Gain(H), First(s, k))
           G == {k \in 0..n : P(k) \in Int /\ q[k] = P(k)}
<1>0. n \in Nat
  BY DEF Lists
<1>1. 0 \in G
  BY <1>0, FirstNone DEF Replays
<1>2. ASSUME NEW k \in 1..n, k - 1 \in G PROVE k \in G
  <2>1. P(k) = Signed(s[k].x) + P(k - 1) /\ P(k - 1) \in Int
    BY <1>0, FirstSum
  <2>2. k \in 0..n /\ k - 1 \in 0..n /\ s[k] \in H
    BY <1>0 DEF Lists
  <2>3. s[k].x \in Terms
    BY <2>2 DEF Numbers
  <2>4. q[k] = Clamp(q[k - 1], s[k].x) /\ q[k - 1] = P(k - 1)
    BY <1>2, <2>2 DEF Replays
  <2>5. s[k].x.side = "sell" => P(k) >= 0
    BY SoldIsThere
  <2> HIDE DEF P
  <2>6. \A r \in Int : s[k].x.side # "sell" \/ Signed(s[k].x) + r >= 0
                       => Clamp(r, s[k].x) = Signed(s[k].x) + r
    <3>1. \A r \in Int : r >= r
      OBVIOUS
    <3> QED
      BY <2>3, <3>1, ClampGives
  <2>7. Signed(s[k].x) \in Int
    BY <2>3, SignedType
  <2>8. q[k] = P(k)
    BY <2>1, <2>4, <2>5, <2>6
  <2> QED
    BY <2>1, <2>2, <2>7, <2>8
<1> HIDE DEF G
<1>3. \A k \in 0..n : k \in G
  BY <1>0, <1>1, <1>2, UpToInduction
<1> QED
  BY <1>3 DEF G

\* What a rebuild may store: the position, or more.
LEMMA RebuiltIs ==
    ASSUME NEW book \in [Ids -> Terms \cup {NoTrade}], NEW i, NEW v \in Rebuilt(book, i)
    PROVE  /\ v \in Int /\ Position(History(book, i)) \in Int
           /\ v >= Position(History(book, i))
           /\ Covered(book, i) /\ Unmixed(History(book, i)) => v = Position(History(book, i))
<1> DEFINE H == History(book, i)
           n == Cardinality(H)
<1>1. Numbers(H)
  <2> DEFINE m == [t \in Ids |-> [no |-> t, x |-> book[t]]]
  <2>1. IsFiniteSet(Of(book, i)) /\ Of(book, i) \subseteq Ids
    <3>1. IsFiniteSet(Ids)
      BY FS_Interval
    <3> QED
      BY <3>1, FS_Subset DEF Of, Live
  <2>2. H = Image(m, Of(book, i))
    BY <2>1 DEF History, Image
  <2>3. IsFiniteSet(H)
    BY <2>1, <2>2, ImageFinite
  <2>4. \A p \in H : p.no \in Ids /\ p.x \in Terms /\ p.x = book[p.no]
                     /\ p = [no |-> p.no, x |-> p.x]
    <3>1. \A t \in Of(book, i) : t \in Ids /\ book[t] \in Terms
      BY DEF Of, Live
    <3> QED
      BY <3>1 DEF History
  <2>5. \A p, r \in H : p.no = r.no => p = r
    BY <2>4
  <2> QED
    BY <2>3, <2>4, <2>5 DEF Numbers
<1>2. n \in Nat
  BY <1>1, FS_CardinalityType DEF Numbers
<1>3. PICK s \in [1..n -> H] :
          /\ \A j, k \in 1..n : j # k => s[j] # s[k]
          /\ \A j, k \in 1..Len(s) : j < k => s[j].x.day <= s[k].x.day
          /\ v = FoldLeft(LAMBDA q, p : Clamp(q, p.x), 0, s)
  BY DEF Rebuilt, SetToSeqs
<1> HIDE DEF H
<1>4. Lists(s, n, H) /\ DOMAIN s = 1..n /\ \A j \in 1..n : s[j].x \in Terms
  BY <1>1, <1>2, <1>3 DEF Lists, Numbers
<1>5. ByDay(s, n)
  <2>1. Len(s) = n
    BY <1>2
  <2> QED
    BY <1>3, <2>1 DEF ByDay
<1>6. Reaches(s, n, H)
  <2>1. s \in Injection(1..n, H)
    BY <1>3 DEF Injection, IsInjective
  <2>2. Cardinality(1..n) = n
    BY <1>2, FS_Interval
  <2>3. s \in Surjection(1..n, H)
    BY <1>1, <2>1, <2>2, FS_Injection DEF Numbers
  <2> QED
    BY <2>3 DEF Surjection, Reaches
<1>7. PICK q : Replays(q, s, n) /\ q[n] = FoldLeft(LAMBDA a, p : Clamp(a, p.x), 0, s)
  BY <1>2, <1>4, ReplayThere
<1>8. First(s, n) = H
  BY <1>4, <1>6 DEF First, Lists, Reaches
<1>9. Position(H) = Total(Gain(H), H) /\ Total(Gain(H), H) \in Int
  BY <1>1, PositionIs, GainType, TotalType DEF Numbers
<1>10. n \in 0..n
  BY <1>2
<1>11. v = q[n] /\ q[n] \in Int
  BY <1>3, <1>7, <1>10 DEF Replays
<1> HIDE DEF n
<1>12. q[n] >= Position(H)
  <2>1. \A k \in 0..n : q[k] >= Total(Gain(H), First(s, k))
    BY <1>1, <1>4, <1>7, NeverLess
  <2>2. q[n] >= Total(Gain(H), First(s, n))
    BY <1>10, <2>1
  <2> QED
    BY <1>8, <1>9, <2>2
<1>13. ASSUME NeverNegative(H), Unmixed(H) PROVE q[n] = Position(H)
  <2>1. \A k \in 0..n : q[k] = Total(Gain(H), First(s, k))
    <3>1. Replays(q, s, n) /\ Lists(s, n, H) /\ NeverNegative(H) /\ Unmixed(H)
      BY <1>4, <1>7, <1>13
    <3> QED
      BY <1>1, <1>5, <1>6, <3>1, NothingGiven
  <2>2. q[n] = Total(Gain(H), First(s, n))
    BY <1>10, <2>1
  <2> QED
    BY <1>8, <1>9, <2>2
<1> QED
  BY <1>9, <1>11, <1>12, <1>13 DEF H, Covered

\* Each holding is one that a rebuild of the present history may give.
Stored == \A i \in Instruments : holding[i] \in Rebuilt(trade, i)

LEMMA EmptyRebuilt ==
    ASSUME NEW book, NEW i, Of(book, i) = {}
    PROVE  0 \in Rebuilt(book, i)
<1> DEFINE s == [j \in 1..0 |-> j]
<1>1. History(book, i) = {} /\ Cardinality({}) = 0 /\ 1..0 = {}
  <2>1. History(book, i) = {}
    BY DEF History
  <2>2. 1..0 = {}
    OBVIOUS
  <2> QED
    BY <2>1, <2>2, FS_EmptySet
<1>2. s \in [1..0 -> {}] /\ Len(s) = 0 /\ DOMAIN s = 1..0
  BY <1>1
<1> HIDE DEF s
<1>3. s \in SetToSeqs({}) /\ \A m, n \in 1..Len(s) : m < n => s[m].x.day <= s[n].x.day
  BY <1>1, <1>2 DEF SetToSeqs
<1>4. FoldLeft(LAMBDA q, p : Clamp(q, p.x), 0, s) = 0
  <2>1. PICK n \in Nat : n = 0
    OBVIOUS
  <2>2. DOMAIN s = 1..n /\ \A j \in 1..n : s[j].x \in Terms
    BY <1>1, <1>2, <2>1
  <2>3. PICK q : Replays(q, s, n) /\ q[n] = FoldLeft(LAMBDA a, p : Clamp(a, p.x), 0, s)
    BY <2>2, ReplayThere
  <2> QED
    BY <2>1, <2>3 DEF Replays
<1> QED
  BY <1>1, <1>3, <1>4 DEF Rebuilt

LEMMA SameRebuilt ==
    ASSUME NEW b, NEW c, NEW i,
           \A t \in Ids : b[t] = c[t] \/ (Elsewhere(b[t], i) /\ Elsewhere(c[t], i))
    PROVE  Rebuilt(b, i) = Rebuilt(c, i)
<1>1. Of(b, i) = Of(c, i)
  BY DEF Of, Live, Elsewhere
<1>2. \A t \in Of(b, i) : b[t] = c[t]
  BY DEF Of, Live, Elsewhere
<1>3. History(b, i) = History(c, i)
  BY <1>1, <1>2 DEF History
<1> QED
  BY <1>3 DEF Rebuilt

\* A rebuild of all the instruments that a step touches.
LEMMA RebuildStored ==
    ASSUME Stored, NEW I, Rebuild(I, trade'),
           \A i \in Instruments \ I : \A t \in Ids :
               trade'[t] = trade[t] \/ (Elsewhere(trade'[t], i) /\ Elsewhere(trade[t], i))
    PROVE  Stored'
<1>1. ASSUME NEW i \in Instruments PROVE holding'[i] \in Rebuilt(trade', i)
  <2>1. IF i \in I THEN holding'[i] \in Rebuilt(trade', i) ELSE holding'[i] = holding[i]
    BY DEF Rebuild
  <2>2. CASE i \in I
    BY <2>1, <2>2
  <2>3. CASE i \notin I
    <3>1. Rebuilt(trade', i) = Rebuilt(trade, i)
      BY <2>3, SameRebuilt
    <3> QED
      BY <2>1, <2>3, <3>1 DEF Stored
  <2> QED
    BY <2>2, <2>3
<1> QED
  BY <1>1 DEF Stored

LEMMA InitStored == Init => Stored
<1> SUFFICES ASSUME Init, NEW i \in Instruments PROVE holding[i] \in Rebuilt(trade, i)
  BY DEF Stored
<1>1. holding[i] = 0 /\ Of(trade, i) = {}
  BY DEF Init, Of, Live
<1> QED
  BY <1>1, EmptyRebuilt

LEMMA StepStored == Safe /\ Stored /\ [Next]_vars => Stored'
<1> SUFFICES ASSUME Safe, Stored, [Next]_vars PROVE Stored'
  OBVIOUS
<1>0. trade \in [Ids -> Terms \cup {NoTrade}] /\ made \in Nat
  BY DEF Safe, TypeOK
<1>1. ASSUME NEW x \in Inputs, Add(x) PROVE Stored'
  <2>1. PICK t \in Ids : /\ made + 1 = t /\ trade' = [trade EXCEPT ![t] = x]
                         /\ Rebuild({x.inst}, trade')
    BY <1>1 DEF Add
  <2>2. trade[t] = NoTrade
    BY <1>0, <2>1 DEF Safe, Fresh, Bare
  <2>3. ASSUME NEW i \in Instruments \ {x.inst}, NEW u \in Ids
        PROVE  trade'[u] = trade[u] \/ (Elsewhere(trade'[u], i) /\ Elsewhere(trade[u], i))
    BY <1>0, <2>1, <2>2 DEF Elsewhere
  <2> QED
    BY <2>1, <2>3, RebuildStored
<1>2. ASSUME NEW x \in Inputs, NEW t \in Ids, NEW replace \in BOOLEAN, Update(t, x, replace)
      PROVE  Stored'
  <2>1. trade' = [trade EXCEPT ![t] = x] /\ Rebuild(Touched(t, x), trade')
    BY <1>2 DEF Update
  <2>2. ASSUME NEW i \in Instruments \ Touched(t, x), NEW u \in Ids
        PROVE  trade'[u] = trade[u] \/ (Elsewhere(trade'[u], i) /\ Elsewhere(trade[u], i))
    BY <1>0, <2>1 DEF Elsewhere, Touched
  <2> QED
    BY <2>1, <2>2, RebuildStored
<1>3. ASSUME NEW S \in SUBSET Ids, RemoveTrades(S) PROVE Stored'
  <2> DEFINE I == {trade[t].inst : t \in S}
  <2>1. /\ trade' = [t \in Ids |-> IF t \in S THEN NoTrade ELSE trade[t]]
        /\ Rebuild(I, trade')
    BY <1>3 DEF RemoveTrades
  <2>2. ASSUME NEW i \in Instruments \ I, NEW u \in Ids
        PROVE  trade'[u] = trade[u] \/ (Elsewhere(trade'[u], i) /\ Elsewhere(trade[u], i))
    BY <2>1 DEF Elsewhere
  <2> HIDE DEF I
  <2> QED
    BY <2>1, <2>2, RebuildStored
<1>4. ASSUME NEW f \in Files, Import(f) PROVE Stored'
  <2> DEFINE new == (made + 1)..(made + Len(Rows[f]))
             I == {trade'[t].inst : t \in new}
  <2>1. /\ trade' = [t \in Ids |-> IF t \in new THEN Rows[f][t - made] ELSE trade[t]]
        /\ Rebuild(I, trade')
    BY <1>4 DEF Import
  <2>2. \A t \in Ids : t \in new => trade[t] = NoTrade
    <3>1. \A t \in new : t > made
      BY <1>0
    <3> QED
      BY <3>1 DEF Safe, Fresh, Bare
  <2>3. ASSUME NEW i \in Instruments \ I, NEW u \in Ids
        PROVE  trade'[u] = trade[u] \/ (Elsewhere(trade'[u], i) /\ Elsewhere(trade[u], i))
    <3> HIDE DEF new
    <3> QED
      BY <2>1, <2>2 DEF Elsewhere
  <2> HIDE DEF I
  <2> QED
    BY <2>1, <2>3, RebuildStored
<1>5. ASSUME UNCHANGED bookVars PROVE Stored'
  <2>1. trade' = trade /\ holding' = holding
    BY <1>5 DEF bookVars
  <2> QED
    BY <2>1 DEF Stored
<1>6. ASSUME NEW t \in Ids, Delete(t) PROVE Stored'
  BY <1>3, <1>6 DEF Delete
<1>7. ASSUME NEW f \in Files, Rollback(f) PROVE Stored'
  <2>1. Linked(f) \in SUBSET Ids /\ RemoveTrades(Linked(f))
    BY <1>7 DEF Linked, Rollback
  <2> QED
    BY <1>3, <2>1
<1>8. ASSUME NEW r \in Requests, ByHand(r) PROVE Stored'
  <2>1. UNCHANGED bookVars
    BY <1>8 DEF ByHand, DepositChecks, DepositInserts, ReverseChecks, ReverseInserts
  <2> QED
    BY <1>5, <2>1
<1>9. ASSUME UNCHANGED vars PROVE Stored'
  BY <1>5, <1>9 DEF vars
<1> QED
  BY <1>1, <1>2, <1>4, <1>6, <1>7, <1>8, <1>9 DEF Next, Trading, Filing, AddByHand, Fill

LEMMA StoredFollows == Safe /\ Stored => HoldingIsHistory
<1> SUFFICES ASSUME Safe, Stored, NEW i \in Instruments, Covered(trade, i)
             PROVE  LET position == Position(History(trade, i))
                    IN  holding[i] = position \/ (Mixed(i) /\ holding[i] > position)
  BY DEF HoldingIsHistory
<1>1. trade \in [Ids -> Terms \cup {NoTrade}] /\ holding[i] \in Rebuilt(trade, i)
  BY DEF Safe, TypeOK, Stored
<1>2. /\ holding[i] \in Int /\ Position(History(trade, i)) \in Int
      /\ holding[i] >= Position(History(trade, i))
      /\ Unmixed(History(trade, i)) => holding[i] = Position(History(trade, i))
  <2> HIDE DEF Covered
  <2> QED
    BY <1>1, RebuiltIs
<1>3. ~Mixed(i) => Unmixed(History(trade, i))
  <2>1. \A p \in History(trade, i) : \E t \in Of(trade, i) : p.x = trade[t]
    BY DEF History
  <2>2. \A t \in Of(trade, i) : trade[t].side = "buy" => trade[t].side # "sell"
    OBVIOUS
  <2> QED
    BY <2>1, <2>2 DEF Mixed, Unmixed
<1> QED
  BY <1>2, <1>3

\* A holding is what the transactions of its instrument leave, whatever was added, changed,
\* deleted, imported and undone before: it is rebuilt with every instrument a step touches.
\* It may only be more, and only where some day has both a purchase and a sale.
THEOREM HoldingFollows == Spec => []HoldingIsHistory
<1>1. Safe /\ Safe' /\ Stored /\ [Next]_vars => Stored'
  BY StepStored
<1>2. Spec => []Stored
  BY <1>1, InitStored, AlwaysSafe, PTL DEF Spec
<1> QED
  BY <1>2, AlwaysSafe, StoredFollows, PTL

=============================================================================
