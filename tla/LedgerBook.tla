------------------------------ MODULE LedgerBook ------------------------------
(***************************************************************************)
(* What the portfolio ledger promises: a book of transactions in which     *)
(* each has at most one settlement in cash, always that of its present     *)
(* terms.  An import enters a whole file, a file at most once, and is      *)
(* undone as a whole.  Only an import may leave a sale uncovered.          *)
(***************************************************************************)
CONSTANTS
    Ids, Terms, NoTrade, Files, NoFile,
    Settlement(_),  \* the set of entries that settles terms: one or none
    Covered(_, _)   \* in this book no sale in this instrument is short

VARIABLES
    book,      \* the terms of each transaction
    cash,      \* its settlement, if any
    source,    \* the file it was imported from
    imported,  \* the files that are in the book
    kept       \* transactions that may not be touched

vars == <<book, cash, source, imported, kept>>

Settled(b) == [t \in Ids |-> IF b[t] = NoTrade THEN {} ELSE Settlement(b[t])]

Init ==
    /\ book = [t \in Ids |-> NoTrade] /\ cash = Settled(book)
    /\ source = [t \in Ids |-> NoFile] /\ imported = {} /\ kept = {}

\* S is all that changes in the book.
Only(S) == \A t \in Ids \ S : book'[t] = book[t] /\ source'[t] = source[t]

Enter(t) ==
    /\ book[t] = NoTrade /\ book'[t] \in Terms /\ source'[t] = NoFile /\ Only({t})
    /\ Covered(book', book'[t].inst)
    /\ kept' \in {kept, kept \cup {t}} /\ UNCHANGED imported
Change(t) ==
    /\ book[t] # NoTrade /\ t \notin kept
    /\ book'[t] \in Terms /\ source'[t] = source[t] /\ Only({t})
    /\ Covered(book', book'[t].inst) /\ Covered(book', book[t].inst)
    /\ UNCHANGED <<imported, kept>>
Strike(t) ==
    /\ book[t] # NoTrade /\ t \notin kept
    /\ book'[t] = NoTrade /\ source'[t] = NoFile /\ Only({t})
    /\ Covered(book', book[t].inst)
    /\ UNCHANGED <<imported, kept>>
Import(f) ==
    LET S == {t \in Ids : source'[t] = f}
    IN /\ f \notin imported /\ imported' = imported \cup {f}
       /\ \A t \in S : book[t] = NoTrade /\ book'[t] \in Terms
       /\ Only(S) /\ UNCHANGED kept
Undo(f) ==
    LET S == {t \in Ids : source[t] = f}
    IN /\ f \in imported /\ imported' = imported \ {f}
       /\ S \cap kept = {}
       /\ \A t \in S : book'[t] = NoTrade /\ source'[t] = NoFile
                       /\ Covered(book', book[t].inst)
       /\ Only(S) /\ UNCHANGED kept

\* Whatever happens to the book, the cash follows.
Next ==
    /\ \/ \E t \in Ids : Enter(t) \/ Change(t) \/ Strike(t)
       \/ \E f \in Files : Import(f) \/ Undo(f)
    /\ cash' = Settled(book')
    /\ book' \in [Ids -> Terms \cup {NoTrade}] /\ source' \in [Ids -> Files \cup {NoFile}]

Spec == Init /\ [][Next]_vars
=============================================================================
