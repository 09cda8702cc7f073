--------------------------- MODULE MCPortfolioLedger ---------------------------
(* PortfolioLedger with the transactions and files of the runs. *)
EXTENDS PortfolioLedger, TLC

Trade(i, s, q, p, d) == [inst |-> i, side |-> s, qty |-> q, price |-> p, day |-> d]
MCIds == 1..MaxTrades
MCInstruments == {"2330", "AAPL"}
MCCurrency == [i \in MCInstruments |-> IF i = "2330" THEN "TWD" ELSE "USD"]
MCCurrencies == {"TWD", "USD"}
\* A purchase, a sale of the next day for nothing, a purchase in the other
\* market.
MCInputs == {Trade("2330", "buy", 2, 1, 1), Trade("2330", "sell", 1, 0, 2),
             Trade("AAPL", "buy", 1, 1, 2)}
MCDeposits == {[cur |-> "TWD", amount |-> 1]}
Symmetry == Permutations(Requests)
\* A sale before others, and a sale with a dividend.
MCRows == [f \in Files |->
    IF f = CHOOSE g \in Files : TRUE THEN <<Trade("2330", "sell", 2, 1, 1)>>
    ELSE <<Trade("2330", "sell", 1, 1, 1), Trade("AAPL", "dividend", 1, 1, 2)>>]
=============================================================================
