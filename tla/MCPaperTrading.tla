---------------------------- MODULE MCPaperTrading ----------------------------
(***************************************************************************)
(* PaperTrading with the orders, quotes and amounts of its run.            *)
(***************************************************************************)
EXTENDS PaperTrading

MCOrder(s, k, f, q, p) == [side |-> s, kind |-> k, tif |-> f, qty |-> q, price |-> p]
\* A market order to buy by the day, and a limit order to sell until cancelled.
MCTerms == {MCOrder("buy", "market", "day", 2, 2), MCOrder("sell", "limit", "gtc", 1, 2)}
MCQuotes == {[ts |-> 1, price |-> 2, size |-> 1]}
MCAmounts == {-5}
=============================================================================
