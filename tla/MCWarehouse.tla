----------------------------- MODULE MCWarehouse -----------------------------
(* Two contracts of one symbol: a US one and one abroad, on two exchanges.  *)
EXTENDS Warehouse

CONSTANTS ibm, nyse, lse

MCMarket == [n \in 1 .. 2 |-> IF n = 1 THEN [exchange |-> nyse, us |-> TRUE]
                                      ELSE [exchange |-> lse, us |-> FALSE]]
MCConids == 1 .. 2
MCKeys == 1 .. 2

\* A row on the US exchange (stale for the second contract), one without an
\* exchange and one that was switched off.
MCOldRows ==
  {[symbol |-> ibm, exchange |-> nyse, active |-> TRUE, by |-> NoOne],
   [symbol |-> ibm, exchange |-> NoExchange, active |-> TRUE, by |-> NoOne],
   [symbol |-> ibm, exchange |-> lse, active |-> FALSE, by |-> NoOne]}

=============================================================================
