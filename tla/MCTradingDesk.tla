----------------------------- MODULE MCTradingDesk -----------------------------
(* Two containers on one symbol, with the same strategy or with another;   *)
(* prices that gap by more than the margin, and a loss limit that one bad  *)
(* trade reaches.                                                          *)
EXTENDS TradingDesk

MCAllocations == {0, 12}
MCCloses      == {3, 8}
MCQuantities  == {1, 2}
===============================================================================
