------------------------------ MODULE MCTradingRun ------------------------------
(* No winner, one, two, or two for a ticker that is configured twice; two  *)
(* days, of which each may or may not reach the square-off window.         *)
EXTENDS TradingRun

CONSTANTS s1, s2, x1

MCSymbols     == {s1, s2}
MCStrategies  == {x1}
MCWinnerLists == {<<>>, <<<<s1, x1>>>>, <<<<s1, x1>>, <<s2, x1>>>>, <<<<s1, x1>>, <<s1, x1>>>>}
MCAllocations == {}
MCCloses      == {3, 8}
MCQuantities  == {1, 2}
===============================================================================
