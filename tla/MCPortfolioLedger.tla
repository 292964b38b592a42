--------------------------- MODULE MCPortfolioLedger ---------------------------
(* Three containers on a borrow that can fund some of them but not all.    *)
EXTENDS PortfolioLedger

MCAmounts == {0, 1, 2}
MCValues  == {-1, 0, 3}
MCResults == -4..4
===============================================================================
