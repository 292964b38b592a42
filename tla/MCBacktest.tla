------------------------------- MODULE MCBacktest -------------------------------
(* Seven bars over three days, with closes that stop out, dip, rise and    *)
(* reach the target; the capital is short enough for a refused order.      *)
EXTENDS Backtest

Flat(price) == [high |-> price, low |-> price, close |-> price, volume |-> 1]

MCShapes == {Flat(90), Flat(97), Flat(100), Flat(120)}
===============================================================================
