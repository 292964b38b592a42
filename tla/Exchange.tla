-------------------------------- MODULE Exchange --------------------------------
(***************************************************************************)
(* What an order costs and what it does to the books, as operators: the    *)
(* fees of CostCalculator, the fill of SimulatedExchange::submit, and how  *)
(* a container and the ledger account for it.  Money and prices are in     *)
(* paise, and every division truncates as the code's does: all dividends   *)
(* here are at least zero.                                                 *)
(***************************************************************************)
EXTENDS Integers

CONSTANTS Leverage,       \* mis_leverage_
          Slippage,       \* slippage_
          StampRate,      \* stamp_buy_millionths
          SebiRate,       \* sebi_millionths
          SttRate,        \* stt_sell_millionths
          Brokerage,      \* brokerage
          GstPercent      \* gst_brokerage_percent

ASSUME ExchangeAssumption ==
  /\ Leverage \in Nat \ {0}
  /\ Slippage \in Nat
  /\ StampRate \in Nat /\ SebiRate \in Nat /\ SttRate \in Nat
  /\ Brokerage \in Nat /\ GstPercent \in Nat

Sides == {"Buy", "Sell"}

Larger(a, b) == IF a >= b THEN a ELSE b

-------------------------------------------------------------------------------
Millionths(amount, rate) ==
  IF amount <= 0 \/ rate <= 0 THEN 0 ELSE (amount * rate + 500000) \div 1000000

FlatFee == Brokerage + (Brokerage * GstPercent + 50) \div 100

BuyFees(price, qty)  == Millionths(price * qty, StampRate) + Millionths(price * qty, SebiRate) + FlatFee
SellFees(price, qty) == Millionths(price * qty, SttRate) + Millionths(price * qty, SebiRate) + FlatFee

-------------------------------------------------------------------------------
(* submit: a buy needs its margin and fees in cash, a sell the shares.     *)

FillPrice(side, close) == IF side = "Buy" THEN close + Slippage ELSE Larger(0, close - Slippage)

Margin(price, qty) == (price * qty) \div Leverage

\* A plausible bug: any position will do for a sell of any size.
SubmitOkShort(side, qty, close, cash, pos) ==
  LET price == FillPrice(side, close)
  IN  /\ qty > 0
      /\ side = "Sell" => pos > 0
      /\ side = "Buy" => cash >= Margin(price, qty) + BuyFees(price, qty)

SubmitOk(side, qty, close, cash, pos) ==
  LET price == FillPrice(side, close)
  IN  /\ qty > 0
      /\ side = "Sell" => pos > 0 /\ qty <= pos
      /\ side = "Buy" => cash >= Margin(price, qty) + BuyFees(price, qty)

\* A plausible bug: the margin is released at the price of the exit.
SaleReleasesExit(price, qty, fees, avg) ==
  LET entry == IF avg > 0 THEN avg ELSE price
  IN  Margin(price, qty) + (price * qty - entry * qty - fees)

\* A sell releases the margin of its entry and settles the difference.
SaleProceeds(price, qty, fees, avg) ==
  LET entry == IF avg > 0 THEN avg ELSE price
  IN  Margin(entry, qty) + (price * qty - entry * qty - fees)

Fill(side, qty, close, avg) ==
  LET price == FillPrice(side, close)
      fees  == IF side = "Buy" THEN BuyFees(price, qty) ELSE SellFees(price, qty)
  IN  [side |-> side, qty |-> qty, price |-> price, fees |-> fees,
       impact |-> IF side = "Buy" THEN -(Margin(price, qty) + fees)
                                  ELSE SaleProceeds(price, qty, fees, avg)]

-------------------------------------------------------------------------------
(* apply_fill of a container and of the ledger keep the same account of a  *)
(* position, h = [pos, avg, realized]: buys average in, sells realize.     *)

Holding == [pos : Nat, avg : Nat, realized : Int]

NothingHeld == [pos |-> 0, avg |-> 0, realized |-> 0]

Bought(h, fill) ==
  IF h.pos = 0
  THEN [h EXCEPT !.pos = fill.qty, !.avg = fill.price]
  ELSE [h EXCEPT !.pos = @ + fill.qty,
                 !.avg = (h.avg * h.pos + fill.price * fill.qty) \div (h.pos + fill.qty)]

Sold(h, fill) ==
  LET left == Larger(0, h.pos - fill.qty)
  IN  [pos      |-> left,
       avg      |-> IF left = 0 THEN 0 ELSE h.avg,
       realized |-> h.realized + (fill.price * fill.qty - h.avg * fill.qty - fill.fees)]

AfterFill(h, fill) == IF fill.side = "Buy" THEN Bought(h, fill) ELSE Sold(h, fill)

\* What the trade was worth, exactly: a fill's notional and fees in cash.
Worth(fill) ==
  IF fill.side = "Buy" THEN -(fill.price * fill.qty + fill.fees)
                       ELSE fill.price * fill.qty - fill.fees
===============================================================================
