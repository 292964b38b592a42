------------------------------- MODULE Strategies -------------------------------
(***************************************************************************)
(* The four strategies as operators on their own state: what a bar and a   *)
(* fill make of it, and the order it asks for.  All are intraday, long     *)
(* only, and ask for at most one order per bar.                            *)
(*                                                                         *)
(* A bar is [day, phase, high, low, close, volume]; its phase is the part  *)
(* of the session that the strategies tell apart.  The averages are exact: *)
(* VWAP is a quotient kept as its two sums, and an EMA is kept in units of *)
(* 1/Scale, which the binary fractions of the code hold exactly for the    *)
(* periods used here.                                                      *)
(***************************************************************************)
EXTENDS Integers

CONSTANTS OrderQty, OrbBars, VwapDev, EmaFast, EmaSlow,              \* StrategyConfig
          EntryUpBars, AddUpBars, TakeProfitBps, StopBps, AddMaxDipBps, ClipPaise,
          Scale                                                      \* the unit of an EMA

ASSUME StrategiesAssumption ==
  /\ {OrderQty, OrbBars, EmaFast, EmaSlow, ClipPaise, Scale} \subseteq Nat \ {0}
  /\ {VwapDev, EntryUpBars, AddUpBars, TakeProfitBps, StopBps, AddMaxDipBps} \subseteq Nat

StrategyNames == {"consecutive_up_clip", "opening_range_breakout", "vwap_reversion", "ema_crossover"}

Phases == {"morning", "afternoon", "lastHour"}    \* before 13:00, before 14:30, after

Order(side, qty) == [side |-> side, qty |-> qty]
NoOrder          == Order("None", 0)
Buy(qty)         == Order("Buy", qty)
SellAll(pos)     == Order("Sell", pos)

\* The outcome of a bar: the state of the strategy and what it asks for.
Asks(s, order) == [next |-> s, order |-> order]

-------------------------------------------------------------------------------
(* consecutive_up_clip: buy after some rising closes, add after a dip that *)
(* recovered, leave on profit, loss, or a falling close in the last hour.  *)

ClipFresh == [day |-> -1, havePrev |-> FALSE, prevClose |-> 0, up |-> 0, recover |-> 0,
              p0 |-> 0, minClose |-> 0, dipped |-> FALSE, disqualified |-> FALSE]

ResetCycle(s) == [ClipFresh EXCEPT !.day = s.day, !.havePrev = s.havePrev, !.prevClose = s.prevClose]

PlusBps(price, bps)  == price + (price * bps) \div 10000
MinusBps(price, bps) == price - (price * bps) \div 10000

ClipQty(price) == IF ClipPaise \div price > 0 THEN ClipPaise \div price ELSE 1

TooDeep(s, low) == low < MinusBps(s.p0, AddMaxDipBps)

\* The streaks of closes, within the session.
Streaks(s, bar) ==
  LET same   == IF bar.day = s.day THEN s ELSE [ClipFresh EXCEPT !.day = bar.day]
      rising == bar.close > same.prevClose
  IN  IF ~same.havePrev THEN same
      ELSE [same EXCEPT !.up      = IF rising THEN @ + 1 ELSE 0,
                        !.recover = IF rising THEN @ + 1 ELSE 0]

\* How far the price has been from the first entry.
Excursion(s, bar) ==
  LET low == IF s.minClose = 0 \/ bar.close < s.minClose THEN bar.close ELSE s.minClose
  IN  [s EXCEPT !.minClose = low, !.dipped = @ \/ bar.close < s.p0,
                !.disqualified = @ \/ TooDeep(s, low)]

Leaves(s, bar) ==
  \/ bar.phase = "lastHour" /\ s.havePrev /\ bar.close < s.prevClose
  \/ bar.close >= PlusBps(s.p0, TakeProfitBps)
  \/ bar.close <= MinusBps(s.p0, StopBps)

Adds(s, bar) ==
  bar.phase = "morning" /\ ~s.disqualified /\ s.dipped /\ s.recover >= AddUpBars

Enters(s, bar) == bar.phase # "lastHour" /\ s.havePrev /\ s.up >= EntryUpBars

ClipOnBar(s, bar, pos) ==
  LET streaks   == Streaks(s, bar)
      managed   == pos > 0 /\ streaks.p0 > 0
      now       == IF managed THEN Excursion(streaks, bar) ELSE streaks
      Seen(t)   == [t EXCEPT !.prevClose = bar.close, !.havePrev = TRUE]
  IN  IF managed /\ Leaves(now, bar) THEN Asks(Seen(now), SellAll(pos))
      ELSE IF managed /\ Adds(now, bar)
           THEN Asks(Seen([now EXCEPT !.recover = 0, !.dipped = FALSE]), Buy(ClipQty(bar.close)))
      ELSE IF pos = 0 /\ Enters(now, bar)
           THEN Asks(Seen([now EXCEPT !.up = 0]), Buy(ClipQty(bar.close)))
      ELSE Asks(Seen(now), NoOrder)

ClipOnFill(s, fill) ==
  IF fill.side = "Sell" THEN ResetCycle(s)
  ELSE LET entered == IF s.p0 = 0 THEN [s EXCEPT !.p0 = fill.price, !.minClose = fill.price] ELSE s
       IN  [entered EXCEPT !.dipped = FALSE, !.recover = 0,
              !.disqualified = entered.minClose > 0 /\ TooDeep(entered, entered.minClose)]

-------------------------------------------------------------------------------
(* opening_range_breakout: one try a day to buy above the range of its     *)
(* first bars.  The low of the range decides nothing.                      *)

OrbFresh == [day |-> -1, seen |-> 0, high |-> 0, traded |-> FALSE]

InRange(s) == s.seen < OrbBars

\* A plausible bug: the try of the day is not spent by an order that was refused.
BreaksOutAgain(s, bar, pos) == pos = 0 /\ bar.close > s.high

BreaksOut(s, bar, pos) == ~s.traded /\ pos = 0 /\ bar.close > s.high

OrbOnBar(s, bar, pos) ==
  LET today == IF bar.day = s.day THEN s ELSE [OrbFresh EXCEPT !.day = bar.day]
      high  == IF today.seen = 0 \/ bar.high > today.high THEN bar.high ELSE today.high
  IN  IF InRange(today) THEN Asks([today EXCEPT !.seen = @ + 1, !.high = high], NoOrder)
      ELSE IF BreaksOut(today, bar, pos)
           THEN Asks([today EXCEPT !.traded = TRUE], Buy(OrderQty))
      ELSE Asks(today, NoOrder)

-------------------------------------------------------------------------------
(* vwap_reversion: buy well below the average of the day, sell well above. *)

VwapFresh == [day |-> -1, pv |-> 0, volume |-> 0]    \* pv: three times the sum of the code

VwapUpdate(s, bar) ==
  LET today == IF bar.day = s.day THEN s ELSE [VwapFresh EXCEPT !.day = bar.day]
  IN  [today EXCEPT !.pv = @ + (bar.high + bar.low + bar.close) * bar.volume, !.volume = @ + bar.volume]

VwapOnBar(s, bar, pos) ==
  LET vwap == VwapUpdate(s, bar)
      dev  == bar.close * 3 * vwap.volume - vwap.pv
      far  == VwapDev * 3 * vwap.volume
  IN  IF vwap.volume = 0 THEN Asks(vwap, NoOrder)
      ELSE IF pos = 0 /\ dev <= -far THEN Asks(vwap, Buy(OrderQty))
      ELSE IF pos > 0 /\ dev >= far THEN Asks(vwap, SellAll(pos))
      ELSE Asks(vwap, NoOrder)

-------------------------------------------------------------------------------
(* ema_crossover: buy when the fast average comes above the slow one, sell *)
(* when it goes below.  The averages know no sessions.                     *)

EmaFresh == [count |-> 0, fast |-> 0, slow |-> 0, havePrev |-> FALSE, above |-> FALSE]

Ema(s, ema, period, bar) ==
  IF s.count = 0 THEN bar.close * Scale
  ELSE ema + ((bar.close * Scale - ema) * 2) \div (period + 1)

EmaOnBar(s, bar, pos) ==
  LET now   == [s EXCEPT !.count = @ + 1, !.fast = Ema(s, @, EmaFast, bar), !.slow = Ema(s, @, EmaSlow, bar)]
      ready == now.count >= EmaFast /\ now.count >= EmaSlow
      above == now.fast > now.slow
      next  == [now EXCEPT !.havePrev = TRUE, !.above = above]
  IN  IF ~ready THEN Asks(now, NoOrder)
      ELSE IF s.havePrev /\ ~s.above /\ above /\ pos = 0 THEN Asks(next, Buy(OrderQty))
      ELSE IF s.havePrev /\ s.above /\ ~above /\ pos > 0 THEN Asks(next, SellAll(pos))
      ELSE Asks(next, NoOrder)

-------------------------------------------------------------------------------
(* The strategy of a name: configure, on_bar after the indicators, on_fill.*)

Fresh(name) ==
  CASE name = "consecutive_up_clip"    -> ClipFresh
    [] name = "opening_range_breakout" -> OrbFresh
    [] name = "vwap_reversion"         -> VwapFresh
    [] name = "ema_crossover"          -> EmaFresh

OnBar(name, s, bar, pos) ==
  CASE name = "consecutive_up_clip"    -> ClipOnBar(s, bar, pos)
    [] name = "opening_range_breakout" -> OrbOnBar(s, bar, pos)
    [] name = "vwap_reversion"         -> VwapOnBar(s, bar, pos)
    [] name = "ema_crossover"          -> EmaOnBar(s, bar, pos)

OnFill(name, s, fill) ==
  IF name = "consecutive_up_clip" THEN ClipOnFill(s, fill) ELSE s
===============================================================================
