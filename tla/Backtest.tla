-------------------------------- MODULE Backtest --------------------------------
(***************************************************************************)
(* BacktestRunner::run: one strategy over the bars of one symbol, bar by   *)
(* bar, against the simulated exchange, with a book of its own and a       *)
(* snapshot per day.  The loader delivers the bars in the order of their   *)
(* times; the ring they pass through keeps that order.                     *)
(*                                                                         *)
(* The runner keeps a Book where a live run has a TradingContainer:        *)
(* `live` is the account a container would keep of the same fills.  The    *)
(* statistics made from the results at the end (Sharpe ratio, win rate,    *)
(* holding time) are left out.                                             *)
(***************************************************************************)
EXTENDS Exchange, Strategies, Sums, Sequences, FiniteSets

CONSTANTS StartingCapital,  \* request.starting_capital
          Shapes,           \* bars to choose from: [high, low, close, volume]
          MaxBars,          \* bound on the bars of a run
          MaxDays           \* bound on its days

ASSUME BacktestAssumption ==
  /\ StartingCapital \in Nat /\ MaxBars \in Nat /\ MaxDays \in Nat
  /\ \A s \in Shapes : s.close \in Nat \ {0} /\ {s.high, s.low, s.volume} \subseteq Nat

VARIABLES name,    \* the strategy under test
          bt,      \* the book, the strategy, the fills and the snapshots so far
          last,    \* the last bar
          curve,   \* the last point of the equity curve, its peak and drawdown
          bars,    \* bars processed
          over     \* the result has been made

backtestVars == <<name, bt, last, curve, bars, over>>

NoBar == [day |-> 0, phase |-> "morning", high |-> 0, low |-> 0, close |-> 0, volume |-> 0]

Rank == [morning |-> 1, afternoon |-> 2, lastHour |-> 3]

EmptyBook == [cash |-> StartingCapital, pos |-> 0, avg |-> 0, entryFees |-> 0,
              realized |-> 0, fees |-> 0, fills |-> 0, trips |-> 0, wins |-> 0]

Init ==
  /\ name \in StrategyNames
  /\ bt = [book     |-> EmptyBook,
           dayStart |-> EmptyBook,        \* the book when the day began
           strategy |-> Fresh(name),
           orders   |-> <<>>,             \* history: every order, and what came of it
           daily    |-> <<>>,
           live     |-> NothingHeld,      \* history: the container's account of the fills
           buyFees  |-> 0]                \* history: the fees of all buys
  /\ last = NoBar
  /\ curve = [equity |-> StartingCapital, peak |-> StartingCapital, drawdown |-> 0]
  /\ bars = 0
  /\ over = FALSE

-------------------------------------------------------------------------------
(* The book.                                                               *)

\* A plausible bug: an order that adds takes the place of the fees before it.
BookBuyAnew(b, fill) ==
  [b EXCEPT !.pos = b.pos + fill.qty,
            !.avg = IF b.pos = 0 THEN fill.price
                    ELSE (b.avg * b.pos + fill.price * fill.qty) \div (b.pos + fill.qty),
            !.entryFees = fill.fees]

BookBuy(b, fill) ==
  [b EXCEPT !.pos = b.pos + fill.qty,
            !.avg = IF b.pos = 0 THEN fill.price
                    ELSE (b.avg * b.pos + fill.price * fill.qty) \div (b.pos + fill.qty),
            !.entryFees = IF b.pos = 0 THEN fill.fees ELSE @ + fill.fees]

\* A plausible bug: the fees of the entry are forgotten.
BookSellGross(b, fill) ==
  LET pnl == fill.price * fill.qty - b.avg * fill.qty - fill.fees
  IN  [b EXCEPT !.pos = 0, !.avg = 0, !.entryFees = 0,
                !.realized = @ + pnl, !.trips = @ + 1, !.wins = IF pnl > 0 THEN @ + 1 ELSE @]

\* A sell closes the whole position, whatever its size.
BookSell(b, fill) ==
  LET pnl == fill.price * fill.qty - b.avg * fill.qty - fill.fees - b.entryFees
  IN  [b EXCEPT !.pos = 0, !.avg = 0, !.entryFees = 0,
                !.realized = @ + pnl, !.trips = @ + 1, !.wins = IF pnl > 0 THEN @ + 1 ELSE @]

ApplyFill(book, fill) ==
  LET b == [book EXCEPT !.cash = @ + fill.impact, !.fees = @ + fill.fees, !.fills = @ + 1]
  IN  IF fill.side = "Buy" THEN BookBuy(b, fill) ELSE BookSell(b, fill)

\* Marked at the close, with the loan of the margin taken off.
MarkedEquity(b, bar) ==
  b.cash + bar.close * b.pos - (b.avg * b.pos * (Leverage - 1)) \div Leverage

-------------------------------------------------------------------------------
(* submit_and_apply, flatten and close_day, on the whole of the run.       *)

Logged(order, filled, held, bar) ==
  [day |-> bar.day, side |-> order.side, filled |-> filled, qty |-> order.qty, held |-> held]

Submit(r, order, bar) ==
  IF ~SubmitOk(order.side, order.qty, bar.close, r.book.cash, r.book.pos)
  THEN [r EXCEPT !.orders = Append(@, Logged(order, FALSE, r.book.pos, bar))]
  ELSE LET fill == Fill(order.side, order.qty, bar.close, r.book.avg)
       IN  [r EXCEPT !.book     = ApplyFill(@, fill),
                     !.orders   = Append(@, Logged(order, TRUE, r.book.pos, bar)),
                     !.strategy = OnFill(name, @, fill),
                     !.live     = AfterFill(@, fill),
                     !.buyFees  = IF fill.side = "Buy" THEN @ + fill.fees ELSE @]

Flatten(r, bar) == IF r.book.pos <= 0 THEN r ELSE Submit(r, SellAll(r.book.pos), bar)

Snapshot(r, bar) ==
  [day      |-> bar.day,
   realized |-> r.book.realized - r.dayStart.realized,
   fees     |-> r.book.fees - r.dayStart.fees,
   fills    |-> r.book.fills - r.dayStart.fills,
   trips    |-> r.book.trips - r.dayStart.trips,
   wins     |-> r.book.wins - r.dayStart.wins,
   equity   |-> MarkedEquity(r.book, bar)]

CloseDay(r, bar) == [r EXCEPT !.daily = Append(@, Snapshot(r, bar)), !.dayStart = r.book]

\* A plausible bug: the close of the old day is traded at the first bar of the new one.
NewDayLate(r, bar) ==
  IF last # NoBar /\ bar.day # last.day THEN CloseDay(Flatten(r, bar), last) ELSE r

\* A plausible bug: a day ends with its snapshot alone.
NewDayHeld(r, bar) ==
  IF last # NoBar /\ bar.day # last.day THEN CloseDay(r, last) ELSE r

\* A position is closed at the last bar of its day, once the next day has one.
NewDay(r, bar) ==
  IF last # NoBar /\ bar.day # last.day THEN CloseDay(Flatten(r, last), last) ELSE r

\* The strategy sees the bar, after its indicators, and the book as it is now.
StrategyBar(r, bar) ==
  LET outcome == OnBar(name, r.strategy, bar, r.book.pos)
      seen    == [r EXCEPT !.strategy = outcome.next]
  IN  IF outcome.order = NoOrder THEN seen ELSE Submit(seen, outcome.order, bar)

-------------------------------------------------------------------------------
(* One turn of the loop, for any bar that may come next.                   *)

NextTimes ==
  IF last = NoBar THEN {<<1, "morning">>}
  ELSE {<<last.day, p>> : p \in {q \in Phases : Rank[last.phase] <= Rank[q]}}
         \cup (IF last.day < MaxDays THEN {<<last.day + 1, "morning">>} ELSE {})

BarOf(time, shape) ==
  [day |-> time[1], phase |-> time[2], high |-> shape.high, low |-> shape.low,
   close |-> shape.close, volume |-> shape.volume]

Bar ==
  /\ ~over /\ bars < MaxBars
  /\ \E time \in NextTimes, shape \in Shapes :
       LET bar    == BarOf(time, shape)
           after  == StrategyBar(NewDay(bt, bar), bar)
           equity == MarkedEquity(after.book, bar)
           peak   == Larger(curve.peak, equity)
       IN  /\ bt' = after
           /\ last' = bar
           /\ curve' = [equity |-> equity, peak |-> peak,
                        drawdown |-> Larger(curve.drawdown, peak - equity)]
  /\ bars' = bars + 1
  /\ UNCHANGED <<name, over>>

\* After the last bar: sell, and write the last point and the last day anew.
Finish ==
  /\ ~over /\ over' = TRUE
  /\ IF last = NoBar THEN UNCHANGED <<bt, curve>>
     ELSE /\ bt' = CloseDay(Flatten(bt, last), last)
          /\ curve' = [curve EXCEPT !.equity = MarkedEquity(bt'.book, last)]
  /\ UNCHANGED <<name, last, bars>>

Next == Bar \/ Finish

Spec == Init /\ [][Next]_backtestVars

-------------------------------------------------------------------------------
TypeOK ==
  /\ name \in StrategyNames
  /\ bt.live \in Holding /\ bt.book.pos \in Nat /\ bt.book.avg \in Nat
  /\ bars \in 0 .. MaxBars /\ over \in BOOLEAN
  /\ curve.peak >= curve.equity \/ over

(* The book of the backtest and the account a live container would keep of *)
(* the same fills agree on the shares and their average price; the results *)
(* differ by the fees of buys alone, which the container leaves to its     *)
(* cash (backtest_runner.cpp:72-107, trading_container.cpp apply_fill).    *)
BookIsLive ==
  /\ bt.book.pos = bt.live.pos
  /\ bt.book.avg = bt.live.avg
  /\ bt.book.realized = bt.live.realized - (bt.buyFees - bt.book.entryFees)

FillsOn(day) == {i \in DOMAIN bt.orders : bt.orders[i].day = day /\ bt.orders[i].filled}

SumOfDays(field) == SumUpTo([i \in DOMAIN bt.daily |-> bt.daily[i][field]], Len(bt.daily))

(* The days of the result are its parts: each counts the fills that the    *)
(* log has on that day, as main.cpp:188-199 prints them side by side, each *)
(* day comes once, and at the end nothing is outside them                  *)
(* (backtest_runner.cpp:156-171, 208-211).                                 *)
DaysMatchTheLog ==
  /\ \A i \in DOMAIN bt.daily : bt.daily[i].fills = Cardinality(FillsOn(bt.daily[i].day))
  /\ \A i, j \in DOMAIN bt.daily : i < j => bt.daily[i].day < bt.daily[j].day
  /\ over => /\ SumOfDays("realized") = bt.book.realized
             /\ SumOfDays("fees") = bt.book.fees
             /\ SumOfDays("fills") = bt.book.fills

\* A buy that adds truncates the average price, by less than a paisa per share held then.
AddsTo(order) == order.filled /\ order.side = "Buy" /\ order.held > 0

Rounding ==
  SumUpTo([i \in DOMAIN bt.orders |->
             IF AddsTo(bt.orders[i]) THEN bt.orders[i].held + bt.orders[i].qty ELSE 0], Len(bt.orders))

(* A run ends without shares, and what it ends with is what it began with  *)
(* and its result: to the paisa where no buy added to a position, for what *)
(* a sell releases is the margin that was paid.  DefaultRouter picks its   *)
(* winners by that result (backtest_runner.cpp:232-245,                    *)
(* default_router.cpp:84).                                                 *)
EndsSquare ==
  over => LET gain == curve.equity - StartingCapital
          IN  /\ bt.book.pos = 0
              /\ gain - bt.book.realized \in -Rounding .. Rounding

(* The clip strategy has an entry price exactly while its shares are held: *)
(* its exits, stop and target all need it, and a new session forgets it    *)
(* (consecutive_up_clip.cpp:77-81, 103, backtest_runner.cpp:208-211).      *)
ClipKnowsItsEntry ==
  name = "consecutive_up_clip" => (bt.book.pos > 0 <=> bt.strategy.p0 > 0)

(* The breakout strategy asks for one buy a day, also when the exchange    *)
(* refuses it (opening_range_breakout.cpp:54-60).                          *)
OneBreakoutADay ==
  name = "opening_range_breakout" =>
    \A i, j \in DOMAIN bt.orders :
      bt.orders[i].side = "Buy" /\ bt.orders[j].side = "Buy" /\ bt.orders[i].day = bt.orders[j].day => i = j
===============================================================================
