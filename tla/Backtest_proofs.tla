----------------------------- MODULE Backtest_proofs -----------------------------
(***************************************************************************)
(* For every strategy, prices, fees and any number of bars and days: the   *)
(* book of a backtest against the account of a live container, what the    *)
(* clip strategy remembers of its entry and the breakout one of its try,   *)
(* the days of the result against its log, and its cash against its gain.  *)
(***************************************************************************)
EXTENDS Backtest, Ledger_proofs, FiniteSetTheorems

RunFields  == {"book", "dayStart", "strategy", "orders", "daily", "live", "buyFees"}
BookFields == {"cash", "pos", "avg", "entryFees", "realized", "fees", "fills", "trips", "wins"}

BookOK(b) ==
  /\ DOMAIN b = BookFields
  /\ b.pos \in Nat /\ b.avg \in Int /\ b.entryFees \in Int /\ b.realized \in Int
  /\ b.pos = 0 => b.entryFees = 0

Account == [pos : Nat, avg : Int, realized : Int]

\* The account h of the same fills, whose buys have cost `buyFees`.
SameAccount(b, h, buyFees) ==
  /\ h \in Account /\ buyFees \in Int
  /\ b.pos = h.pos /\ b.avg = h.avg
  /\ b.realized = h.realized - (buyFees - b.entryFees)

RunOK(r) == DOMAIN r = RunFields /\ BookOK(r.book) /\ SameAccount(r.book, r.live, r.buyFees)

FillOK(fill) ==
  /\ fill.side \in Sides /\ fill.qty \in Nat \ {0}
  /\ fill.price \in Int /\ fill.fees \in Int

\* What a strategy may ask for while it holds pos shares.
OrderOK(order, pos) == (order.side = "Buy" /\ order.qty \in Int) \/ order = SellAll(pos)

-------------------------------------------------------------------------------
(* Prices and fees are integers.                                           *)

\* The fees of either side are whole paise.
LEMMA FeesType ==
  ASSUME NEW price \in Int, NEW qty \in Int
  PROVE  BuyFees(price, qty) \in Int /\ SellFees(price, qty) \in Int
<1>1. ASSUME NEW amount \in Int, NEW rate \in Nat
      PROVE  Millionths(amount, rate) \in Int
  <2>1. amount * rate + 500000 \in Int
    OBVIOUS
  <2>2. (amount * rate + 500000) \div 1000000 \in Int
    BY <2>1, DivInt
  <2> QED
    BY <2>2 DEF Millionths
<1>2. FlatFee \in Int
  <2>1. Brokerage * GstPercent + 50 \in Int /\ Brokerage \in Int
    BY ExchangeAssumption
  <2>2. (Brokerage * GstPercent + 50) \div 100 \in Int
    BY <2>1, DivInt
  <2> QED
    BY <2>1, <2>2 DEF FlatFee
<1>3. price * qty \in Int
  OBVIOUS
<1>4. /\ Millionths(price * qty, StampRate) \in Int
      /\ Millionths(price * qty, SebiRate) \in Int
      /\ Millionths(price * qty, SttRate) \in Int
  BY <1>1, <1>3, ExchangeAssumption
<1> QED
  BY <1>2, <1>4 DEF BuyFees, SellFees

\* A fill is of the side and size of its order, at the price of the side.
LEMMA FillType ==
  ASSUME NEW side \in Sides, NEW qty \in Nat \ {0}, NEW close \in Int, NEW avg
  PROVE  LET fill == Fill(side, qty, close, avg)
         IN  FillOK(fill) /\ fill.side = side /\ fill.qty = qty /\ fill.price = FillPrice(side, close)
<1> DEFINE price == FillPrice(side, close)
           fill == Fill(side, qty, close, avg)
<1>1. price \in Int
  BY ExchangeAssumption DEF FillPrice, Larger
<1> HIDE DEF price
<1>2. BuyFees(price, qty) \in Int /\ SellFees(price, qty) \in Int
  BY <1>1, FeesType
<1>3. fill.side = side /\ fill.qty = qty /\ fill.price = price
  BY DEF Fill, price
<1>4. fill.fees \in Int
  BY <1>2 DEF Fill, price
<1> HIDE DEF fill
<1>5. FillOK(fill)
  BY <1>1, <1>3, <1>4 DEF FillOK
<1> QED
  BY <1>3, <1>5 DEF fill, price

-------------------------------------------------------------------------------
(* A fill, booked by both.                                                 *)

\* A buy, first or adding, keeps book and account together.
LEMMA BuyAlike ==
  ASSUME NEW book, NEW h, NEW buyFees, BookOK(book), SameAccount(book, h, buyFees),
         NEW fill, FillOK(fill), fill.side = "Buy"
  PROVE  /\ BookOK(ApplyFill(book, fill))
         /\ SameAccount(ApplyFill(book, fill), AfterFill(h, fill), buyFees + fill.fees)
<1> DEFINE b == [book EXCEPT !.cash = @ + fill.impact, !.fees = @ + fill.fees, !.fills = @ + 1]
           new == BookBuy(b, fill)
           g == Bought(h, fill)
           mean == (book.avg * book.pos + fill.price * fill.qty) \div (book.pos + fill.qty)
<1>1. /\ DOMAIN b = BookFields /\ b.pos = book.pos /\ b.avg = book.avg
      /\ b.entryFees = book.entryFees /\ b.realized = book.realized
  BY DEF BookOK, BookFields
<1> HIDE DEF b
<1>2. /\ book.pos \in Nat /\ book.avg \in Int /\ book.entryFees \in Int /\ book.realized \in Int
      /\ fill.qty \in Nat \ {0} /\ fill.price \in Int /\ fill.fees \in Int
      /\ h \in Account /\ h.pos = book.pos /\ h.avg = book.avg /\ buyFees \in Int
  BY DEF BookOK, FillOK, SameAccount
<1>3. mean \in Int
  <2>1. book.avg * book.pos + fill.price * fill.qty \in Int /\ book.pos + fill.qty \in Nat \ {0}
    BY <1>2
  <2> QED
    BY <2>1, DivInt
<1>4. /\ DOMAIN new = BookFields /\ new.pos = book.pos + fill.qty
      /\ new.avg = (IF book.pos = 0 THEN fill.price ELSE mean)
      /\ new.entryFees = (IF book.pos = 0 THEN fill.fees ELSE book.entryFees + fill.fees)
      /\ new.realized = book.realized
  BY <1>1 DEF BookBuy, BookFields
<1>5. /\ g.pos = book.pos + fill.qty /\ g.avg = (IF book.pos = 0 THEN fill.price ELSE mean)
      /\ g.realized = h.realized /\ DOMAIN g = {"pos", "avg", "realized"}
  BY <1>2 DEF Bought, Account
<1>6. ApplyFill(book, fill) = new /\ AfterFill(h, fill) = g
  BY DEF ApplyFill, AfterFill, b
<1> HIDE DEF mean, new
<1>7. BookOK(new)
  BY <1>2, <1>3, <1>4 DEF BookOK
<1>8. g \in Account
  <2> DEFINE shares == book.pos + fill.qty
             price  == IF book.pos = 0 THEN fill.price ELSE mean
  <2>1. shares \in Nat /\ price \in Int
    BY <1>2, <1>3
  <2>2. g.pos = shares /\ g.avg = price
    BY <1>5
  <2>3. \E x, y : g = [h EXCEPT !.pos = x, !.avg = y]
    BY DEF Bought
  <2> HIDE DEF g, shares, price
  <2>4. PICK x, y : g = [h EXCEPT !.pos = x, !.avg = y]
    BY <2>3
  <2>5. x = shares /\ y = price
    BY <1>2, <2>2, <2>4 DEF Account
  <2> QED
    BY <1>2, <2>1, <2>4, <2>5 DEF Account
<1> HIDE DEF g
<1>9. SameAccount(new, g, buyFees + fill.fees)
  <2>1. book.realized = h.realized - (buyFees - book.entryFees) /\ h.realized \in Int
    BY DEF SameAccount, Account
  <2>2. book.pos = 0 => book.entryFees = 0
    BY DEF BookOK
  <2>3. new.realized = g.realized - ((buyFees + fill.fees) - new.entryFees)
    BY <1>2, <1>4, <1>5, <2>1, <2>2
  <2> QED
    BY <1>2, <1>4, <1>5, <1>8, <2>3 DEF SameAccount
<1> QED
  BY <1>6, <1>7, <1>9

(* A sell of the whole position.                                           *)
LEMMA SellAlike ==
  ASSUME NEW book, NEW h, NEW buyFees, BookOK(book), SameAccount(book, h, buyFees),
         NEW fill, FillOK(fill), fill.side = "Sell", fill.qty = book.pos
  PROVE  /\ BookOK(ApplyFill(book, fill))
         /\ SameAccount(ApplyFill(book, fill), AfterFill(h, fill), buyFees)
<1> DEFINE b == [book EXCEPT !.cash = @ + fill.impact, !.fees = @ + fill.fees, !.fills = @ + 1]
           gross == fill.price * fill.qty
           cost == book.avg * fill.qty
           new == BookSell(b, fill)
           g == Sold(h, fill)
<1>1. /\ DOMAIN b = BookFields /\ b.pos = book.pos /\ b.avg = book.avg
      /\ b.entryFees = book.entryFees /\ b.realized = book.realized
  BY DEF BookOK, BookFields
<1> HIDE DEF b
<1>2. /\ book.pos \in Nat /\ book.avg \in Int /\ book.entryFees \in Int /\ book.realized \in Int
      /\ fill.qty \in Nat \ {0} /\ fill.price \in Int /\ fill.fees \in Int
      /\ h \in Account /\ h.pos = book.pos /\ h.avg = book.avg /\ buyFees \in Int
      /\ h.realized \in Int
  BY DEF BookOK, FillOK, SameAccount, Account
<1>3. gross \in Int /\ cost \in Int
  BY <1>2
<1>4. /\ DOMAIN new = BookFields /\ new.pos = 0 /\ new.avg = 0 /\ new.entryFees = 0
      /\ new.realized = book.realized + (gross - cost - fill.fees - book.entryFees)
  BY <1>1 DEF BookSell, BookFields
<1>5. g = [pos |-> 0, avg |-> 0, realized |-> h.realized + (gross - cost - fill.fees)]
  BY <1>2 DEF Sold, Larger
<1>6. ApplyFill(book, fill) = new /\ AfterFill(h, fill) = g
  BY DEF ApplyFill, AfterFill, b
<1> HIDE DEF gross, cost, new, g
<1>7. BookOK(new)
  BY <1>2, <1>3, <1>4 DEF BookOK
<1>8. SameAccount(new, g, buyFees)
  <2>1. book.realized = h.realized - (buyFees - book.entryFees)
    BY DEF SameAccount
  <2> QED
    BY <1>2, <1>3, <1>4, <1>5, <2>1 DEF SameAccount, Account
<1> QED
  BY <1>6, <1>7, <1>8

-------------------------------------------------------------------------------
(* The parts of a turn.                                                    *)

\* What of a run the accounts depend on.
SameBooks(r, q) ==
  /\ DOMAIN q = RunFields
  /\ q.book = r.book /\ q.live = r.live /\ q.buyFees = r.buyFees

\* A change elsewhere in the run leaves the accounts alone.
LEMMA SameBooksOK ==
  ASSUME NEW r, NEW q, RunOK(r), SameBooks(r, q)
  PROVE  RunOK(q)
BY DEF RunOK, SameBooks

\* An order keeps the accounts together, refused or filled.
LEMMA SubmitOK ==
  ASSUME NEW r, RunOK(r), NEW order, OrderOK(order, r.book.pos), NEW bar, bar.close \in Int
  PROVE  RunOK(Submit(r, order, bar))
<1>1. DOMAIN r = RunFields /\ BookOK(r.book) /\ SameAccount(r.book, r.live, r.buyFees)
  BY DEF RunOK
<1>2. CASE ~ SubmitOk(order.side, order.qty, bar.close, r.book.cash, r.book.pos)
  <2>1. SameBooks(r, Submit(r, order, bar))
    BY <1>1, <1>2 DEF Submit, SameBooks, RunFields
  <2> QED
    BY <2>1, SameBooksOK
<1>3. CASE SubmitOk(order.side, order.qty, bar.close, r.book.cash, r.book.pos)
  <2> DEFINE fill == Fill(order.side, order.qty, bar.close, r.book.avg)
             new == Submit(r, order, bar)
  <2>1. /\ order.side \in Sides /\ order.qty \in Nat \ {0}
        /\ order.side = "Sell" => order.qty = r.book.pos
    BY <1>1, <1>3 DEF OrderOK, SellAll, Order, Sides, SubmitOk, BookOK
  <2>2. FillOK(fill) /\ fill.side = order.side /\ fill.qty = order.qty
    BY <2>1, FillType
  <2>3. /\ DOMAIN new = RunFields
        /\ new.book = ApplyFill(r.book, fill) /\ new.live = AfterFill(r.live, fill)
        /\ new.buyFees = (IF fill.side = "Buy" THEN r.buyFees + fill.fees ELSE r.buyFees)
    BY <1>1, <1>3 DEF Submit, RunFields
  <2> HIDE DEF fill, new
  <2>4. ASSUME fill.side = "Buy" PROVE RunOK(new)
    BY <1>1, <2>2, <2>3, <2>4, BuyAlike DEF RunOK
  <2>5. ASSUME fill.side = "Sell" PROVE RunOK(new)
    BY <1>1, <2>1, <2>2, <2>3, <2>5, SellAlike DEF RunOK
  <2> QED
    BY <2>1, <2>2, <2>4, <2>5 DEF new, Sides
<1> QED
  BY <1>2, <1>3

\* So does the sale of what is held.
LEMMA FlattenOK ==
  ASSUME NEW r, RunOK(r), NEW bar, bar.close \in Int
  PROVE  RunOK(Flatten(r, bar))
BY SubmitOK DEF Flatten, OrderOK

\* So does the end of a day.
LEMMA CloseDayOK ==
  ASSUME NEW r, RunOK(r), NEW bar
  PROVE  RunOK(CloseDay(r, bar))
<1>1. SameBooks(r, CloseDay(r, bar))
  BY DEF RunOK, CloseDay, SameBooks, RunFields
<1> QED
  BY <1>1, SameBooksOK

(* Every strategy asks for a buy of some quantity, a sell of all it has,   *)
(* or nothing.                                                             *)
LEMMA OrdersOK ==
  ASSUME NEW s, NEW bar, bar.close \in Nat \ {0}, NEW pos, name \in StrategyNames
  PROVE  \/ OnBar(name, s, bar, pos).order = NoOrder
         \/ OrderOK(OnBar(name, s, bar, pos).order, pos)
<1>1. ClipQty(bar.close) \in Int /\ OrderQty \in Int
  BY StrategiesAssumption, DivInt DEF ClipQty
<1>2. OrderOK(Buy(ClipQty(bar.close)), pos) /\ OrderOK(Buy(OrderQty), pos) /\ OrderOK(SellAll(pos), pos)
  BY <1>1 DEF OrderOK, Buy, Order
<1>3. CASE name = "consecutive_up_clip"
  BY <1>2, <1>3 DEF OnBar, ClipOnBar, Asks
<1>4. CASE name = "opening_range_breakout"
  BY <1>2, <1>4 DEF OnBar, OrbOnBar, Asks
<1>5. CASE name = "vwap_reversion"
  BY <1>2, <1>5 DEF OnBar, VwapOnBar, Asks
<1>6. CASE name = "ema_crossover"
  BY <1>2, <1>6 DEF OnBar, EmaOnBar, Asks
<1> QED
  BY <1>3, <1>4, <1>5, <1>6 DEF StrategyNames

\* So does the strategy at a bar.
LEMMA StrategyBarOK ==
  ASSUME NEW r, RunOK(r), NEW bar, bar.close \in Nat \ {0}, name \in StrategyNames
  PROVE  RunOK(StrategyBar(r, bar))
<1> DEFINE outcome == OnBar(name, r.strategy, bar, r.book.pos)
           seen == [r EXCEPT !.strategy = outcome.next]
<1>1. outcome.order = NoOrder \/ OrderOK(outcome.order, r.book.pos)
  BY OrdersOK
<1>2. StrategyBar(r, bar) = IF outcome.order = NoOrder THEN seen ELSE Submit(seen, outcome.order, bar)
  BY DEF StrategyBar
<1> HIDE DEF outcome
<1>3. SameBooks(r, seen)
  BY DEF RunOK, SameBooks, RunFields
<1>4. RunOK(seen) /\ seen.book = r.book
  BY <1>3, SameBooksOK DEF SameBooks
<1> HIDE DEF seen
<1> QED
  BY <1>1, <1>2, <1>4, SubmitOK

-------------------------------------------------------------------------------
BookInv == name \in StrategyNames /\ RunOK(bt) /\ last.close \in Int

\* Both begin empty.
LEMMA InitBook == Init => BookInv
<1> SUFFICES ASSUME Init PROVE BookInv
  OBVIOUS
<1>1. name \in StrategyNames /\ last.close = 0
  BY DEF Init, NoBar
<1>2. bt.book = EmptyBook /\ bt.live = NothingHeld /\ bt.buyFees = 0 /\ DOMAIN bt = RunFields
  BY DEF Init, RunFields
<1>3. BookOK(EmptyBook) /\ SameAccount(EmptyBook, NothingHeld, 0)
  BY DEF BookOK, SameAccount, EmptyBook, NothingHeld, BookFields, Account
<1> QED
  BY <1>1, <1>2, <1>3 DEF BookInv, RunOK

\* Every turn of the loop keeps the accounts together.
LEMMA NextBook ==
  ASSUME BookInv, [Next]_backtestVars
  PROVE  BookInv'
<1>1. name \in StrategyNames /\ RunOK(bt) /\ last.close \in Int
  BY DEF BookInv
<1>2. ASSUME NEW time, NEW shape \in Shapes,
             bt' = StrategyBar(NewDay(bt, BarOf(time, shape)), BarOf(time, shape)),
             last' = BarOf(time, shape), name' = name
      PROVE  BookInv'
  <2> DEFINE bar == BarOf(time, shape)
  <2>1. bar.close \in Nat \ {0}
    BY BacktestAssumption DEF BarOf
  <2> HIDE DEF bar
  <2>2. RunOK(NewDay(bt, bar))
    BY <1>1, FlattenOK, CloseDayOK DEF NewDay
  <2>3. RunOK(StrategyBar(NewDay(bt, bar), bar))
    BY <1>1, <2>1, <2>2, StrategyBarOK
  <2> QED
    BY <1>1, <1>2, <2>1, <2>3 DEF BookInv, bar
<1>3. CASE Finish
  <2>1. name' = name /\ last' = last
    BY <1>3 DEF Finish
  <2>2. bt' = bt \/ bt' = CloseDay(Flatten(bt, last), last)
    BY <1>3 DEF Finish
  <2>3. RunOK(CloseDay(Flatten(bt, last), last))
    BY <1>1, FlattenOK, CloseDayOK
  <2> QED
    BY <1>1, <2>1, <2>2, <2>3 DEF BookInv
<1>4. CASE UNCHANGED backtestVars
  BY <1>1, <1>4 DEF backtestVars, BookInv
<1>5. CASE Bar
  BY <1>2, <1>5 DEF Bar
<1> QED
  BY <1>3, <1>4, <1>5 DEF Next

(* The book of a backtest has the shares, the average price and, but for   *)
(* the fees of buys, the result of a container with the same fills, for    *)
(* any strategy of the four, any prices and any rates of fees.             *)
THEOREM BookCorrect == Spec => []BookIsLive
<1>1. BookInv => BookIsLive
  BY DEF BookInv, RunOK, SameAccount, BookIsLive
<1>2. BookInv /\ [Next]_backtestVars => BookInv'
  BY NextBook
<1> QED
  BY InitBook, <1>1, <1>2, PTL DEF Spec

-------------------------------------------------------------------------------
(* The clip strategy and its entry.                                        *)

Clip == "consecutive_up_clip"

ClipFields == {"day", "havePrev", "prevClose", "up", "recover", "p0", "minClose", "dipped", "disqualified"}

\* It has an entry price exactly while the book has its shares.
ClipOK(r) ==
  /\ DOMAIN r.strategy = ClipFields
  /\ r.strategy.p0 \in Nat
  /\ r.book.pos > 0 <=> r.strategy.p0 > 0

\* A bar keeps the entry price, unless it opens a session.
LEMMA ClipBar ==
  ASSUME NEW s, DOMAIN s = ClipFields, NEW bar, NEW pos
  PROVE  LET next == ClipOnBar(s, bar, pos).next
         IN  /\ DOMAIN next = ClipFields /\ next.day = bar.day
             /\ next.p0 = IF bar.day = s.day THEN s.p0 ELSE 0
<1> DEFINE streaks == Streaks(s, bar)
           managed == pos > 0 /\ streaks.p0 > 0
           now == IF managed THEN Excursion(streaks, bar) ELSE streaks
           p0 == IF bar.day = s.day THEN s.p0 ELSE 0
           Same(t) == DOMAIN t = ClipFields /\ t.day = bar.day /\ t.p0 = p0
           Seen(t) == [t EXCEPT !.prevClose = bar.close, !.havePrev = TRUE]
           next == ClipOnBar(s, bar, pos).next
<1>1. Same(streaks)
  BY DEF Streaks, ClipFresh, ClipFields
<1>2. Same(Excursion(streaks, bar))
  BY <1>1 DEF Excursion, ClipFields
<1>3. Same(now)
  BY <1>1, <1>2
<1>4. ClipOnBar(s, bar, pos).next \in
        {Seen(now), Seen([now EXCEPT !.recover = 0, !.dipped = FALSE]), Seen([now EXCEPT !.up = 0])}
  BY DEF ClipOnBar, Asks
<1> HIDE DEF now, p0
<1>5. /\ Same(Seen(now)) /\ Same(Seen([now EXCEPT !.recover = 0, !.dipped = FALSE]))
      /\ Same(Seen([now EXCEPT !.up = 0]))
  BY <1>3 DEF ClipFields
<1>6. Same(next)
  BY <1>4, <1>5
<1> HIDE DEF next
<1> QED
  BY <1>6 DEF p0, next

\* A sell forgets the entry, the first buy sets it, an add keeps it.
LEMMA ClipFill ==
  ASSUME NEW s, DOMAIN s = ClipFields, NEW fill
  PROVE  LET next == ClipOnFill(s, fill)
         IN  /\ DOMAIN next = ClipFields /\ next.day = s.day
             /\ next.p0 = IF fill.side = "Sell" THEN 0 ELSE IF s.p0 = 0 THEN fill.price ELSE s.p0
<1>1. CASE fill.side = "Sell"
  BY <1>1 DEF ClipOnFill, ResetCycle, ClipFresh, ClipFields
<1>2. CASE fill.side # "Sell"
  <2> DEFINE entered == IF s.p0 = 0 THEN [s EXCEPT !.p0 = fill.price, !.minClose = fill.price] ELSE s
  <2>1. /\ DOMAIN entered = ClipFields /\ entered.day = s.day
        /\ entered.p0 = IF s.p0 = 0 THEN fill.price ELSE s.p0
    BY DEF ClipFields
  <2>2. ClipOnFill(s, fill) =
          [entered EXCEPT !.dipped = FALSE, !.recover = 0,
             !.disqualified = entered.minClose > 0 /\ TooDeep(entered, entered.minClose)]
    BY <1>2 DEF ClipOnFill
  <2> HIDE DEF entered
  <2>3. \A x : LET t == [entered EXCEPT !.dipped = FALSE, !.recover = 0, !.disqualified = x]
               IN  DOMAIN t = ClipFields /\ t.day = s.day /\ t.p0 = entered.p0
    BY <2>1 DEF ClipFields
  <2> QED
    BY <1>2, <2>1, <2>2, <2>3
<1> QED
  BY <1>1, <1>2

(* An order keeps them together; a sell of everything ends without both.   *)
LEMMA ClipSubmit ==
  ASSUME name = Clip, NEW r, RunOK(r), ClipOK(r), NEW order, OrderOK(order, r.book.pos),
         NEW bar, bar.close \in Nat \ {0}
  PROVE  /\ ClipOK(Submit(r, order, bar))
         /\ Submit(r, order, bar).strategy.day = r.strategy.day
         /\ order = SellAll(r.book.pos) /\ r.book.pos > 0 => Submit(r, order, bar).book.pos = 0
<1> DEFINE new == Submit(r, order, bar)
           taken == SubmitOk(order.side, order.qty, bar.close, r.book.cash, r.book.pos)
<1>1. /\ DOMAIN r = RunFields /\ BookOK(r.book)
      /\ DOMAIN r.strategy = ClipFields /\ r.strategy.p0 \in Nat
      /\ r.book.pos > 0 <=> r.strategy.p0 > 0
  BY DEF RunOK, ClipOK
<1>2. CASE ~ taken
  <2>1. new.book = r.book /\ new.strategy = r.strategy
    BY <1>1, <1>2 DEF Submit, RunFields
  <2>2. order = SellAll(r.book.pos) /\ r.book.pos > 0 => FALSE
    BY <1>1, <1>2 DEF SubmitOk, SellAll, Order, BookOK
  <2> HIDE DEF new
  <2>3. ClipOK(new)
    BY <1>1, <2>1 DEF ClipOK
  <2> QED
    BY <2>1, <2>2, <2>3 DEF new
<1>3. CASE taken
  <2> DEFINE fill == Fill(order.side, order.qty, bar.close, r.book.avg)
             s == ClipOnFill(r.strategy, fill)
  <2>1. order.side \in Sides /\ order.qty \in Nat \ {0}
    BY <1>1, <1>3 DEF OrderOK, SellAll, Order, Sides, SubmitOk, BookOK
  <2>2. FillOK(fill) /\ fill.side = order.side /\ fill.qty = order.qty
        /\ fill.price = FillPrice(order.side, bar.close)
    BY <2>1, FillType
  <2>3. new.book = ApplyFill(r.book, fill) /\ new.strategy = s
    BY <1>1, <1>3 DEF Submit, RunFields, OnFill, Clip
  <2>4. /\ DOMAIN s = ClipFields /\ s.day = r.strategy.day
        /\ s.p0 = IF fill.side = "Sell" THEN 0 ELSE IF r.strategy.p0 = 0 THEN fill.price ELSE r.strategy.p0
    BY <1>1, ClipFill
  <2> HIDE DEF fill, s, new
  <2>5. r.book.pos \in Nat /\ DOMAIN r.book = BookFields
    BY <1>1 DEF BookOK
  <2>6. ApplyFill(r.book, fill).pos = IF fill.side = "Buy" THEN r.book.pos + fill.qty ELSE 0
    BY <2>5 DEF ApplyFill, BookBuy, BookSell, BookFields
  <2>7. CASE fill.side = "Buy"
    <3>1. fill.price \in Nat \ {0}
      BY <2>2, <2>7, ExchangeAssumption DEF FillPrice
    <3>2. new.book.pos > 0 /\ new.strategy.p0 \in Nat \ {0}
      BY <1>1, <2>1, <2>2, <2>3, <2>4, <2>5, <2>6, <2>7, <3>1
    <3>3. ~ (order = SellAll(r.book.pos))
      <4>1. SellAll(r.book.pos).side = "Sell"
        BY DEF SellAll, Order
      <4> QED
        BY <2>2, <2>7, <4>1
    <3> QED
      BY <2>3, <2>4, <3>2, <3>3 DEF ClipOK, new
  <2>8. CASE fill.side = "Sell"
    BY <2>3, <2>4, <2>6, <2>8 DEF ClipOK, new
  <2> QED
    BY <2>1, <2>2, <2>7, <2>8 DEF Sides
<1> QED
  BY <1>2, <1>3

\* A day ends without shares and without an entry.
LEMMA ClipFlatten ==
  ASSUME name = Clip, NEW r, RunOK(r), ClipOK(r), NEW bar, bar.close \in Nat \ {0}
  PROVE  LET new == CloseDay(Flatten(r, bar), bar)
         IN  ClipOK(new) /\ new.strategy.day = r.strategy.day /\ new.book.pos = 0
<1> DEFINE flat == Flatten(r, bar)
<1>1. r.book.pos \in Nat
  BY DEF RunOK, BookOK
<1>2. ClipOK(flat) /\ flat.strategy.day = r.strategy.day /\ flat.book.pos = 0
  <2>1. CASE r.book.pos <= 0
    BY <1>1, <2>1 DEF Flatten
  <2>2. CASE r.book.pos > 0
    <3>1. flat = Submit(r, SellAll(r.book.pos), bar)
      BY <1>1, <2>2 DEF Flatten
    <3>2. OrderOK(SellAll(r.book.pos), r.book.pos)
      BY DEF OrderOK
    <3> HIDE DEF flat
    <3> QED
      BY <2>2, <3>1, <3>2, ClipSubmit
  <2> QED
    BY <1>1, <2>1, <2>2
<1>3. RunOK(flat)
  BY FlattenOK
<1> HIDE DEF flat
<1>4. CloseDay(flat, bar).book = flat.book /\ CloseDay(flat, bar).strategy = flat.strategy
  BY <1>3 DEF RunOK, RunFields, CloseDay
<1>5. ClipOK(CloseDay(flat, bar))
  BY <1>2, <1>4 DEF ClipOK
<1> QED
  BY <1>2, <1>4, <1>5 DEF flat

(* A bar of the day the strategy is in, or one that finds nothing held.    *)
LEMMA ClipStrategyBar ==
  ASSUME name = Clip, NEW r, RunOK(r), ClipOK(r), NEW bar, bar.close \in Nat \ {0},
         r.book.pos = 0 \/ bar.day = r.strategy.day
  PROVE  /\ ClipOK(StrategyBar(r, bar))
         /\ StrategyBar(r, bar).strategy.day = bar.day
<1> DEFINE outcome == OnBar(name, r.strategy, bar, r.book.pos)
           seen == [r EXCEPT !.strategy = outcome.next]
<1>1. outcome.order = NoOrder \/ OrderOK(outcome.order, r.book.pos)
  BY OrdersOK DEF Clip, StrategyNames
<1>2. StrategyBar(r, bar) = IF outcome.order = NoOrder THEN seen ELSE Submit(seen, outcome.order, bar)
  BY DEF StrategyBar
<1>3. /\ DOMAIN outcome.next = ClipFields /\ outcome.next.day = bar.day
      /\ outcome.next.p0 = IF bar.day = r.strategy.day THEN r.strategy.p0 ELSE 0
  <2>1. outcome = ClipOnBar(r.strategy, bar, r.book.pos)
    BY DEF OnBar, Clip
  <2>2. DOMAIN r.strategy = ClipFields
    BY DEF ClipOK
  <2> HIDE DEF outcome
  <2> QED
    BY <2>1, <2>2, ClipBar
<1> HIDE DEF outcome
<1>4. SameBooks(r, seen) /\ seen.strategy = outcome.next
  BY DEF RunOK, SameBooks, RunFields
<1>5. RunOK(seen) /\ seen.book = r.book
  BY <1>4, SameBooksOK DEF SameBooks
<1> HIDE DEF seen
<1>6. ClipOK(seen) /\ seen.strategy.day = bar.day
  BY <1>3, <1>4, <1>5 DEF ClipOK
<1> QED
  BY <1>1, <1>2, <1>5, <1>6, ClipSubmit

ClipInv ==
  name = Clip => /\ ClipOK(bt)
                 /\ last = NoBar => bt.book.pos = 0
                 /\ last # NoBar => last.close \in Nat \ {0} /\ bt.strategy.day = last.day

\* No shares, no entry.
LEMMA InitClip == Init => ClipInv
BY DEF Init, ClipInv, ClipOK, Clip, ClipFields, ClipFresh, Fresh, EmptyBook

\* Every turn keeps the entry price with the shares.
LEMMA NextClip ==
  ASSUME BookInv, ClipInv, [Next]_backtestVars
  PROVE  ClipInv'
<1> SUFFICES ASSUME name' = Clip
             PROVE  /\ ClipOK(bt')
                    /\ last' = NoBar => bt'.book.pos = 0
                    /\ last' # NoBar => last'.close \in Nat \ {0} /\ bt'.strategy.day = last'.day
  BY DEF ClipInv
<1>1. name = Clip /\ RunOK(bt)
  BY DEF Next, Bar, Finish, backtestVars, BookInv
<1>2. /\ ClipOK(bt)
      /\ last = NoBar => bt.book.pos = 0
      /\ last # NoBar => last.close \in Nat \ {0} /\ bt.strategy.day = last.day
  BY <1>1 DEF ClipInv
<1>3. ASSUME NEW time, NEW shape \in Shapes,
             bt' = StrategyBar(NewDay(bt, BarOf(time, shape)), BarOf(time, shape)),
             last' = BarOf(time, shape)
      PROVE  ClipOK(bt') /\ last' # NoBar /\ last'.close \in Nat \ {0} /\ bt'.strategy.day = last'.day
  <2> DEFINE bar == BarOf(time, shape)
             r == NewDay(bt, bar)
  <2>1. bar.close \in Nat \ {0} /\ bar # NoBar
    BY BacktestAssumption DEF BarOf, NoBar
  <2> HIDE DEF bar
  <2>2. RunOK(r) /\ ClipOK(r) /\ (r.book.pos = 0 \/ bar.day = r.strategy.day)
    <3>1. CASE last # NoBar /\ bar.day # last.day
      <4>1. r = CloseDay(Flatten(bt, last), last)
        BY <3>1 DEF NewDay
      <4>2. last.close \in Nat \ {0}
        BY <1>2, <3>1
      <4>3. RunOK(r)
        BY <1>1, <4>1, <4>2, FlattenOK, CloseDayOK
      <4> QED
        BY <1>1, <1>2, <4>1, <4>2, <4>3, ClipFlatten
    <3>2. CASE ~ (last # NoBar /\ bar.day # last.day)
      <4>1. r = bt
        BY <3>2 DEF NewDay
      <4> QED
        BY <1>1, <1>2, <3>2, <4>1
    <3> QED
      BY <3>1, <3>2
  <2> HIDE DEF r
  <2>3. ClipOK(StrategyBar(r, bar)) /\ StrategyBar(r, bar).strategy.day = bar.day
    BY <1>1, <2>1, <2>2, ClipStrategyBar
  <2>4. bt' = StrategyBar(r, bar) /\ last' = bar
    BY <1>3 DEF r, bar
  <2> QED
    BY <2>1, <2>3, <2>4
<1>4. CASE Bar
  BY <1>3, <1>4 DEF Bar
<1>5. CASE Finish
  <2>1. last' = last
    BY <1>5 DEF Finish
  <2>2. CASE last = NoBar
    <3>1. bt' = bt
      BY <1>5, <2>2 DEF Finish
    <3> QED
      BY <1>2, <2>1, <2>2, <3>1
  <2>3. CASE last # NoBar
    <3>1. bt' = CloseDay(Flatten(bt, last), last)
      BY <1>5, <2>3 DEF Finish
    <3>2. last.close \in Nat \ {0}
      BY <1>2, <2>3
    <3>3. ClipOK(bt') /\ bt'.strategy.day = bt.strategy.day
      BY <1>1, <1>2, <3>1, <3>2, ClipFlatten
    <3> QED
      BY <1>2, <2>1, <2>3, <3>2, <3>3
  <2> QED
    BY <2>2, <2>3
<1>6. CASE UNCHANGED backtestVars
  BY <1>2, <1>6 DEF backtestVars
<1> QED
  BY <1>4, <1>5, <1>6 DEF Next

(* The clip strategy has the price of its entry exactly while it holds     *)
(* shares: through adds, refused orders, new sessions and the forced sale  *)
(* at the end of each day, at any prices.                                  *)
THEOREM ClipCorrect == Spec => []ClipKnowsItsEntry
<1>1. BookInv /\ ClipInv => ClipKnowsItsEntry
  BY DEF ClipInv, ClipOK, ClipKnowsItsEntry, Clip
<1>2. BookInv /\ [Next]_backtestVars => BookInv'
  BY NextBook
<1>3. BookInv /\ ClipInv /\ [Next]_backtestVars => ClipInv'
  BY NextClip
<1> QED
  BY InitBook, InitClip, <1>1, <1>2, <1>3, PTL DEF Spec

-------------------------------------------------------------------------------
(* The log of orders, and the one try of the breakout strategy.            *)

Orb == "opening_range_breakout"

OrbFields == {"day", "seen", "high", "traded"}

Entries == [day : Int, side : {"Buy", "Sell"}, filled : BOOLEAN, qty : Int, held : Nat]

Tried(log, day) == \E i \in DOMAIN log : log[i].side = "Buy" /\ log[i].day = day

OneTry(log) ==
  \A i, j \in DOMAIN log : log[i].side = "Buy" /\ log[j].side = "Buy" /\ log[i].day = log[j].day => i = j

LogOK(log, today) == log \in Seq(Entries) /\ OneTry(log) /\ \A i \in DOMAIN log : log[i].day <= today

\* A log stays in order with an entry of today that is not a second try.
LEMMA LogAppend ==
  ASSUME NEW log, NEW old \in Int, NEW today \in Int, LogOK(log, old), old <= today,
         NEW e \in Entries, e.day = today, e.side = "Buy" => ~ Tried(log, today)
  PROVE  /\ LogOK(Append(log, e), today)
         /\ Tried(Append(log, e), today) => Tried(log, today) \/ e.side = "Buy"
<1> DEFINE new == Append(log, e)
<1>1. log \in Seq(Entries) /\ OneTry(log) /\ \A i \in DOMAIN log : log[i].day <= old /\ log[i].day \in Int
  <2>1. log \in Seq(Entries) /\ OneTry(log) /\ \A i \in DOMAIN log : log[i].day <= old
    BY DEF LogOK
  <2>2. \A i \in DOMAIN log : log[i] \in Entries
    BY <2>1
  <2>3. \A x \in Entries : x.day \in Int
    BY DEF Entries
  <2> QED
    BY <2>1, <2>2, <2>3
<1>2. /\ new \in Seq(Entries) /\ Len(log) \in Nat /\ DOMAIN log = 1 .. Len(log)
      /\ DOMAIN new = 1 .. (Len(log) + 1)
      /\ \A i \in DOMAIN log : new[i] = log[i]
      /\ new[Len(log) + 1] = e
  BY <1>1
<1>3. \A i \in DOMAIN new : i \in DOMAIN log \/ i = Len(log) + 1
  BY <1>2
<1> HIDE DEF new
<1>4. \A i \in DOMAIN new : new[i].day <= today
  <2>1. ASSUME NEW i \in DOMAIN log PROVE new[i].day <= today
    BY <1>1, <1>2
  <2>2. e.day <= today
    OBVIOUS
  <2> QED
    BY <1>2, <1>3, <2>1, <2>2
<1>5. OneTry(new)
  <2> SUFFICES ASSUME NEW i \in DOMAIN new, NEW j \in DOMAIN new,
                      new[i].side = "Buy", new[j].side = "Buy", new[i].day = new[j].day
               PROVE  i = j
    BY DEF OneTry
  <2>1. CASE i \in DOMAIN log /\ j \in DOMAIN log
    BY <1>1, <1>2, <2>1 DEF OneTry
  <2>2. CASE i \in DOMAIN log /\ j = Len(log) + 1
    BY <1>2, <2>2 DEF Tried
  <2>3. CASE j \in DOMAIN log /\ i = Len(log) + 1
    BY <1>2, <2>3 DEF Tried
  <2> QED
    BY <1>3, <2>1, <2>2, <2>3
<1>6. Tried(new, today) => Tried(log, today) \/ e.side = "Buy"
  BY <1>2, <1>3 DEF Tried
<1> QED
  BY <1>2, <1>4, <1>5, <1>6 DEF LogOK, new

\* The breakout strategy asks only when it has not, and then has.
LEMMA OrbBar ==
  ASSUME NEW s, DOMAIN s = OrbFields, s.traded \in BOOLEAN, NEW bar, NEW pos
  PROVE  LET asks == OrbOnBar(s, bar, pos)
         IN  /\ DOMAIN asks.next = OrbFields /\ asks.next.day = bar.day /\ asks.next.traded \in BOOLEAN
             /\ asks.order \in {NoOrder, Buy(OrderQty)}
             /\ bar.day = s.day /\ s.traded => asks.order = NoOrder /\ asks.next.traded
             /\ asks.order # NoOrder => asks.next.traded
<1> DEFINE today == IF bar.day = s.day THEN s ELSE [OrbFresh EXCEPT !.day = bar.day]
           high  == IF today.seen = 0 \/ bar.high > today.high THEN bar.high ELSE today.high
           asks  == OrbOnBar(s, bar, pos)
           a == [today EXCEPT !.seen = @ + 1, !.high = high]
           b == [today EXCEPT !.traded = TRUE]
<1>1. /\ DOMAIN today = OrbFields /\ today.day = bar.day /\ today.traded \in BOOLEAN
      /\ bar.day = s.day /\ s.traded => today.traded
  BY DEF OrbFresh, OrbFields
<1>2. asks = (IF InRange(today) THEN Asks(a, NoOrder)
              ELSE IF BreaksOut(today, bar, pos) THEN Asks(b, Buy(OrderQty)) ELSE Asks(today, NoOrder))
  BY DEF OrbOnBar
<1> HIDE DEF today, high, asks
<1>3. DOMAIN a = OrbFields /\ a.day = today.day /\ a.traded = today.traded
  BY <1>1 DEF OrbFields
<1>4. DOMAIN b = OrbFields /\ b.day = today.day /\ b.traded = TRUE
  BY <1>1 DEF OrbFields
<1> HIDE DEF a, b
<1>5. \/ asks.next = a /\ asks.order = NoOrder
      \/ asks.next = b /\ asks.order = Buy(OrderQty) /\ ~ today.traded
      \/ asks.next = today /\ asks.order = NoOrder
  BY <1>2 DEF Asks, BreaksOut
<1> QED
  BY <1>1, <1>3, <1>4, <1>5 DEF asks

\* What is kept of the breakout strategy and the log.
OrbOK(r, day) ==
  /\ RunOK(r) /\ day \in Int
  /\ DOMAIN r.strategy = OrbFields /\ r.strategy.traded \in BOOLEAN
  /\ LogOK(r.orders, day)

(* An order is logged, taken or not, and leaves the strategy as it is.     *)
LEMMA OrbSubmit ==
  ASSUME name = Orb, NEW r, NEW old, OrbOK(r, old), NEW bar, bar.close \in Int, bar.day \in Int,
         old <= bar.day, NEW order, OrderOK(order, r.book.pos),
         order.side = "Buy" => ~ Tried(r.orders, bar.day)
  PROVE  LET new == Submit(r, order, bar)
         IN  /\ OrbOK(new, bar.day) /\ new.strategy = r.strategy
             /\ Tried(new.orders, bar.day) => Tried(r.orders, bar.day) \/ order.side = "Buy"
<1> DEFINE new == Submit(r, order, bar)
           taken == SubmitOk(order.side, order.qty, bar.close, r.book.cash, r.book.pos)
           e == Logged(order, taken, r.book.pos, bar)
<1>1. DOMAIN r = RunFields /\ r.book.pos \in Nat
  BY DEF OrbOK, RunOK, BookOK
<1>2. RunOK(new)
  BY SubmitOK DEF OrbOK
<1>3. taken \in BOOLEAN
  BY DEF SubmitOk
<1>4. order.side \in {"Buy", "Sell"} /\ order.qty \in Int
  BY <1>1 DEF OrderOK, SellAll, Order
<1>5. new.strategy = r.strategy /\ new.orders = Append(r.orders, e)
  <2>1. CASE taken
    <3>1. new.strategy = r.strategy /\ new.orders = Append(r.orders, Logged(order, TRUE, r.book.pos, bar))
      BY <1>1, <2>1 DEF Submit, RunFields, OnFill, Orb
    <3>2. taken = TRUE
      BY <1>3, <2>1
    <3> HIDE DEF new, taken
    <3> QED
      BY <3>1, <3>2
  <2>2. CASE ~ taken
    <3>1. new.strategy = r.strategy /\ new.orders = Append(r.orders, Logged(order, FALSE, r.book.pos, bar))
      BY <1>1, <2>2 DEF Submit, RunFields
    <3>2. taken = FALSE
      BY <1>3, <2>2
    <3> HIDE DEF new, taken
    <3> QED
      BY <3>1, <3>2
  <2> QED
    BY <2>1, <2>2
<1> HIDE DEF new, taken
<1>6. e \in Entries /\ e.day = bar.day /\ e.side = order.side
  BY <1>1, <1>3, <1>4 DEF Logged, Entries
<1> HIDE DEF e
<1>7. /\ LogOK(Append(r.orders, e), bar.day)
      /\ Tried(Append(r.orders, e), bar.day) => Tried(r.orders, bar.day) \/ order.side = "Buy"
  BY <1>6, LogAppend DEF OrbOK
<1> QED
  BY <1>2, <1>5, <1>7 DEF OrbOK, new

(* The end of a day sells, which is no try.                                *)
LEMMA OrbClose ==
  ASSUME name = Orb, NEW r, NEW bar, OrbOK(r, bar.day), bar.close \in Int
  PROVE  LET new == CloseDay(Flatten(r, bar), bar)
         IN  /\ OrbOK(new, bar.day) /\ new.strategy = r.strategy
             /\ Tried(new.orders, bar.day) => Tried(r.orders, bar.day)
<1> DEFINE flat == Flatten(r, bar)
<1>1. /\ OrbOK(flat, bar.day) /\ flat.strategy = r.strategy
      /\ Tried(flat.orders, bar.day) => Tried(r.orders, bar.day)
  <2>1. CASE r.book.pos <= 0
    BY <2>1 DEF Flatten
  <2>2. CASE ~ (r.book.pos <= 0)
    <3> DEFINE order == SellAll(r.book.pos)
    <3>1. flat = Submit(r, order, bar)
      BY <2>2 DEF Flatten
    <3>2. OrderOK(order, r.book.pos) /\ order.side # "Buy"
      BY DEF OrderOK, SellAll, Order
    <3>3. bar.day \in Int /\ bar.day <= bar.day
      BY DEF OrbOK
    <3> HIDE DEF flat, order
    <3> QED
      BY <3>1, <3>2, <3>3, OrbSubmit
  <2> QED
    BY <2>1, <2>2
<1> HIDE DEF flat
<1>2. RunOK(CloseDay(flat, bar))
  BY <1>1, CloseDayOK DEF OrbOK
<1>3. CloseDay(flat, bar).strategy = flat.strategy /\ CloseDay(flat, bar).orders = flat.orders
  BY <1>1 DEF OrbOK, RunOK, RunFields, CloseDay
<1>4. OrbOK(CloseDay(flat, bar), bar.day)
  BY <1>1, <1>2, <1>3 DEF OrbOK
<1> QED
  BY <1>1, <1>3, <1>4 DEF flat

(* A bar of a day on which a try was made finds it remembered.             *)
LEMMA OrbStrategyBar ==
  ASSUME name = Orb, NEW r, NEW old, OrbOK(r, old), NEW bar, bar.close \in Nat \ {0}, bar.day \in Int,
         old <= bar.day, Tried(r.orders, bar.day) => r.strategy.day = bar.day /\ r.strategy.traded
  PROVE  LET new == StrategyBar(r, bar)
         IN  /\ OrbOK(new, bar.day) /\ new.strategy.day = bar.day
             /\ Tried(new.orders, bar.day) => new.strategy.traded
<1> DEFINE asks == OrbOnBar(r.strategy, bar, r.book.pos)
           seen == [r EXCEPT !.strategy = asks.next]
           new == StrategyBar(r, bar)
<1>1. /\ RunOK(r) /\ DOMAIN r.strategy = OrbFields /\ r.strategy.traded \in BOOLEAN
      /\ LogOK(r.orders, old) /\ old \in Int
  BY DEF OrbOK
<1>2. new = IF asks.order = NoOrder THEN seen ELSE Submit(seen, asks.order, bar)
  BY DEF StrategyBar, OnBar, Orb
<1>3. /\ DOMAIN asks.next = OrbFields /\ asks.next.day = bar.day /\ asks.next.traded \in BOOLEAN
      /\ asks.order \in {NoOrder, Buy(OrderQty)}
      /\ bar.day = r.strategy.day /\ r.strategy.traded => asks.order = NoOrder /\ asks.next.traded
      /\ asks.order # NoOrder => asks.next.traded
  BY <1>1, OrbBar
<1> HIDE DEF asks, new
<1>4. SameBooks(r, seen) /\ seen.strategy = asks.next /\ seen.orders = r.orders
  BY <1>1 DEF RunOK, SameBooks, RunFields
<1> HIDE DEF seen
<1>5. OrbOK(seen, old) /\ OrbOK(seen, bar.day)
  <2>1. RunOK(seen)
    BY <1>1, <1>4, SameBooksOK
  <2>2. LogOK(r.orders, bar.day)
    <3>1. r.orders \in Seq(Entries) /\ OneTry(r.orders) /\ \A i \in DOMAIN r.orders : r.orders[i].day <= old
      BY <1>1 DEF LogOK
    <3>2. \A i \in DOMAIN r.orders : r.orders[i] \in Entries
      BY <3>1
    <3>3. \A x \in Entries : x.day \in Int
      BY DEF Entries
    <3>4. \A i \in DOMAIN r.orders : r.orders[i].day \in Int
      BY <3>2, <3>3
    <3>5. \A i \in DOMAIN r.orders : r.orders[i].day <= bar.day
      BY <1>1, <3>1, <3>4
    <3> QED
      BY <3>1, <3>5 DEF LogOK
  <2> QED
    BY <1>1, <1>3, <1>4, <2>1, <2>2 DEF OrbOK
<1>6. CASE asks.order = NoOrder
  <2>1. new = seen
    BY <1>2, <1>6
  <2>2. Tried(new.orders, bar.day) => new.strategy.traded
    BY <1>3, <1>4, <2>1
  <2> QED
    BY <1>3, <1>4, <1>5, <2>1, <2>2 DEF new
<1>7. CASE asks.order # NoOrder
  <2>1. new = Submit(seen, asks.order, bar)
    BY <1>2, <1>7
  <2>2. OrderOK(asks.order, seen.book.pos)
    <3>1. asks.order = Buy(OrderQty)
      BY <1>3, <1>7
    <3> QED
      BY <3>1, StrategiesAssumption DEF OrderOK, Buy, Order
  <2>3. ~ Tried(seen.orders, bar.day) /\ asks.next.traded
    BY <1>3, <1>4, <1>7
  <2>4. OrbOK(new, bar.day) /\ new.strategy = seen.strategy
    BY <1>1, <1>5, <2>1, <2>2, <2>3, OrbSubmit
  <2> QED
    BY <1>3, <1>4, <2>3, <2>4 DEF new
<1> QED
  BY <1>6, <1>7

OrbInv ==
  name = Orb => /\ OrbOK(bt, last.day)
                /\ last = NoBar => bt.orders = << >>
                /\ last # NoBar => /\ last.close \in Nat \ {0}
                                   /\ bt.strategy.day = last.day
                                   /\ Tried(bt.orders, last.day) => bt.strategy.traded

\* The log begins empty.
LEMMA InitOrb == Init => OrbInv
<1> SUFFICES ASSUME Init, name = Orb
             PROVE  OrbOK(bt, last.day) /\ last = NoBar /\ bt.orders = << >>
  BY DEF OrbInv
<1>1. last = NoBar /\ last.day = 0 /\ bt.orders = << >> /\ bt.strategy = OrbFresh
  BY DEF Init, NoBar, Fresh, Orb
<1>2. RunOK(bt)
  BY InitBook DEF BookInv
<1>3. DOMAIN OrbFresh = OrbFields /\ OrbFresh.traded \in BOOLEAN
  BY DEF OrbFresh, OrbFields
<1>4. LogOK(<< >>, 0)
  BY DEF LogOK, OneTry
<1> QED
  BY <1>1, <1>2, <1>3, <1>4 DEF OrbOK

\* Every turn keeps the log in order and the try remembered.
LEMMA NextOrb ==
  ASSUME BookInv, OrbInv, [Next]_backtestVars
  PROVE  OrbInv'
<1> DEFINE Remembers(r, bar) == r.strategy.day = bar.day /\ (Tried(r.orders, bar.day) => r.strategy.traded)
<1> SUFFICES ASSUME name' = Orb
             PROVE  /\ OrbOK(bt', last'.day)
                    /\ last' = NoBar => bt'.orders = << >>
                    /\ last' # NoBar => last'.close \in Nat \ {0} /\ Remembers(bt', last')
  BY DEF OrbInv, OrbOK, RunOK, BookOK, SameAccount, LogOK, OneTry
<1>1. name = Orb
  BY DEF Next, Bar, Finish, backtestVars
<1>2. /\ OrbOK(bt, last.day)
      /\ last = NoBar => bt.orders = << >>
      /\ last # NoBar => last.close \in Nat \ {0} /\ Remembers(bt, last)
  BY <1>1 DEF OrbInv
<1>3. ASSUME NEW time \in NextTimes, NEW shape \in Shapes,
             bt' = StrategyBar(NewDay(bt, BarOf(time, shape)), BarOf(time, shape)),
             last' = BarOf(time, shape)
      PROVE  OrbOK(bt', last'.day) /\ last' # NoBar /\ last'.close \in Nat \ {0} /\ Remembers(bt', last')
  <2> DEFINE bar == BarOf(time, shape)
             r == NewDay(bt, bar)
  <2>1. bar.close \in Nat \ {0} /\ bar # NoBar /\ bar.day = time[1]
    BY BacktestAssumption DEF BarOf, NoBar
  <2>2. last.day \in Int /\ DOMAIN bt = RunFields
    BY <1>2 DEF OrbOK, RunOK
  <2>3. IF last = NoBar THEN time[1] = 1 /\ last.day = 0
        ELSE time[1] = last.day \/ time[1] = last.day + 1
    BY DEF NextTimes, NoBar
  <2> HIDE DEF bar
  <2>4. bar.day \in Int /\ last.day <= bar.day /\ (last # NoBar /\ bar.day # last.day => last.day < bar.day)
    BY <2>1, <2>2, <2>3
  <2>5. OrbOK(r, last.day) /\ (Tried(r.orders, bar.day) => r.strategy.day = bar.day /\ r.strategy.traded)
    <3>1. CASE last = NoBar
      <4>1. r = bt /\ ~ Tried(bt.orders, bar.day)
        BY <1>2, <3>1 DEF NewDay, Tried
      <4> QED
        BY <1>2, <4>1
    <3>2. CASE last # NoBar /\ bar.day = last.day
      <4>1. r = bt
        BY <3>2 DEF NewDay
      <4> QED
        BY <1>2, <3>2, <4>1
    <3>3. CASE last # NoBar /\ bar.day # last.day
      <4>1. r = CloseDay(Flatten(bt, last), last)
        BY <3>3 DEF NewDay
      <4>2. last.close \in Int
        BY <1>2, <3>3
      <4>3. OrbOK(r, last.day)
        BY <1>1, <1>2, <4>1, <4>2, OrbClose
      <4> HIDE DEF r
      <4>4. ~ Tried(r.orders, bar.day)
        <5>1. \A i \in DOMAIN r.orders : r.orders[i].day <= last.day
          BY <4>3 DEF OrbOK, LogOK
        <5> QED
          BY <2>2, <2>4, <3>3, <5>1 DEF Tried
      <4> QED
        BY <4>3, <4>4
    <3> QED
      BY <3>1, <3>2, <3>3
  <2> HIDE DEF r
  <2> DEFINE after == StrategyBar(r, bar)
  <2>6. /\ OrbOK(after, bar.day) /\ after.strategy.day = bar.day
        /\ Tried(after.orders, bar.day) => after.strategy.traded
    BY <1>1, <2>1, <2>4, <2>5, OrbStrategyBar
  <2>7. bt' = after /\ last' = bar
    BY <1>3 DEF r, bar
  <2> HIDE DEF after
  <2> QED
    BY <2>1, <2>6, <2>7
<1>4. CASE Bar
  BY <1>3, <1>4 DEF Bar
<1>5. CASE Finish
  <2>1. last' = last
    BY <1>5 DEF Finish
  <2>2. CASE last = NoBar
    <3>1. bt' = bt
      BY <1>5, <2>2 DEF Finish
    <3> QED
      BY <1>2, <2>1, <2>2, <3>1
  <2>3. CASE last # NoBar
    <3> DEFINE new == CloseDay(Flatten(bt, last), last)
    <3>1. bt' = new
      BY <1>5, <2>3 DEF Finish
    <3>2. last.close \in Nat \ {0} /\ Remembers(bt, last)
      BY <1>2, <2>3
    <3>3. /\ OrbOK(new, last.day) /\ new.strategy = bt.strategy
          /\ Tried(new.orders, last.day) => Tried(bt.orders, last.day)
      BY <1>1, <1>2, <3>2, OrbClose
    <3> HIDE DEF new
    <3> QED
      BY <2>1, <2>3, <3>1, <3>2, <3>3
  <2> QED
    BY <2>2, <2>3
<1>6. CASE UNCHANGED backtestVars
  BY <1>2, <1>6 DEF backtestVars
<1> QED
  BY <1>4, <1>5, <1>6 DEF Next

(* The breakout strategy logs at most one buy a day, whether the exchange  *)
(* takes it or not, over any number of bars and days.                      *)
THEOREM BreakoutCorrect == Spec => []OneBreakoutADay
<1>1. OrbInv => OneBreakoutADay
  BY DEF OrbInv, OrbOK, LogOK, OneTry, OneBreakoutADay, Orb
<1>2. BookInv /\ [Next]_backtestVars => BookInv'
  BY NextBook
<1>3. BookInv /\ OrbInv /\ [Next]_backtestVars => OrbInv'
  BY NextOrb
<1> QED
  BY InitBook, InitOrb, <1>1, <1>2, <1>3, PTL DEF Spec

-------------------------------------------------------------------------------
(* The days of the result, and the log.                                    *)

Snapshots == [day : Int, realized : Int, fees : Int, fills : Int, trips : Int, wins : Int, equity : Int]

\* The counts of a book are integers.
CountsOK(b) == {b.cash, b.realized, b.fees, b.fills, b.trips, b.wins} \subseteq Int

Taken(log, day) == {i \in DOMAIN log : log[i].day = day /\ log[i].filled}

SumOver(days, field) == SumUpTo([i \in DOMAIN days |-> days[i][field]], Len(days))

InOrder(days) == \A i, j \in DOMAIN days : i < j => days[i].day < days[j].day

Counted(days, log) == \A i \in DOMAIN days : days[i].fills = Cardinality(Taken(log, days[i].day))

\* The days so far are the book as it was when the current day began.
AddUp(days, book) ==
  /\ SumOver(days, "realized") = book.realized
  /\ SumOver(days, "fees") = book.fees
  /\ SumOver(days, "fills") = book.fills

\* Nothing is logged after day d, and the days that have a snapshot are right.
DaysOK(r, d) ==
  /\ RunOK(r) /\ CountsOK(r.book) /\ CountsOK(r.dayStart) /\ d \in Int
  /\ r.orders \in Seq(Entries) /\ \A i \in DOMAIN r.orders : r.orders[i].day <= d
  /\ r.daily \in Seq(Snapshots) /\ InOrder(r.daily) /\ Counted(r.daily, r.orders)
  /\ AddUp(r.daily, r.dayStart)

\* While day d goes on, the book has made its fills since it began.
Open(r, d) ==
  /\ DaysOK(r, d) /\ \A i \in DOMAIN r.daily : r.daily[i].day < d
  /\ r.book.fills - r.dayStart.fills = Cardinality(Taken(r.orders, d))

\* When it has ended, all is in the snapshots.
Closed(r, d) ==
  /\ DaysOK(r, d) /\ \A i \in DOMAIN r.daily : r.daily[i].day <= d
  /\ r.dayStart = r.book

\* What every fill does to a book.
LEMMA FillBooked ==
  ASSUME NEW book, DOMAIN book = BookFields, NEW fill
  PROVE  LET b == ApplyFill(book, fill)
         IN  /\ b.cash = book.cash + fill.impact /\ b.fees = book.fees + fill.fees
             /\ b.fills = book.fills + 1
             /\ b.trips \in {book.trips, book.trips + 1} /\ b.wins \in {book.wins, book.wins + 1}
<1> DEFINE cash == book.cash + fill.impact
           fees == book.fees + fill.fees
           fills == book.fills + 1
           b == [book EXCEPT !.cash = cash, !.fees = fees, !.fills = fills]
           Same(c) == /\ c.cash = b.cash /\ c.fees = b.fees /\ c.fills = b.fills
                      /\ c.trips \in {b.trips, b.trips + 1} /\ c.wins \in {b.wins, b.wins + 1}
<1>1. ApplyFill(book, fill) = IF fill.side = "Buy" THEN BookBuy(b, fill) ELSE BookSell(b, fill)
  BY DEF ApplyFill
<1> HIDE DEF cash, fees, fills
<1>2. /\ DOMAIN b = BookFields /\ b.cash = cash /\ b.fees = fees /\ b.fills = fills
      /\ b.trips = book.trips /\ b.wins = book.wins
  BY DEF BookFields
<1> HIDE DEF b
<1>3. Same(BookBuy(b, fill))
  BY <1>2 DEF BookBuy, BookFields
<1>4. Same(BookSell(b, fill))
  BY <1>2 DEF BookSell, BookFields
<1>5. Same(ApplyFill(book, fill))
  BY Zenon, <1>1, <1>3, <1>4
<1> QED
  BY <1>2, <1>5 DEF cash, fees, fills

\* A set of entries of a log is finite.
LEMMA TakenFinite ==
  ASSUME NEW log \in Seq(Entries), NEW day
  PROVE  IsFiniteSet(Taken(log, day)) /\ Cardinality(Taken(log, day)) \in Nat
<1>1. DOMAIN log = 1 .. Len(log) /\ Len(log) \in Int
  OBVIOUS
<1>2. IsFiniteSet(1 .. Len(log))
  BY <1>1, FS_Interval
<1>3. Taken(log, day) \subseteq 1 .. Len(log)
  BY <1>1 DEF Taken
<1> QED
  BY <1>2, <1>3, FS_Subset, FS_CardinalityType

\* An entry counts on its day, if it is filled, and on no other.
LEMMA TakenAppend ==
  ASSUME NEW log \in Seq(Entries), NEW e \in Entries
  PROVE  /\ Append(log, e) \in Seq(Entries)
         /\ \A d : d # e.day => Taken(Append(log, e), d) = Taken(log, d)
         /\ Cardinality(Taken(Append(log, e), e.day))
              = Cardinality(Taken(log, e.day)) + (IF e.filled THEN 1 ELSE 0)
<1> DEFINE new == Append(log, e)
           n == Len(log) + 1
<1>1. /\ new \in Seq(Entries) /\ Len(log) \in Nat /\ DOMAIN log = 1 .. Len(log)
      /\ DOMAIN new = 1 .. n /\ \A i \in DOMAIN log : new[i] = log[i]
      /\ new[n] = e
  OBVIOUS
<1>2. n \notin DOMAIN log /\ DOMAIN new = DOMAIN log \cup {n}
  BY <1>1
<1>3. e.filled \in BOOLEAN
  BY DEF Entries
<1> HIDE DEF new, n
<1>4. ASSUME NEW d, d # e.day
      PROVE  Taken(new, d) = Taken(log, d)
  BY <1>1, <1>2, <1>4 DEF Taken
<1>5. Taken(new, e.day) = IF e.filled THEN Taken(log, e.day) \cup {n} ELSE Taken(log, e.day)
  BY <1>1, <1>2 DEF Taken
<1>6. n \notin Taken(log, e.day)
  BY <1>2 DEF Taken
<1>7. Cardinality(Taken(log, e.day) \cup {n}) = Cardinality(Taken(log, e.day)) + 1
  BY <1>6, TakenFinite, FS_AddElement
<1>8. Cardinality(Taken(log, e.day)) \in Nat
  BY TakenFinite
<1>9. Cardinality(Taken(new, e.day)) = Cardinality(Taken(log, e.day)) + (IF e.filled THEN 1 ELSE 0)
  <2>1. CASE e.filled
    BY <1>5, <1>7, <2>1
  <2>2. CASE ~ e.filled
    BY <1>5, <1>8, <2>2
  <2> QED
    BY <2>1, <2>2
<1> QED
  BY Zenon, <1>1, <1>4, <1>9 DEF new

Takes(r, order, bar) == SubmitOk(order.side, order.qty, bar.close, r.book.cash, r.book.pos)

\* What an order makes of a run: e is its entry.
SubmitIs(new, r, order, bar, e) ==
  /\ e = Logged(order, Takes(r, order, bar), r.book.pos, bar)
  /\ e \in Entries /\ e.filled = Takes(r, order, bar) /\ e.day = bar.day
  /\ new.orders = Append(r.orders, e)
  /\ new.daily = r.daily /\ new.dayStart = r.dayStart
  /\ new.book = IF e.filled THEN ApplyFill(r.book, Fill(order.side, order.qty, bar.close, r.book.avg))
                ELSE r.book

\* An order is logged, and booked if it is taken; the days are left alone.
LEMMA SubmitParts ==
  ASSUME NEW r, RunOK(r), NEW order, OrderOK(order, r.book.pos), NEW bar, bar.day \in Int
  PROVE  SubmitIs(Submit(r, order, bar), r, order, bar, Logged(order, Takes(r, order, bar), r.book.pos, bar))
<1> DEFINE new == Submit(r, order, bar)
           taken == Takes(r, order, bar)
           fill == Fill(order.side, order.qty, bar.close, r.book.avg)
           e == Logged(order, taken, r.book.pos, bar)
<1>1. DOMAIN r = RunFields /\ r.book.pos \in Nat
  BY DEF RunOK, BookOK
<1>2. taken \in BOOLEAN
  BY DEF SubmitOk, Takes
<1>3. order.side \in {"Buy", "Sell"} /\ order.qty \in Int
  BY <1>1 DEF OrderOK, SellAll, Order
<1>4. CASE taken
  <2>1. /\ new.orders = Append(r.orders, Logged(order, TRUE, r.book.pos, bar))
        /\ new.daily = r.daily /\ new.dayStart = r.dayStart /\ new.book = ApplyFill(r.book, fill)
    BY <1>1, <1>4 DEF Submit, Takes, RunFields
  <2>2. taken = TRUE
    BY <1>2, <1>4
  <2> HIDE DEF new, taken, fill
  <2>3. e \in Entries /\ e.filled = taken /\ e.day = bar.day
    BY <1>1, <1>2, <1>3 DEF Logged, Entries
  <2> QED
    BY Zenon, <1>2, <1>4, <2>1, <2>2, <2>3 DEF SubmitIs, new, taken, fill, e
<1>5. CASE ~ taken
  <2>1. /\ new.orders = Append(r.orders, Logged(order, FALSE, r.book.pos, bar))
        /\ new.daily = r.daily /\ new.dayStart = r.dayStart /\ new.book = r.book
    BY <1>1, <1>5 DEF Submit, Takes, RunFields
  <2>2. taken = FALSE
    BY <1>2, <1>5
  <2> HIDE DEF new, taken, fill
  <2>3. e \in Entries /\ e.filled = taken /\ e.day = bar.day
    BY <1>1, <1>2, <1>3 DEF Logged, Entries
  <2> QED
    BY Zenon, <1>2, <1>5, <2>1, <2>2, <2>3 DEF SubmitIs, new, taken, fill, e
<1> QED
  BY <1>4, <1>5

\* What a fill moves in cash is a whole number of paise.
LEMMA ImpactInt ==
  ASSUME NEW side \in Sides, NEW qty \in Nat \ {0}, NEW close \in Int, NEW avg \in Int
  PROVE  Fill(side, qty, close, avg).impact \in Int
<1> DEFINE price == FillPrice(side, close)
           bfees == BuyFees(price, qty)
           sfees == SellFees(price, qty)
           entry == IF avg > 0 THEN avg ELSE price
<1>1. price \in Int
  BY ExchangeAssumption DEF FillPrice, Larger
<1> HIDE DEF price
<1>2. bfees \in Int /\ sfees \in Int
  BY <1>1, FeesType
<1>3. ASSUME NEW p \in Int PROVE Margin(p, qty) \in Int
  <2>1. p * qty \in Int /\ Leverage \in Nat \ {0}
    BY ExchangeAssumption
  <2> QED
    BY <2>1, DivInt DEF Margin
<1>4. entry \in Int
  BY <1>1
<1> HIDE DEF bfees, sfees, entry
<1>5. Margin(price, qty) + bfees \in Int /\ -(Margin(price, qty) + bfees) \in Int
  BY <1>1, <1>2, <1>3
<1>6. Margin(entry, qty) + (price * qty - entry * qty - sfees) \in Int
  <2>1. price * qty \in Int /\ entry * qty \in Int /\ Margin(entry, qty) \in Int
    BY <1>1, <1>3, <1>4
  <2> QED
    BY <1>2, <2>1
<1>7. CASE side = "Buy"
  <2>1. Fill(side, qty, close, avg).impact = -(Margin(price, qty) + bfees)
    BY <1>7 DEF Fill, price, bfees
  <2> QED
    BY <1>5, <2>1
<1>8. CASE side # "Buy"
  <2>1. Fill(side, qty, close, avg).impact = Margin(entry, qty) + (price * qty - entry * qty - sfees)
    BY <1>8 DEF Fill, SaleProceeds, price, sfees, entry
  <2> QED
    BY <1>6, <2>1
<1> QED
  BY <1>7, <1>8

\* A book keeps its counts, with one more fill if the order is taken.
LEMMA SubmitCounts ==
  ASSUME NEW r, RunOK(r), CountsOK(r.book), NEW order, OrderOK(order, r.book.pos),
         NEW bar, bar.day \in Int, bar.close \in Int
  PROVE  LET new == Submit(r, order, bar)
         IN  /\ CountsOK(new.book)
             /\ new.book.fills = r.book.fills + (IF Takes(r, order, bar) THEN 1 ELSE 0)
<1> DEFINE new == Submit(r, order, bar)
           taken == Takes(r, order, bar)
           fill == Fill(order.side, order.qty, bar.close, r.book.avg)
<1>1. new.book = IF taken THEN ApplyFill(r.book, fill) ELSE r.book
  BY SubmitParts DEF SubmitIs
<1>2. RunOK(new)
  BY SubmitOK
<1>3. new.book.realized \in Int
  BY <1>2 DEF RunOK, BookOK
<1>4. ASSUME taken
      PROVE  fill.fees \in Int /\ fill.impact \in Int
  <2>1. r.book.pos \in Nat /\ r.book.avg \in Int
    BY DEF RunOK, BookOK
  <2>2. order.side \in Sides /\ order.qty \in Nat \ {0}
    BY <1>4, <2>1 DEF OrderOK, SellAll, Order, Sides, SubmitOk, Takes
  <2> QED
    BY <2>1, <2>2, ImpactInt, FillType DEF FillOK
<1> HIDE DEF new, fill, taken
<1>5. CASE taken
  <2> DEFINE b == ApplyFill(r.book, fill)
  <2>1. DOMAIN r.book = BookFields
    BY DEF RunOK, BookOK
  <2>2. /\ b.cash = r.book.cash + fill.impact /\ b.fees = r.book.fees + fill.fees
        /\ b.fills = r.book.fills + 1
        /\ b.trips \in {r.book.trips, r.book.trips + 1} /\ b.wins \in {r.book.wins, r.book.wins + 1}
    BY <2>1, FillBooked
  <2>3. new.book = b
    BY <1>1, <1>5
  <2> HIDE DEF b
  <2>4. CountsOK(b)
    BY <1>3, <1>4, <1>5, <2>2, <2>3 DEF CountsOK
  <2> QED
    BY <1>5, <2>2, <2>3, <2>4 DEF new, taken
<1>6. CASE ~ taken
  <2>1. new.book = r.book /\ r.book.fills \in Int
    BY <1>1, <1>6 DEF CountsOK
  <2> QED
    BY <1>6, <2>1 DEF new, taken
<1> QED
  BY <1>5, <1>6

\* An order on day d counts on day d.
LEMMA SubmitOpen ==
  ASSUME NEW r, NEW bar, Open(r, bar.day), bar.close \in Int, NEW order, OrderOK(order, r.book.pos)
  PROVE  Open(Submit(r, order, bar), bar.day)
<1> DEFINE new == Submit(r, order, bar)
           taken == Takes(r, order, bar)
           e == Logged(order, taken, r.book.pos, bar)
           d == bar.day
<1>1. /\ RunOK(r) /\ CountsOK(r.book) /\ CountsOK(r.dayStart) /\ d \in Int
      /\ r.orders \in Seq(Entries) /\ \A i \in DOMAIN r.orders : r.orders[i].day <= d
      /\ r.daily \in Seq(Snapshots) /\ InOrder(r.daily) /\ Counted(r.daily, r.orders)
      /\ AddUp(r.daily, r.dayStart) /\ \A i \in DOMAIN r.daily : r.daily[i].day < d
      /\ r.book.fills - r.dayStart.fills = Cardinality(Taken(r.orders, d))
  BY DEF Open, DaysOK
<1>2. /\ taken \in BOOLEAN /\ e \in Entries /\ e.filled = taken /\ e.day = d
      /\ new.orders = Append(r.orders, e) /\ new.daily = r.daily /\ new.dayStart = r.dayStart
  <2>1. SubmitIs(new, r, order, bar, e)
    BY <1>1, SubmitParts
  <2>2. taken \in BOOLEAN
    BY DEF Takes, SubmitOk
  <2> HIDE DEF new, taken, e
  <2> QED
    BY <2>1, <2>2 DEF SubmitIs, taken
<1>3. CountsOK(new.book) /\ new.book.fills = r.book.fills + (IF taken THEN 1 ELSE 0)
  BY <1>1, SubmitCounts
<1>4. RunOK(new)
  BY <1>1, SubmitOK
<1> HIDE DEF new, taken, e, d
<1>5. /\ new.orders \in Seq(Entries)
      /\ \A x : x # d => Taken(new.orders, x) = Taken(r.orders, x)
      /\ Cardinality(Taken(new.orders, d)) = Cardinality(Taken(r.orders, d)) + (IF taken THEN 1 ELSE 0)
  BY <1>1, <1>2, TakenAppend
<1>6. \A i \in DOMAIN new.orders : new.orders[i].day <= d
  <2>1. /\ DOMAIN new.orders = DOMAIN r.orders \cup {Len(r.orders) + 1} /\ new.orders[Len(r.orders) + 1] = e
        /\ \A i \in DOMAIN r.orders : new.orders[i] = r.orders[i]
    BY <1>1, <1>2
  <2> QED
    BY <1>1, <1>2, <2>1
<1>7. Counted(new.daily, new.orders)
  <2>1. \A i \in DOMAIN r.daily : r.daily[i].day \in Int
    <3>1. \A i \in DOMAIN r.daily : r.daily[i] \in Snapshots
      BY <1>1
    <3> QED
      BY <3>1 DEF Snapshots
  <2>2. \A i \in DOMAIN r.daily : r.daily[i].day # d
    BY <1>1, <2>1
  <2> QED
    BY <1>1, <1>2, <1>5, <2>2 DEF Counted
<1>8. new.book.fills - new.dayStart.fills = Cardinality(Taken(new.orders, d))
  <2>1. Cardinality(Taken(r.orders, d)) \in Nat
    BY <1>1, TakenFinite
  <2>2. r.book.fills \in Int /\ r.dayStart.fills \in Int
    BY <1>1 DEF CountsOK
  <2> QED
    BY <1>1, <1>2, <1>3, <1>5, <2>1, <2>2
<1> QED
  BY <1>1, <1>2, <1>3, <1>4, <1>5, <1>6, <1>7, <1>8 DEF Open, DaysOK, new, d

\* So does the sale at its end.
LEMMA FlattenOpen ==
  ASSUME NEW r, NEW bar, Open(r, bar.day), bar.close \in Int
  PROVE  Open(Flatten(r, bar), bar.day)
BY SubmitOpen DEF Flatten, OrderOK

\* A total with one more day.
LEMMA SumAppend ==
  ASSUME NEW days \in Seq(Snapshots), NEW s \in Snapshots, NEW field \in {"realized", "fees", "fills"}
  PROVE  SumOver(Append(days, s), field) = SumOver(days, field) + s[field] /\ SumOver(days, field) \in Int
<1> DEFINE more == Append(days, s)
           n == Len(days)
           f == [i \in 1 .. n |-> days[i][field]]
           g == [i \in 1 .. (n + 1) |-> more[i][field]]
<1>1. /\ n \in Nat /\ DOMAIN days = 1 .. n /\ DOMAIN more = 1 .. (n + 1) /\ Len(more) = n + 1
      /\ \A i \in 1 .. n : more[i] = days[i] /\ days[i] \in Snapshots
      /\ more[n + 1] = s /\ \A i \in 1 .. (n + 1) : more[i] \in Snapshots
  OBVIOUS
<1>2. \A x \in Snapshots : x[field] \in Int
  BY DEF Snapshots
<1>3. SumOver(days, field) = SumUpTo(f, n) /\ SumOver(more, field) = SumUpTo(g, n + 1)
  BY <1>1 DEF SumOver
<1> HIDE DEF more, n
<1>4. f \in [1 .. n -> Int] /\ g \in [1 .. (n + 1) -> Int] /\ \A i \in 1 .. n : g[i] = f[i]
  BY <1>1, <1>2
<1>5. g[n + 1] = s[field]
  BY <1>1
<1> HIDE DEF f, g
<1>6. SumUpTo(g, n + 1) = SumUpTo(f, n) + g[n + 1] /\ SumUpTo(f, n) \in Int
  BY <1>1, <1>4, SumExtend, SumType
<1> QED
  BY <1>3, <1>5, <1>6 DEF more

\* Marking a book gives a whole number of paise.
LEMMA MarkedInt ==
  ASSUME NEW b, BookOK(b), CountsOK(b), NEW bar, bar.close \in Int
  PROVE  MarkedEquity(b, bar) \in Int
<1>1. b.cash \in Int /\ b.pos \in Nat /\ b.avg \in Int
  BY DEF BookOK, CountsOK
<1>2. Leverage \in Nat \ {0}
  BY ExchangeAssumption
<1>3. b.avg * b.pos * (Leverage - 1) \in Int
  <2>1. b.avg * b.pos \in Int /\ Leverage - 1 \in Int
    BY <1>1, <1>2
  <2> QED
    BY <2>1
<1>4. (b.avg * b.pos * (Leverage - 1)) \div Leverage \in Int
  BY <1>2, <1>3, DivInt
<1>5. bar.close * b.pos \in Int
  BY <1>1
<1> QED
  BY <1>1, <1>4, <1>5 DEF MarkedEquity

\* The snapshot of a day has what the book gained on it.
LEMMA SnapshotType ==
  ASSUME NEW r, NEW bar, Open(r, bar.day), bar.close \in Int
  PROVE  LET s == Snapshot(r, bar)
         IN  /\ s \in Snapshots /\ s.day = bar.day
             /\ s.realized = r.book.realized - r.dayStart.realized
             /\ s.fees = r.book.fees - r.dayStart.fees
             /\ s.fills = r.book.fills - r.dayStart.fills
<1>1. BookOK(r.book) /\ CountsOK(r.book) /\ CountsOK(r.dayStart) /\ bar.day \in Int
  BY DEF Open, DaysOK, RunOK
<1>2. MarkedEquity(r.book, bar) \in Int
  BY <1>1, MarkedInt
<1> QED
  BY <1>1, <1>2 DEF Snapshot, Snapshots, CountsOK

\* The end of a day puts it into the snapshots.
LEMMA CloseDayClosed ==
  ASSUME NEW r, NEW bar, Open(r, bar.day), bar.close \in Int
  PROVE  Closed(CloseDay(r, bar), bar.day)
<1> DEFINE new == CloseDay(r, bar)
           s == Snapshot(r, bar)
           d == bar.day
           n == Len(r.daily) + 1
<1>1. /\ RunOK(r) /\ CountsOK(r.book) /\ CountsOK(r.dayStart) /\ d \in Int
      /\ r.orders \in Seq(Entries) /\ \A i \in DOMAIN r.orders : r.orders[i].day <= d
      /\ r.daily \in Seq(Snapshots) /\ InOrder(r.daily) /\ Counted(r.daily, r.orders)
      /\ AddUp(r.daily, r.dayStart) /\ \A i \in DOMAIN r.daily : r.daily[i].day < d
      /\ r.book.fills - r.dayStart.fills = Cardinality(Taken(r.orders, d))
  BY DEF Open, DaysOK
<1>2. /\ s \in Snapshots /\ s.day = d
      /\ s.realized = r.book.realized - r.dayStart.realized
      /\ s.fees = r.book.fees - r.dayStart.fees
      /\ s.fills = r.book.fills - r.dayStart.fills
  BY SnapshotType
<1>3. RunOK(new)
  BY <1>1, CloseDayOK
<1>4. DOMAIN r = RunFields
  BY <1>1 DEF RunOK
<1>5. /\ new.daily = Append(r.daily, s) /\ new.dayStart = r.book
      /\ new.book = r.book /\ new.orders = r.orders
  BY <1>4 DEF CloseDay, RunFields
<1> HIDE DEF new, s, d, n
<1>6. /\ new.daily \in Seq(Snapshots) /\ DOMAIN new.daily = DOMAIN r.daily \cup {n} /\ new.daily[n] = s
      /\ \A i \in DOMAIN r.daily : new.daily[i] = r.daily[i]
      /\ n \notin DOMAIN r.daily /\ \A i \in DOMAIN r.daily : i < n /\ ~ (n < i)
      /\ ~ (n < n) /\ n \in Int
  BY <1>1, <1>2, <1>5 DEF n
<1>7. \A i \in DOMAIN r.daily : r.daily[i].day \in Int
  <2>1. \A i \in DOMAIN r.daily : r.daily[i] \in Snapshots
    BY <1>1
  <2> QED
    BY <2>1 DEF Snapshots
<1>8. InOrder(new.daily)
  BY <1>1, <1>2, <1>6, <1>7 DEF InOrder
<1>9. Counted(new.daily, new.orders)
  BY <1>1, <1>2, <1>5, <1>6 DEF Counted
<1>10. \A i \in DOMAIN new.daily : new.daily[i].day <= d
  BY <1>1, <1>2, <1>6, <1>7
<1>11. AddUp(new.daily, r.book)
  <2>1. /\ SumOver(new.daily, "realized") = SumOver(r.daily, "realized") + s.realized
        /\ SumOver(new.daily, "fees") = SumOver(r.daily, "fees") + s.fees
        /\ SumOver(new.daily, "fills") = SumOver(r.daily, "fills") + s.fills
    BY <1>1, <1>2, <1>5, SumAppend
  <2>2. /\ {r.book.realized, r.book.fees, r.book.fills} \subseteq Int
        /\ {r.dayStart.realized, r.dayStart.fees, r.dayStart.fills} \subseteq Int
    BY <1>1 DEF CountsOK
  <2> QED
    BY <1>1, <1>2, <2>1, <2>2 DEF AddUp
<1> QED
  BY <1>1, <1>3, <1>5, <1>6, <1>8, <1>9, <1>10, <1>11 DEF Closed, DaysOK, new, d

\* A later day begins with nothing on it.
LEMMA Reopen ==
  ASSUME NEW r, NEW d, Closed(r, d), NEW e \in Int, d < e
  PROVE  Open(r, e)
<1>1. DaysOK(r, d) /\ \A i \in DOMAIN r.daily : r.daily[i].day <= d
  BY DEF Closed
<1>2. /\ d \in Int /\ r.orders \in Seq(Entries) /\ \A i \in DOMAIN r.orders : r.orders[i].day <= d
      /\ r.daily \in Seq(Snapshots) /\ CountsOK(r.book) /\ r.dayStart = r.book
  BY DEF Closed, DaysOK
<1>3. \A i \in DOMAIN r.orders : r.orders[i].day \in Int
  <2>1. \A i \in DOMAIN r.orders : r.orders[i] \in Entries
    BY <1>2
  <2> QED
    BY <2>1 DEF Entries
<1>4. \A i \in DOMAIN r.daily : r.daily[i].day \in Int
  <2>1. \A i \in DOMAIN r.daily : r.daily[i] \in Snapshots
    BY <1>2
  <2> QED
    BY <2>1 DEF Snapshots
<1>5. Taken(r.orders, e) = {}
  BY <1>2, <1>3 DEF Taken
<1>6. r.book.fills - r.dayStart.fills = Cardinality(Taken(r.orders, e))
  BY <1>2, <1>5, FS_EmptySet DEF CountsOK
<1>7. DaysOK(r, e)
  BY <1>1, <1>2, <1>3 DEF DaysOK
<1> QED
  BY <1>1, <1>2, <1>4, <1>6, <1>7 DEF Open

\* The strategy at a bar leaves the days alone, but for its order.
LEMMA StrategyBarOpen ==
  ASSUME NEW r, NEW bar, Open(r, bar.day), bar.close \in Nat \ {0}, name \in StrategyNames
  PROVE  Open(StrategyBar(r, bar), bar.day)
<1> DEFINE outcome == OnBar(name, r.strategy, bar, r.book.pos)
           seen == [r EXCEPT !.strategy = outcome.next]
<1>1. outcome.order = NoOrder \/ OrderOK(outcome.order, r.book.pos)
  BY OrdersOK
<1>2. StrategyBar(r, bar) = IF outcome.order = NoOrder THEN seen ELSE Submit(seen, outcome.order, bar)
  BY DEF StrategyBar
<1> HIDE DEF outcome
<1>3. /\ SameBooks(r, seen) /\ seen.orders = r.orders /\ seen.daily = r.daily
      /\ seen.dayStart = r.dayStart /\ seen.book = r.book
  BY DEF Open, DaysOK, RunOK, SameBooks, RunFields
<1> HIDE DEF seen
<1>4. RunOK(seen)
  BY <1>3, SameBooksOK DEF Open, DaysOK
<1>5. Open(seen, bar.day)
  BY <1>3, <1>4 DEF Open, DaysOK
<1> QED
  BY <1>1, <1>2, <1>3, <1>5, SubmitOpen

DaysInv == IF last = NoBar \/ over THEN Closed(bt, last.day) ELSE Open(bt, last.day)

\* A run begins between its days.
LEMMA InitDays == Init => DaysInv
<1> SUFFICES ASSUME Init PROVE DaysInv
  OBVIOUS
<1>0. last = NoBar /\ last.day = 0
  BY DEF Init, NoBar
<1>1. bt.book = EmptyBook /\ bt.dayStart = EmptyBook /\ bt.orders = << >> /\ bt.daily = << >>
  BY DEF Init
<1>2. RunOK(bt)
  BY InitBook DEF BookInv
<1>3. CountsOK(EmptyBook)
  BY BacktestAssumption DEF CountsOK, EmptyBook
<1>4. ASSUME NEW field PROVE SumOver(<< >>, field) = 0
  <2> DEFINE f == [i \in 1 .. 0 |-> << >>[i][field]]
  <2>1. SumOver(<< >>, field) = SumUpTo(f, 0)
    BY DEF SumOver
  <2>2. f \in [1 .. 0 -> Int] /\ \A k \in 1 .. 0 : f[k] = 0
    OBVIOUS
  <2> HIDE DEF f
  <2> QED
    BY <2>1, <2>2, SumOfZeros
<1>5. AddUp(<< >>, EmptyBook)
  BY <1>4 DEF AddUp, EmptyBook
<1>6. InOrder(<< >>) /\ Counted(<< >>, << >>)
  BY DEF InOrder, Counted
<1>7. Closed(bt, 0)
  BY <1>1, <1>2, <1>3, <1>5, <1>6 DEF Closed, DaysOK
<1> QED
  BY <1>0, <1>7 DEF DaysInv

\* The day of the next bar is the day of the last, or a later one.
LEMMA NextDayIs ==
  ASSUME last.day \in Int, NEW time \in NextTimes
  PROVE  /\ time[1] \in Int
         /\ last = NoBar => last.day < time[1]
         /\ last # NoBar => last.day <= time[1]
<1>1. IF last = NoBar THEN time[1] = 1 /\ last.day = 0
      ELSE time[1] = last.day \/ time[1] = last.day + 1
  BY DEF NextTimes, NoBar
<1> QED
  BY <1>1

\* A bar finds its day open.
LEMMA NewDayOpen ==
  ASSUME DaysInv, ~ over, last.close \in Int, NEW bar, bar.day \in Int,
         last = NoBar => last.day < bar.day, last # NoBar => last.day <= bar.day
  PROVE  Open(NewDay(bt, bar), bar.day)
<1>1. CASE last = NoBar
  <2>1. Closed(bt, last.day) /\ NewDay(bt, bar) = bt
    BY <1>1 DEF DaysInv, NewDay
  <2> QED
    BY <1>1, <2>1, Reopen
<1>2. CASE last # NoBar /\ bar.day = last.day
  BY <1>2 DEF DaysInv, NewDay
<1>3. CASE last # NoBar /\ bar.day # last.day
  <2> DEFINE flat == Flatten(bt, last)
  <2>1. Open(bt, last.day) /\ NewDay(bt, bar) = CloseDay(flat, last)
    BY <1>3 DEF DaysInv, NewDay
  <2>2. Open(flat, last.day)
    BY <2>1, FlattenOpen
  <2>3. last.day \in Int
    BY <2>1 DEF Open, DaysOK
  <2> HIDE DEF flat
  <2>4. Closed(CloseDay(flat, last), last.day)
    BY <2>2, CloseDayClosed
  <2>5. last.day < bar.day
    BY <1>3, <2>3
  <2> QED
    BY <2>1, <2>4, <2>5, Reopen
<1> QED
  BY <1>1, <1>2, <1>3

\* Every turn keeps the days right.
LEMMA NextDays ==
  ASSUME BookInv, DaysInv, [Next]_backtestVars
  PROVE  DaysInv'
<1>1. name \in StrategyNames /\ last.close \in Int
  BY DEF BookInv
<1>2. last.day \in Int
  BY DEF DaysInv, Open, Closed, DaysOK
<1>3. ASSUME ~ over, over' = over, NEW time \in NextTimes, NEW shape \in Shapes,
             bt' = StrategyBar(NewDay(bt, BarOf(time, shape)), BarOf(time, shape)),
             last' = BarOf(time, shape)
      PROVE  DaysInv'
  <2> DEFINE bar == BarOf(time, shape)
             r == NewDay(bt, bar)
  <2>1. bar.close \in Nat \ {0} /\ bar # NoBar /\ bar.day = time[1]
    BY BacktestAssumption DEF BarOf, NoBar
  <2> HIDE DEF bar
  <2>2. /\ bar.day \in Int /\ (last = NoBar => last.day < bar.day)
        /\ last # NoBar => last.day <= bar.day
    BY <1>2, <2>1, NextDayIs
  <2>3. Open(r, bar.day)
    BY <1>1, <1>3, <2>2, NewDayOpen
  <2>4. Open(StrategyBar(r, bar), bar.day)
    BY <1>1, <2>1, <2>3, StrategyBarOpen
  <2>5. bt' = StrategyBar(r, bar) /\ last' = bar
    BY <1>3 DEF r, bar
  <2> HIDE DEF r
  <2> QED
    BY <1>3, <2>1, <2>4, <2>5 DEF DaysInv
<1>4. CASE Bar
  BY <1>3, <1>4 DEF Bar
<1>5. CASE Finish
  <2>1. over' /\ ~ over /\ last' = last
    BY <1>5 DEF Finish
  <2>2. CASE last = NoBar
    <3>1. bt' = bt
      BY <1>5, <2>2 DEF Finish
    <3> QED
      BY <2>1, <2>2, <3>1 DEF DaysInv
  <2>3. CASE last # NoBar
    <3> DEFINE flat == Flatten(bt, last)
    <3>1. bt' = CloseDay(flat, last)
      BY <1>5, <2>3 DEF Finish
    <3>2. Open(flat, last.day)
      BY <1>1, <2>1, <2>3, FlattenOpen DEF DaysInv
    <3> HIDE DEF flat
    <3>3. Closed(CloseDay(flat, last), last.day)
      BY <1>1, <3>2, CloseDayClosed
    <3> QED
      BY <2>1, <2>3, <3>1, <3>3 DEF DaysInv
  <2> QED
    BY <2>2, <2>3
<1>6. CASE UNCHANGED backtestVars
  BY <1>6 DEF backtestVars, DaysInv
<1> QED
  BY <1>4, <1>5, <1>6 DEF Next

(* The days of a result are its parts, for any strategy, prices and number *)
(* of days: each has the fills the log has on it, none comes twice, and at *)
(* the end they add up to the book.                                        *)
THEOREM DaysCorrect == Spec => []DaysMatchTheLog
<1>1. DaysInv => DaysMatchTheLog
  <2> SUFFICES ASSUME DaysInv PROVE DaysMatchTheLog
    OBVIOUS
  <2>1. DaysOK(bt, last.day) /\ (over => bt.dayStart = bt.book)
    BY DEF DaysInv, Open, Closed
  <2>2. \A day : FillsOn(day) = Taken(bt.orders, day)
    BY DEF FillsOn, Taken
  <2>3. \A i \in DOMAIN bt.daily : bt.daily[i].fills = Cardinality(FillsOn(bt.daily[i].day))
    BY <2>1, <2>2 DEF DaysOK, Counted
  <2>4. \A i, j \in DOMAIN bt.daily : i < j => bt.daily[i].day < bt.daily[j].day
    BY <2>1 DEF DaysOK, InOrder
  <2>5. over => AddUp(bt.daily, bt.book)
    BY <2>1 DEF DaysOK
  <2>6. \A field : SumOfDays(field) = SumOver(bt.daily, field)
    BY DEF SumOfDays, SumOver
  <2> QED
    BY <2>3, <2>4, <2>5, <2>6 DEF DaysMatchTheLog, AddUp
<1>2. BookInv /\ [Next]_backtestVars => BookInv'
  BY NextBook
<1>3. BookInv /\ DaysInv /\ [Next]_backtestVars => DaysInv'
  BY NextDays
<1> QED
  BY InitBook, InitDays, <1>1, <1>2, <1>3, PTL DEF Spec

-------------------------------------------------------------------------------
(* What the book has, and what its result says it has.                     *)

\* The margin of what is held counts as cash, the fees of its buys as not yet paid.
Gap(b) == b.cash - StartingCapital - b.realized + b.entryFees + ((b.avg * b.pos) \div Leverage)

\* The book is off by at most k, and knows what its shares have cost.
GapOK(b, k) ==
  /\ b.avg \in Nat /\ (b.pos > 0 => b.avg > 0)
  /\ Gap(b) \in Int /\ -k <= Gap(b) /\ Gap(b) <= k

RoundsAt(order) == IF AddsTo(order) THEN order.held + order.qty ELSE 0

Rounds(log) == SumUpTo([i \in DOMAIN log |-> RoundsAt(log[i])], Len(log))

\* An order adds what it may be rounded by.
LEMMA RoundsAppend ==
  ASSUME NEW log \in Seq(Entries), NEW e \in Entries
  PROVE  Rounds(Append(log, e)) = Rounds(log) + RoundsAt(e) /\ Rounds(log) \in Int /\ RoundsAt(e) \in Int
<1> DEFINE more == Append(log, e)
           n == Len(log)
           f == [i \in 1 .. n |-> RoundsAt(log[i])]
           g == [i \in 1 .. (n + 1) |-> RoundsAt(more[i])]
<1>1. /\ n \in Nat /\ DOMAIN log = 1 .. n /\ DOMAIN more = 1 .. (n + 1) /\ Len(more) = n + 1
      /\ \A i \in 1 .. n : more[i] = log[i] /\ log[i] \in Entries
      /\ more[n + 1] = e /\ \A i \in 1 .. (n + 1) : more[i] \in Entries
  OBVIOUS
<1>2. \A x \in Entries : RoundsAt(x) \in Int
  BY DEF Entries, RoundsAt, AddsTo
<1>3. Rounds(log) = SumUpTo(f, n) /\ Rounds(more) = SumUpTo(g, n + 1)
  BY <1>1 DEF Rounds
<1> HIDE DEF more, n
<1>4. f \in [1 .. n -> Int] /\ g \in [1 .. (n + 1) -> Int] /\ \A i \in 1 .. n : g[i] = f[i]
  BY <1>1, <1>2
<1>5. g[n + 1] = RoundsAt(e)
  BY <1>1
<1> HIDE DEF f, g
<1>6. SumUpTo(g, n + 1) = SumUpTo(f, n) + g[n + 1] /\ SumUpTo(f, n) \in Int
  BY <1>1, <1>4, SumExtend, SumType
<1> QED
  BY <1>2, <1>3, <1>5, <1>6 DEF more

\* A mean of prices is a price, and its margin that of its parts, but for the rounding.
LEMMA MeanMargin ==
  ASSUME NEW avg \in Nat \ {0}, NEW pos \in Nat \ {0}, NEW price \in Nat \ {0}, NEW qty \in Nat \ {0}
  PROVE  LET n    == pos + qty
             x    == avg * pos
             y    == price * qty
             mean == (x + y) \div n
         IN  /\ mean \in Nat \ {0}
             /\ (mean * n) \div Leverage <= (x \div Leverage) + (y \div Leverage) + n
             /\ (x \div Leverage) + (y \div Leverage) <= ((mean * n) \div Leverage) + n
<1> DEFINE n == pos + qty
           x == avg * pos
           y == price * qty
           mean == (x + y) \div n
           z == mean * n
           left == (x + y) - z
<1>1. x \in Nat /\ y \in Nat /\ n \in Nat \ {0} /\ n >= 1 /\ Leverage \in Nat \ {0} /\ x + y \in Nat
  BY ExchangeAssumption
<1>2. n <= x + y
  <2>1. x >= pos /\ y >= qty
    BY AtLeast
  <2> HIDE DEF x, y
  <2> QED
    BY <1>1, <2>1 DEF n
<1> HIDE DEF x, y, n
<1>3. mean \in Nat /\ n * mean <= x + y /\ x + y < n * (mean + 1)
  BY <1>1, Quotient
<1> HIDE DEF mean
<1>4. mean # 0
  BY <1>1, <1>2, <1>3
<1>5. z \in Nat /\ z <= x + y /\ x + y < z + n
  <2>1. n * mean = z /\ n * (mean + 1) = z + n /\ z \in Nat
    BY <1>1, <1>3
  <2> QED
    BY <1>3, <2>1
<1> HIDE DEF z
<1>6. left \in Nat /\ left < n /\ z + left = x + y
  BY <1>1, <1>5
<1> HIDE DEF left
<1>7. /\ z \div Leverage <= (z + left) \div Leverage
      /\ (z + left) \div Leverage <= (z \div Leverage) + left
  BY <1>1, <1>5, <1>6, QuotientGrows
<1>8. /\ (x \div Leverage) + (y \div Leverage) <= (x + y) \div Leverage
      /\ (x + y) \div Leverage <= (x \div Leverage) + (y \div Leverage) + 1
  BY <1>1, QuotientSplits
<1>9. PICK p, q, r, t \in Nat : /\ p = x \div Leverage /\ q = y \div Leverage
                                /\ r = (x + y) \div Leverage /\ t = z \div Leverage
  BY <1>1, <1>5, DivNat
<1>10. t <= r /\ r <= t + left /\ p + q <= r /\ r <= p + q + 1
  BY <1>6, <1>7, <1>8, <1>9
<1>11. t <= p + q + n /\ p + q <= t + n
  BY <1>1, <1>6, <1>9, <1>10
<1> QED
  BY <1>3, <1>4, <1>9, <1>11 DEF x, y, n, mean, z

\* The terms of a buy.
BuyIs(fill, qty) ==
  /\ FillOK(fill) /\ fill.side = "Buy" /\ fill.qty = qty /\ fill.price \in Nat \ {0}
  /\ fill.impact = -(((fill.price * qty) \div Leverage) + fill.fees)

\* And of a sale of shares that have cost avg each.
SellIs(fill, qty, avg) ==
  /\ FillOK(fill) /\ fill.side = "Sell" /\ fill.qty = qty
  /\ fill.impact = ((avg * qty) \div Leverage) + (fill.price * qty - avg * qty - fill.fees)

\* The fills of the exchange are on those terms.
LEMMA FillIs ==
  ASSUME NEW qty \in Nat \ {0}, NEW close \in Int, NEW avg \in Int
  PROVE  /\ close > 0 => BuyIs(Fill("Buy", qty, close, avg), qty)
         /\ avg > 0 => SellIs(Fill("Sell", qty, close, avg), qty, avg)
<1> DEFINE buy == Fill("Buy", qty, close, avg)
           sell == Fill("Sell", qty, close, avg)
<1>1. FillOK(buy) /\ buy.side = "Buy" /\ buy.qty = qty /\ buy.price = FillPrice("Buy", close)
  BY FillType DEF Sides
<1>2. FillOK(sell) /\ sell.side = "Sell" /\ sell.qty = qty
  BY FillType DEF Sides
<1>3. buy.impact = -(Margin(buy.price, qty) + buy.fees)
  BY DEF Fill
<1>4. sell.impact = SaleProceeds(sell.price, qty, sell.fees, avg)
  BY DEF Fill
<1>5. ASSUME close > 0 PROVE buy.price \in Nat \ {0}
  BY <1>1, <1>5, ExchangeAssumption DEF FillPrice
<1> HIDE DEF buy, sell
<1>6. ASSUME close > 0 PROVE BuyIs(buy, qty)
  BY <1>1, <1>3, <1>5, <1>6 DEF BuyIs, Margin
<1>7. ASSUME avg > 0 PROVE SellIs(sell, qty, avg)
  BY <1>2, <1>4, <1>7 DEF SellIs, SaleProceeds, Margin
<1> QED
  BY <1>6, <1>7 DEF buy, sell

\* A buy is off by its rounding, if it adds.
LEMMA BuyGap ==
  ASSUME NEW b, BookOK(b), b.cash \in Int, NEW k \in Int, GapOK(b, k),
         NEW fill, NEW qty \in Nat \ {0}, BuyIs(fill, qty)
  PROVE  GapOK(ApplyFill(b, fill), k + (IF b.pos > 0 THEN b.pos + qty ELSE 0))
<1> DEFINE n == b.pos + qty
           x == b.avg * b.pos
           y == fill.price * qty
           mean == (x + y) \div n
           mid == [b EXCEPT !.cash = @ + fill.impact, !.fees = @ + fill.fees, !.fills = @ + 1]
           new == BookBuy(mid, fill)
<1>1. /\ DOMAIN b = BookFields /\ b.pos \in Nat /\ b.avg \in Nat /\ (b.pos > 0 => b.avg > 0)
      /\ b.entryFees \in Int /\ b.realized \in Int /\ b.cash \in Int
      /\ (b.pos = 0 => b.entryFees = 0) /\ Gap(b) \in Int /\ -k <= Gap(b) /\ Gap(b) <= k
  BY DEF BookOK, GapOK
<1>2. /\ fill.side = "Buy" /\ fill.qty = qty /\ fill.price \in Nat \ {0} /\ fill.fees \in Int
      /\ fill.impact = -((y \div Leverage) + fill.fees)
  BY DEF BuyIs, FillOK
<1>3. /\ DOMAIN mid = BookFields /\ mid.cash = b.cash + fill.impact /\ mid.pos = b.pos
      /\ mid.avg = b.avg /\ mid.entryFees = b.entryFees /\ mid.realized = b.realized
  BY <1>1 DEF BookFields
<1>4. ApplyFill(b, fill) = new
  BY <1>2 DEF ApplyFill
<1> HIDE DEF mid
<1>5. /\ new.cash = b.cash + fill.impact /\ new.pos = n /\ new.realized = b.realized
      /\ new.avg = (IF b.pos = 0 THEN fill.price ELSE mean)
      /\ new.entryFees = (IF b.pos = 0 THEN fill.fees ELSE b.entryFees + fill.fees)
  BY <1>2, <1>3 DEF BookBuy, BookFields
<1> HIDE DEF new
<1>6. /\ StartingCapital \in Int /\ Leverage \in Nat \ {0} /\ x \in Nat /\ y \in Nat
      /\ x \div Leverage \in Nat /\ y \div Leverage \in Nat /\ n \in Nat \ {0}
  <2>1. StartingCapital \in Int /\ Leverage \in Nat \ {0} /\ x \in Nat /\ y \in Nat /\ n \in Nat \ {0}
    BY <1>1, <1>2, BacktestAssumption, ExchangeAssumption
  <2> HIDE DEF x, y, n
  <2> QED
    BY <2>1, DivNat
<1>7. Gap(b) = b.cash - StartingCapital - b.realized + b.entryFees + (x \div Leverage)
  BY DEF Gap
<1>8. Gap(new) = new.cash - StartingCapital - new.realized + new.entryFees + ((new.avg * n) \div Leverage)
  BY <1>5 DEF Gap
<1>9. CASE b.pos = 0
  <2>1. new.avg = fill.price /\ n = qty /\ new.entryFees = fill.fees /\ b.entryFees = 0
    BY <1>1, <1>5, <1>9
  <2>2. new.avg * n = y
    BY <2>1
  <2>3. x = 0 /\ 0 \div Leverage = 0
    BY <1>1, <1>6, <1>9, NoQuotient
  <2> HIDE DEF x, y, n
  <2>4. PICK q \in Nat : q = y \div Leverage
    BY <1>6
  <2>5. Gap(new) = Gap(b)
    BY <1>1, <1>2, <1>5, <1>6, <1>7, <1>8, <2>1, <2>2, <2>3, <2>4
  <2>6. GapOK(new, k)
    BY <1>1, <1>2, <2>1, <2>5 DEF GapOK
  <2>7. k + (IF b.pos > 0 THEN b.pos + qty ELSE 0) = k
    BY <1>9
  <2> QED
    BY <1>4, <2>6, <2>7
<1>10. CASE b.pos # 0
  <2>1. b.pos \in Nat \ {0} /\ b.avg \in Nat \ {0}
    BY <1>1, <1>10
  <2>2. /\ mean \in Nat \ {0}
        /\ (mean * n) \div Leverage <= (x \div Leverage) + (y \div Leverage) + n
        /\ (x \div Leverage) + (y \div Leverage) <= ((mean * n) \div Leverage) + n
    BY <1>2, <2>1, MeanMargin
  <2>3. new.avg = mean /\ new.entryFees = b.entryFees + fill.fees
    BY <1>5, <1>10
  <2> HIDE DEF x, y, n, mean
  <2>4. (mean * n) \div Leverage \in Nat
    <3>1. mean * n \in Nat
      BY <1>6, <2>2
    <3> QED
      BY <1>6, <3>1, DivNat
  <2>5. PICK p, q, t \in Nat : p = x \div Leverage /\ q = y \div Leverage /\ t = (mean * n) \div Leverage
    BY <1>6, <2>4
  <2>6. t <= p + q + n /\ p + q <= t + n
    BY <2>2, <2>5
  <2>7. Gap(new) = Gap(b) + (t - (p + q))
    BY <1>1, <1>2, <1>5, <1>6, <1>7, <1>8, <2>3, <2>5
  <2>8. -(k + n) <= Gap(new) /\ Gap(new) <= k + n /\ Gap(new) \in Int
    BY <1>1, <1>6, <2>5, <2>6, <2>7
  <2>9. GapOK(new, k + n)
    BY <2>2, <2>3, <2>8 DEF GapOK
  <2>10. k + (IF b.pos > 0 THEN b.pos + qty ELSE 0) = k + n
    BY <2>1 DEF n
  <2> QED
    BY <1>4, <2>9, <2>10
<1> QED
  BY <1>9, <1>10

\* A sale of all that is held moves the book and its result alike.
LEMMA SellGap ==
  ASSUME NEW b, BookOK(b), b.cash \in Int, NEW k \in Int, GapOK(b, k), b.pos > 0,
         NEW fill, SellIs(fill, b.pos, b.avg)
  PROVE  GapOK(ApplyFill(b, fill), k)
<1> DEFINE x == b.avg * b.pos
           y == fill.price * b.pos
           mid == [b EXCEPT !.cash = @ + fill.impact, !.fees = @ + fill.fees, !.fills = @ + 1]
           new == BookSell(mid, fill)
<1>1. /\ DOMAIN b = BookFields /\ b.pos \in Nat /\ b.avg \in Nat
      /\ b.entryFees \in Int /\ b.realized \in Int /\ b.cash \in Int
      /\ Gap(b) \in Int /\ -k <= Gap(b) /\ Gap(b) <= k
  BY DEF BookOK, GapOK
<1>2. /\ fill.side = "Sell" /\ fill.qty = b.pos /\ fill.price \in Int /\ fill.fees \in Int
      /\ fill.impact = (x \div Leverage) + (y - x - fill.fees)
  BY DEF SellIs, FillOK
<1>3. /\ DOMAIN mid = BookFields /\ mid.cash = b.cash + fill.impact /\ mid.pos = b.pos
      /\ mid.avg = b.avg /\ mid.entryFees = b.entryFees /\ mid.realized = b.realized
  BY <1>1 DEF BookFields
<1>4. ApplyFill(b, fill) = new
  BY <1>2 DEF ApplyFill
<1> HIDE DEF mid
<1>5. /\ new.cash = b.cash + fill.impact /\ new.pos = 0 /\ new.avg = 0 /\ new.entryFees = 0
      /\ new.realized = b.realized + (y - x - fill.fees - b.entryFees)
  BY <1>2, <1>3 DEF BookSell, BookFields
<1> HIDE DEF new
<1>6. /\ StartingCapital \in Int /\ Leverage \in Nat \ {0} /\ x \in Nat /\ y \in Int
      /\ x \div Leverage \in Nat
  <2>1. StartingCapital \in Int /\ Leverage \in Nat \ {0} /\ x \in Nat /\ y \in Int
    BY <1>1, <1>2, BacktestAssumption, ExchangeAssumption
  <2> HIDE DEF x, y
  <2> QED
    BY <2>1, DivNat
<1>7. Gap(b) = b.cash - StartingCapital - b.realized + b.entryFees + (x \div Leverage)
  BY DEF Gap
<1>8. Gap(new) = new.cash - StartingCapital - new.realized + new.entryFees + 0
  <2>1. new.avg * new.pos = 0 /\ 0 \div Leverage = 0
    BY <1>5, <1>6, NoQuotient
  <2> QED
    BY <2>1 DEF Gap
<1> HIDE DEF x, y
<1>9. PICK p \in Nat : p = x \div Leverage
  BY <1>6
<1>10. Gap(new) = Gap(b)
  BY <1>1, <1>2, <1>5, <1>6, <1>7, <1>8, <1>9
<1>11. GapOK(new, k)
  BY <1>1, <1>5, <1>10 DEF GapOK
<1> QED
  BY <1>4, <1>11

SquareOK(r) ==
  /\ RunOK(r) /\ CountsOK(r.book) /\ r.orders \in Seq(Entries)
  /\ GapOK(r.book, Rounds(r.orders))

\* An order moves the book off its result by no more than its rounding.
LEMMA SubmitSquare ==
  ASSUME NEW r, SquareOK(r), NEW order, OrderOK(order, r.book.pos), NEW bar, bar.day \in Int,
         bar.close \in Int, order.side = "Buy" => bar.close > 0
  PROVE  SquareOK(Submit(r, order, bar))
<1> DEFINE new == Submit(r, order, bar)
           taken == Takes(r, order, bar)
           e == Logged(order, taken, r.book.pos, bar)
           fill == Fill(order.side, order.qty, bar.close, r.book.avg)
           k == Rounds(r.orders)
           b == r.book
<1>1. /\ RunOK(r) /\ CountsOK(b) /\ r.orders \in Seq(Entries) /\ GapOK(b, k) /\ BookOK(b)
      /\ b.pos \in Nat /\ b.avg \in Int /\ b.cash \in Int
  BY DEF SquareOK, RunOK, BookOK, CountsOK
<1>2. SubmitIs(new, r, order, bar, e)
  BY <1>1, SubmitParts
<1>3. RunOK(new) /\ CountsOK(new.book)
  BY <1>1, SubmitOK, SubmitCounts
<1>4. e.side = order.side /\ e.qty = order.qty /\ e.held = b.pos /\ e.filled = taken /\ taken \in BOOLEAN
  BY DEF Logged, Takes, SubmitOk
<1>5. taken => /\ order.side \in Sides /\ order.qty \in Nat \ {0}
               /\ order.side = "Sell" => order.qty = b.pos /\ b.pos > 0
  BY <1>1 DEF OrderOK, SellAll, Order, Sides, SubmitOk, Takes
<1> HIDE DEF new, taken, e
<1>6. /\ new.orders = Append(r.orders, e) /\ e \in Entries
      /\ new.book = IF e.filled THEN ApplyFill(b, fill) ELSE b
  BY <1>2 DEF SubmitIs, fill, b
<1> HIDE DEF b
<1>7. /\ new.orders \in Seq(Entries) /\ Rounds(new.orders) = k + RoundsAt(e)
      /\ k \in Int /\ RoundsAt(e) \in Int
  BY <1>1, <1>6, RoundsAppend
<1> HIDE DEF k
<1>8. GapOK(new.book, k + RoundsAt(e))
  <2>1. CASE ~ taken
    <3>1. new.book = b /\ RoundsAt(e) = 0
      BY <1>4, <1>6, <2>1 DEF RoundsAt, AddsTo
    <3> QED
      BY <1>1, <1>7, <3>1
  <2>2. CASE taken /\ order.side = "Buy"
    <3> DEFINE qty == order.qty
    <3>1. qty \in Nat \ {0} /\ bar.close > 0
      BY <1>5, <2>2
    <3>2. BuyIs(fill, qty)
      BY <1>1, <2>2, <3>1, FillIs DEF b
    <3>3. RoundsAt(e) = IF b.pos > 0 THEN b.pos + qty ELSE 0
      BY <1>4, <2>2 DEF RoundsAt, AddsTo
    <3>4. new.book = ApplyFill(b, fill)
      BY <1>4, <1>6, <2>2
    <3> HIDE DEF fill, qty
    <3> QED
      BY <1>1, <1>7, <3>1, <3>2, <3>3, <3>4, BuyGap
  <2>3. CASE taken /\ order.side = "Sell"
    <3>1. order.qty = b.pos /\ b.pos > 0 /\ b.avg > 0 /\ b.pos \in Nat \ {0}
      BY <1>1, <1>5, <2>3 DEF GapOK
    <3>2. SellIs(fill, b.pos, b.avg)
      BY <1>1, <2>3, <3>1, FillIs DEF b
    <3>3. RoundsAt(e) = 0
      BY <1>4, <2>3 DEF RoundsAt, AddsTo
    <3>4. new.book = ApplyFill(b, fill)
      BY <1>4, <1>6, <2>3
    <3> HIDE DEF fill
    <3>5. GapOK(new.book, k)
      BY <1>1, <1>7, <3>1, <3>2, <3>4, SellGap
    <3> QED
      BY <1>7, <3>3, <3>5
  <2> QED
    BY <1>4, <1>5, <2>1, <2>2, <2>3 DEF Sides
<1> QED
  BY <1>3, <1>7, <1>8 DEF SquareOK, new

\* Flattening keeps that, and leaves no shares.
LEMMA FlattenSquare ==
  ASSUME NEW r, SquareOK(r), NEW bar, bar.day \in Int, bar.close \in Int
  PROVE  SquareOK(Flatten(r, bar)) /\ Flatten(r, bar).book.pos = 0
<1>1. RunOK(r) /\ BookOK(r.book) /\ r.book.pos \in Nat /\ DOMAIN r.book = BookFields
  BY DEF SquareOK, RunOK, BookOK
<1>2. CASE r.book.pos <= 0
  BY <1>1, <1>2 DEF Flatten
<1>3. CASE ~ (r.book.pos <= 0)
  <2> DEFINE order == SellAll(r.book.pos)
             new == Submit(r, order, bar)
             e == Logged(order, Takes(r, order, bar), r.book.pos, bar)
             fill == Fill(order.side, order.qty, bar.close, r.book.avg)
             mid == [r.book EXCEPT !.cash = @ + fill.impact, !.fees = @ + fill.fees, !.fills = @ + 1]
  <2>1. Flatten(r, bar) = new /\ OrderOK(order, r.book.pos) /\ order.side = "Sell"
    BY <1>3 DEF Flatten, OrderOK, SellAll, Order
  <2>2. SquareOK(new)
    <3> HIDE DEF order
    <3> QED
      BY <2>1, SubmitSquare
  <2>3. SubmitIs(new, r, order, bar, e)
    <3> HIDE DEF order
    <3> QED
      BY <1>1, <2>1, SubmitParts
  <2>4. Takes(r, order, bar)
    BY <1>1, <1>3 DEF Takes, SubmitOk, SellAll, Order
  <2>5. fill.side = "Sell"
    BY <2>1 DEF Fill
  <2> HIDE DEF order, new, e, fill
  <2>6. new.book = ApplyFill(r.book, fill)
    BY <2>3, <2>4 DEF SubmitIs, fill
  <2>7. ApplyFill(r.book, fill) = BookSell(mid, fill)
    BY <2>5 DEF ApplyFill
  <2>8. DOMAIN mid = BookFields
    BY <1>1
  <2> HIDE DEF mid
  <2>9. BookSell(mid, fill).pos = 0
    BY <2>8 DEF BookSell, BookFields
  <2> QED
    BY <2>1, <2>2, <2>6, <2>7, <2>9
<1> QED
  BY <1>2, <1>3

\* The end of a day moves nothing.
LEMMA CloseDaySquare ==
  ASSUME NEW r, SquareOK(r), NEW bar
  PROVE  SquareOK(CloseDay(r, bar)) /\ CloseDay(r, bar).book = r.book
<1>1. RunOK(CloseDay(r, bar))
  BY CloseDayOK DEF SquareOK
<1>2. CloseDay(r, bar).book = r.book /\ CloseDay(r, bar).orders = r.orders
  BY DEF SquareOK, RunOK, RunFields, CloseDay
<1> QED
  BY <1>1, <1>2 DEF SquareOK

\* Nor does the strategy, but for its order.
LEMMA StrategyBarSquare ==
  ASSUME NEW r, SquareOK(r), NEW bar, bar.day \in Int, bar.close \in Nat \ {0}, name \in StrategyNames
  PROVE  SquareOK(StrategyBar(r, bar))
<1> DEFINE outcome == OnBar(name, r.strategy, bar, r.book.pos)
           seen == [r EXCEPT !.strategy = outcome.next]
<1>1. outcome.order = NoOrder \/ OrderOK(outcome.order, r.book.pos)
  BY OrdersOK
<1>2. StrategyBar(r, bar) = IF outcome.order = NoOrder THEN seen ELSE Submit(seen, outcome.order, bar)
  BY DEF StrategyBar
<1> HIDE DEF outcome
<1>3. SameBooks(r, seen) /\ seen.orders = r.orders /\ seen.book = r.book
  BY DEF SquareOK, RunOK, SameBooks, RunFields
<1> HIDE DEF seen
<1>4. RunOK(seen)
  BY <1>3, SameBooksOK DEF SquareOK
<1>5. SquareOK(seen)
  BY <1>3, <1>4 DEF SquareOK
<1> QED
  BY <1>1, <1>2, <1>3, <1>5, SubmitSquare

\* What is marked without shares is the cash.
LEMMA MarkedFlat ==
  ASSUME NEW b, BookOK(b), CountsOK(b), b.pos = 0, NEW bar, bar.close \in Int
  PROVE  MarkedEquity(b, bar) = b.cash
<1>1. Leverage \in Nat \ {0} /\ b.avg \in Int /\ b.cash \in Int
  BY ExchangeAssumption DEF BookOK, CountsOK
<1>2. b.avg * b.pos = 0 /\ bar.close * b.pos = 0
  BY <1>1
<1>3. b.avg * b.pos * (Leverage - 1) = 0
  BY <1>1, <1>2
<1>4. 0 \div Leverage = 0
  BY <1>1, NoQuotient
<1> QED
  BY <1>1, <1>2, <1>3, <1>4 DEF MarkedEquity

SquareInv ==
  /\ SquareOK(bt) /\ DOMAIN curve = {"equity", "peak", "drawdown"}
  /\ last = NoBar => bt.book = EmptyBook /\ curve.equity = StartingCapital
  /\ over => bt.book.pos = 0 /\ curve.equity = bt.book.cash

\* A run begins square.
LEMMA InitSquare == Init => SquareInv
<1> SUFFICES ASSUME Init PROVE SquareInv
  OBVIOUS
<1>1. /\ bt.book = EmptyBook /\ bt.orders = << >> /\ ~ over /\ curve.equity = StartingCapital
      /\ DOMAIN curve = {"equity", "peak", "drawdown"}
  BY DEF Init
<1>2. RunOK(bt)
  BY InitBook DEF BookInv
<1>3. CountsOK(EmptyBook) /\ StartingCapital \in Nat
  BY BacktestAssumption DEF CountsOK, EmptyBook
<1>4. Rounds(<< >>) = 0
  <2> DEFINE f == [i \in 1 .. 0 |-> RoundsAt(<< >>[i])]
  <2>1. Rounds(<< >>) = SumUpTo(f, 0)
    BY DEF Rounds
  <2>2. f \in [1 .. 0 -> Int] /\ \A k \in 1 .. 0 : f[k] = 0
    OBVIOUS
  <2> HIDE DEF f
  <2> QED
    BY <2>1, <2>2, SumOfZeros
<1>5. Gap(EmptyBook) = 0
  <2>1. 0 * 0 = 0 /\ 0 \div Leverage = 0
    BY ExchangeAssumption, NoQuotient
  <2> QED
    BY <1>3, <2>1 DEF Gap, EmptyBook
<1>6. GapOK(EmptyBook, 0)
  <2>1. EmptyBook.avg = 0 /\ EmptyBook.pos = 0
    BY DEF EmptyBook
  <2> QED
    BY <1>5, <2>1 DEF GapOK
<1> QED
  BY <1>1, <1>2, <1>3, <1>4, <1>6 DEF SquareInv, SquareOK

\* Every turn keeps it so.
LEMMA NextSquare ==
  ASSUME BookInv, DaysInv, SquareInv, [Next]_backtestVars
  PROVE  SquareInv'
<1>1. name \in StrategyNames /\ last.close \in Int
  BY DEF BookInv
<1>2. last.day \in Int
  BY DEF DaysInv, Open, Closed, DaysOK
<1>3. /\ SquareOK(bt) /\ DOMAIN curve = {"equity", "peak", "drawdown"}
      /\ last = NoBar => bt.book = EmptyBook /\ curve.equity = StartingCapital
      /\ over => bt.book.pos = 0 /\ curve.equity = bt.book.cash
  BY DEF SquareInv
<1>4. ASSUME Bar PROVE SquareInv'
  <2>1. PICK time \in NextTimes, shape \in Shapes :
          /\ bt' = StrategyBar(NewDay(bt, BarOf(time, shape)), BarOf(time, shape))
          /\ last' = BarOf(time, shape) /\ DOMAIN curve' = {"equity", "peak", "drawdown"}
    BY <1>4 DEF Bar
  <2> DEFINE bar == BarOf(time, shape)
             r == NewDay(bt, bar)
  <2>2. bar.close \in Nat \ {0} /\ bar # NoBar /\ bar.day = time[1]
    BY BacktestAssumption DEF BarOf, NoBar
  <2> HIDE DEF bar
  <2>3. bar.day \in Int
    BY <1>2, <2>2, NextDayIs
  <2>4. SquareOK(r)
    <3>1. SquareOK(Flatten(bt, last))
      BY <1>1, <1>2, <1>3, FlattenSquare
    <3>2. SquareOK(CloseDay(Flatten(bt, last), last))
      BY <3>1, CloseDaySquare
    <3> QED
      BY <1>3, <3>2 DEF NewDay
  <2> HIDE DEF r
  <2>5. SquareOK(StrategyBar(r, bar))
    BY <1>1, <2>2, <2>3, <2>4, StrategyBarSquare
  <2>6. bt' = StrategyBar(r, bar) /\ last' = bar /\ ~ over'
    BY <1>4, <2>1 DEF r, bar, Bar
  <2> QED
    BY <2>1, <2>2, <2>5, <2>6 DEF SquareInv
<1>5. ASSUME Finish PROVE SquareInv'
  <2>1. over' /\ ~ over /\ last' = last
    BY <1>5 DEF Finish
  <2>2. CASE last = NoBar
    <3>1. bt' = bt /\ curve' = curve
      BY <1>5, <2>2 DEF Finish
    <3>2. bt.book.pos = 0 /\ curve.equity = bt.book.cash
      BY <1>3, <2>2 DEF EmptyBook
    <3> QED
      BY <1>3, <2>1, <3>1, <3>2 DEF SquareInv
  <2>3. CASE last # NoBar
    <3> DEFINE flat == Flatten(bt, last)
               new == CloseDay(flat, last)
    <3>1. bt' = new /\ curve' = [curve EXCEPT !.equity = MarkedEquity(bt'.book, last)]
      BY <1>5, <2>3 DEF Finish
    <3>2. SquareOK(flat) /\ flat.book.pos = 0
      BY <1>1, <1>2, <1>3, FlattenSquare
    <3> HIDE DEF flat
    <3>3. SquareOK(new) /\ new.book.pos = 0
      BY <3>2, CloseDaySquare
    <3> HIDE DEF new
    <3>4. MarkedEquity(new.book, last) = new.book.cash
      BY <1>1, <3>3, MarkedFlat DEF SquareOK, RunOK
    <3>5. curve'.equity = new.book.cash /\ DOMAIN curve' = {"equity", "peak", "drawdown"}
      BY <1>3, <3>1, <3>4
    <3> QED
      BY <2>1, <2>3, <3>1, <3>3, <3>5 DEF SquareInv
  <2> QED
    BY <2>2, <2>3
<1>6. CASE UNCHANGED backtestVars
  BY <1>3, <1>6 DEF backtestVars, SquareInv
<1> QED
  BY <1>4, <1>5, <1>6 DEF Next

(* A run ends with what it began with and its result, to the paisa but for *)
(* the buys that added to a position, for every strategy, leverage, fees,  *)
(* prices and any number of bars.                                          *)
THEOREM SquareCorrect == Spec => []EndsSquare
<1>1. SquareInv => EndsSquare
  <2> SUFFICES ASSUME SquareInv, over
               PROVE  /\ bt.book.pos = 0
                      /\ (curve.equity - StartingCapital) - bt.book.realized \in -Rounding .. Rounding
    BY DEF EndsSquare
  <2> DEFINE b == bt.book
             k == Rounds(bt.orders)
  <2>1. /\ BookOK(b) /\ CountsOK(b) /\ GapOK(b, k) /\ b.pos = 0 /\ curve.equity = b.cash
        /\ bt.orders \in Seq(Entries)
    BY DEF SquareInv, SquareOK, RunOK
  <2>2. b.cash \in Int /\ b.realized \in Int /\ b.entryFees = 0 /\ b.avg \in Int /\ StartingCapital \in Int
    BY <2>1, BacktestAssumption DEF BookOK, CountsOK
  <2>3. k \in Int
    <3>1. PICK e : e = [day |-> 0, side |-> "Buy", filled |-> FALSE, qty |-> 0, held |-> 0]
      OBVIOUS
    <3>2. e \in Entries
      BY <3>1 DEF Entries
    <3> QED
      BY <2>1, <3>2, RoundsAppend
  <2>4. Rounding = k
    BY DEF Rounding, Rounds, RoundsAt
  <2>5. (b.avg * b.pos) \div Leverage = 0
    <3>1. b.avg * b.pos = 0 /\ 0 \div Leverage = 0
      BY <2>1, <2>2, ExchangeAssumption, NoQuotient
    <3> QED
      BY <3>1
  <2>6. Gap(b) = b.cash - StartingCapital - b.realized + b.entryFees + 0
    BY <2>5 DEF Gap
  <2>7. Gap(b) \in Int /\ -k <= Gap(b) /\ Gap(b) <= k
    BY <2>1 DEF GapOK
  <2> HIDE DEF b, k
  <2>8. (curve.equity - StartingCapital) - b.realized \in -k .. k
    BY <2>1, <2>2, <2>3, <2>6, <2>7
  <2> QED
    BY <2>1, <2>4, <2>8 DEF b
<1>2. BookInv /\ [Next]_backtestVars => BookInv'
  BY NextBook
<1>3. BookInv /\ DaysInv /\ [Next]_backtestVars => DaysInv'
  BY NextDays
<1>4. BookInv /\ DaysInv /\ SquareInv /\ [Next]_backtestVars => SquareInv'
  BY NextSquare
<1> QED
  BY InitBook, InitDays, InitSquare, <1>1, <1>2, <1>3, <1>4, PTL DEF Spec
===============================================================================
