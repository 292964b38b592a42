--------------------------- MODULE TradingDesk_proofs ---------------------------
(***************************************************************************)
(* Containers, risk engine and ledger agree on who runs, who holds shares  *)
(* and what was earned, for any number of containers, any symbols, prices, *)
(* fees and limits, and whatever the strategies decide; what truncation    *)
(* can make or lose is bounded; and a run of them is squared off on every  *)
(* day and leaves nothing behind.                                          *)
(***************************************************************************)
EXTENDS TradingRun, Ledger_proofs

FillGood(fill) ==
  /\ fill.side \in Sides /\ fill.qty \in Nat \ {0} /\ fill.price \in Nat
  /\ fill.fees \in Int /\ fill.impact \in Int

-------------------------------------------------------------------------------
(* Prices, fees and holdings.                                              *)

\* The fees of either side are whole paise.
LEMMA FeesInt ==
  ASSUME NEW price \in Int, NEW qty \in Int
  PROVE  BuyFees(price, qty) \in Int /\ SellFees(price, qty) \in Int
<1>1. ASSUME NEW amount \in Int, NEW rate \in Nat
      PROVE  Millionths(amount, rate) \in Int
  <2>1. amount * rate + 500000 \in Int
    OBVIOUS
  <2>2. (amount * rate + 500000) \div 1000000 \in Int
    BY <2>1, DivInt
  <2> QED
    BY <2>2 DEF Millionths
<1>2. FlatFee \in Int
  <2>1. Brokerage * GstPercent + 50 \in Int /\ Brokerage \in Int
    BY ExchangeAssumption
  <2>2. (Brokerage * GstPercent + 50) \div 100 \in Int
    BY <2>1, DivInt
  <2> QED
    BY <2>1, <2>2 DEF FlatFee
<1>3. price * qty \in Int
  OBVIOUS
<1>4. /\ Millionths(price * qty, StampRate) \in Int
      /\ Millionths(price * qty, SebiRate) \in Int
      /\ Millionths(price * qty, SttRate) \in Int
  BY <1>1, <1>3, ExchangeAssumption
<1> QED
  BY <1>2, <1>4 DEF BuyFees, SellFees

\* A fill is of the side and size of its order; its amounts are integers.
LEMMA FillIsGood ==
  ASSUME NEW side \in Sides, NEW qty \in Nat \ {0}, NEW close \in Nat, NEW avg \in Nat
  PROVE  LET fill == Fill(side, qty, close, avg)
         IN  FillGood(fill) /\ fill.side = side /\ fill.qty = qty
<1> DEFINE price == FillPrice(side, close)
           fees == IF side = "Buy" THEN BuyFees(price, qty) ELSE SellFees(price, qty)
           entry == IF avg > 0 THEN avg ELSE price
           fill == Fill(side, qty, close, avg)
<1>1. price \in Nat
  BY ExchangeAssumption DEF FillPrice, Larger
<1> HIDE DEF price
<1>2. fees \in Int
  BY <1>1, FeesInt
<1>3. entry \in Nat
  BY <1>1
<1>4. price * qty \in Int /\ entry * qty \in Int
  BY <1>1, <1>3
<1>5. Margin(price, qty) \in Int /\ Margin(entry, qty) \in Int
  BY <1>4, ExchangeAssumption, DivInt DEF Margin
<1>6. SaleProceeds(price, qty, fees, avg) = Margin(entry, qty) + (price * qty - entry * qty - fees)
  BY DEF SaleProceeds
<1> HIDE DEF fees, entry
<1>7. SaleProceeds(price, qty, fees, avg) \in Int
  BY <1>2, <1>4, <1>5, <1>6
<1>8. /\ fill.side = side /\ fill.qty = qty /\ fill.price = price /\ fill.fees = fees
      /\ fill.impact = IF side = "Buy" THEN -(Margin(price, qty) + fees)
                       ELSE SaleProceeds(price, qty, fees, avg)
  BY DEF Fill, price, fees
<1> HIDE DEF fill
<1>9. fill.impact \in Int
  BY <1>2, <1>5, <1>7, <1>8
<1>10. FillGood(fill)
  BY <1>1, <1>2, <1>8, <1>9 DEF FillGood
<1> QED
  BY <1>8, <1>10 DEF fill

\* A buy adds its shares.
LEMMA BuyHolds ==
  ASSUME NEW h \in Holding, NEW fill, FillGood(fill), fill.side = "Buy"
  PROVE  AfterFill(h, fill) \in Holding /\ AfterFill(h, fill).pos = h.pos + fill.qty
<1> DEFINE g == Bought(h, fill)
           mean == (h.avg * h.pos + fill.price * fill.qty) \div (h.pos + fill.qty)
           shares == h.pos + fill.qty
           price == IF h.pos = 0 THEN fill.price ELSE mean
<1>1. h.pos \in Nat /\ h.avg \in Nat /\ fill.qty \in Nat \ {0} /\ fill.price \in Nat
  BY DEF FillGood, Holding
<1>2. mean \in Nat
  <2>1. h.avg * h.pos + fill.price * fill.qty \in Nat /\ h.pos + fill.qty \in Nat \ {0}
    BY <1>1
  <2> QED
    BY <2>1, DivNat
<1>3. g.pos = shares /\ g.avg = price
  BY <1>1 DEF Bought, Holding
<1>4. \E x, y : g = [h EXCEPT !.pos = x, !.avg = y]
  BY DEF Bought
<1>5. shares \in Nat /\ price \in Nat
  BY <1>1, <1>2
<1>6. AfterFill(h, fill) = g
  BY DEF AfterFill
<1> HIDE DEF g, shares, price
<1>7. PICK x, y : g = [h EXCEPT !.pos = x, !.avg = y]
  BY <1>4
<1>8. x = shares /\ y = price
  BY <1>3, <1>7 DEF Holding
<1>9. g \in Holding
  BY <1>5, <1>7, <1>8 DEF Holding
<1> QED
  BY <1>3, <1>6, <1>9 DEF shares

\* A sell takes its shares away, as far as there are any.
LEMMA SellHolds ==
  ASSUME NEW h \in Holding, NEW fill, FillGood(fill), fill.side = "Sell"
  PROVE  /\ AfterFill(h, fill) \in Holding
         /\ fill.qty <= h.pos => AfterFill(h, fill).pos = h.pos - fill.qty
<1> DEFINE left == Larger(0, h.pos - fill.qty)
           gross == fill.price * fill.qty
           cost == h.avg * fill.qty
<1>1. /\ h.pos \in Nat /\ h.avg \in Nat /\ h.realized \in Int
      /\ fill.qty \in Nat \ {0} /\ fill.price \in Nat /\ fill.fees \in Int
  BY DEF FillGood, Holding
<1>2. left \in Nat /\ (fill.qty <= h.pos => left = h.pos - fill.qty)
  BY <1>1 DEF Larger
<1>3. gross \in Int /\ cost \in Int
  BY <1>1
<1>4. AfterFill(h, fill) = [pos      |-> left,
                            avg      |-> IF left = 0 THEN 0 ELSE h.avg,
                            realized |-> h.realized + (gross - cost - fill.fees)]
  BY DEF AfterFill, Sold
<1> HIDE DEF left, gross, cost
<1>5. h.realized + (gross - cost - fill.fees) \in Int /\ (IF left = 0 THEN 0 ELSE h.avg) \in Nat
  BY <1>1, <1>3
<1> QED
  BY <1>2, <1>4, <1>5 DEF Holding

-------------------------------------------------------------------------------
(* A container and its fills.                                              *)

\* What a fill leaves as it is.
SameTerms(k, j) ==
  /\ j.status = k.status /\ j.mode = k.mode /\ j.symbol = k.symbol /\ j.strategy = k.strategy
  /\ j.principal = k.principal

\* A fill changes the cash and the holding of a container.
LEMMA HoldsFill ==
  ASSUME NEW k \in Container, NEW fill, FillGood(fill)
  PROVE  LET j == Holds(k, fill)
         IN  /\ j \in Container /\ SameTerms(k, j)
             /\ j.holding = AfterFill(k.holding, fill) /\ j.hasBar = k.hasBar
<1> DEFINE cash == k.cash + fill.impact
           holding == AfterFill(k.holding, fill)
           fills == k.fills + 1
           j == [k EXCEPT !.cash = cash, !.holding = holding, !.fills = fills]
<1>1. cash \in Int /\ fills \in Nat
  BY DEF Container, FillGood
<1>2. holding \in Holding
  BY BuyHolds, SellHolds DEF FillGood, Sides, Container
<1>3. Holds(k, fill) = j
  BY DEF Holds
<1> HIDE DEF cash, holding, fills
<1>4. j \in Container /\ SameTerms(k, j) /\ j.holding = holding /\ j.hasBar = k.hasBar
  BY <1>1, <1>2 DEF Container, SameTerms
<1> QED
  BY <1>3, <1>4 DEF holding

\* A container that has a bar sells all it has, and then has nothing.
LEMMA FlattenSells ==
  ASSUME NEW k \in Container, k.holding.pos > 0 => k.hasBar
  PROVE  /\ FlattenOk(k) <=> k.holding.pos > 0
         /\ FlattenOk(k) => LET fill == FlattenFill(k)
                            IN  FillGood(fill) /\ fill.side = "Sell" /\ fill.qty = k.holding.pos
         /\ Flattened(k) \in Container /\ SameTerms(k, Flattened(k)) /\ Flattened(k).holding.pos = 0
<1>1. /\ k.holding \in Holding /\ k.holding.pos \in Nat /\ k.holding.avg \in Nat
      /\ k.last \in Nat /\ k.hasBar \in BOOLEAN
  BY DEF Container, Holding
<1>2. FlattenOk(k) <=> k.holding.pos > 0
  BY <1>1 DEF FlattenOk, SubmitOk
<1>3. ASSUME FlattenOk(k)
      PROVE  /\ FillGood(FlattenFill(k))
             /\ FlattenFill(k).side = "Sell" /\ FlattenFill(k).qty = k.holding.pos
  <2>1. k.holding.pos \in Nat \ {0} /\ "Sell" \in Sides
    BY <1>1, <1>2, <1>3 DEF Sides
  <2> QED
    BY <1>1, <2>1, FillIsGood DEF FlattenFill
<1>4. Flattened(k) \in Container /\ SameTerms(k, Flattened(k)) /\ Flattened(k).holding.pos = 0
  <2>1. CASE FlattenOk(k)
    <3> DEFINE fill == FlattenFill(k)
    <3>1. FillGood(fill) /\ fill.side = "Sell" /\ fill.qty = k.holding.pos
      BY <1>3, <2>1
    <3>2. Flattened(k) = Holds(k, fill)
      BY <2>1 DEF Flattened
    <3> HIDE DEF fill
    <3>3. /\ Holds(k, fill) \in Container /\ SameTerms(k, Holds(k, fill))
          /\ Holds(k, fill).holding = AfterFill(k.holding, fill)
      BY <3>1, HoldsFill
    <3>4. AfterFill(k.holding, fill).pos = 0
      BY <1>1, <3>1, SellHolds
    <3> QED
      BY <3>2, <3>3, <3>4
  <2>2. CASE ~ FlattenOk(k)
    BY <1>1, <1>2, <2>2 DEF Flattened, SameTerms
  <2> QED
    BY <2>1, <2>2
<1> QED
  BY <1>2, <1>3, <1>4

-------------------------------------------------------------------------------
(* The totals, when one container changes.                                 *)

Share(k, s) == IF k.symbol = s THEN k.holding.pos ELSE 0

Result(k, modes) ==
  IF k.status = "Stopped" /\ k.mode \in modes THEN k.cash - k.principal ELSE 0

\* The container c becomes k.
Becomes(c, k) ==
  /\ containers' \in [ContainerIds -> Container]
  /\ containers'[c] = k
  /\ \A d \in ContainerIds \ {c} : containers'[d] = containers[d]

\* One container is assigned to.
LEMMA Assigned ==
  ASSUME containers \in [ContainerIds -> Container], NEW c \in ContainerIds, NEW k \in Container,
         containers' = [containers EXCEPT ![c] = k]
  PROVE  Becomes(c, k)
BY DEF Becomes

\* The shares of a symbol change by those of the container.
LEMMA SharesMove ==
  ASSUME containers \in [ContainerIds -> Container], NEW c \in ContainerIds, NEW k \in Container,
         Becomes(c, k), NEW s
  PROVE  /\ SharesOf(s)' = SharesOf(s) - Share(containers[c], s) + Share(k, s)
         /\ SharesOf(s) \in Nat /\ Share(containers[c], s) <= SharesOf(s)
         /\ Share(containers[c], s) \in Nat /\ Share(k, s) \in Nat
<1> DEFINE f == [d \in ContainerIds |-> IF containers[d].symbol = s THEN containers[d].holding.pos ELSE 0]
           g == [d \in ContainerIds |-> IF containers'[d].symbol = s THEN containers'[d].holding.pos ELSE 0]
<1>1. \A j \in Container : j.holding.pos \in Nat
  BY DEF Container, Holding
<1>2. /\ f \in [1..MaxContainers -> Int] /\ g \in [1..MaxContainers -> Int]
      /\ \A d \in 1..MaxContainers : f[d] >= 0
      /\ f[c] = Share(containers[c], s) /\ g[c] = Share(k, s)
      /\ f[c] \in Nat /\ g[c] \in Nat
      /\ \A d \in 1..MaxContainers : g[d] = IF d = c THEN Share(k, s) ELSE f[d]
  BY <1>1 DEF ContainerIds, Becomes, Share
<1>3. SharesOf(s) = SumUpTo(f, MaxContainers) /\ SharesOf(s)' = SumUpTo(g, MaxContainers)
  BY DEF SharesOf
<1> HIDE DEF f, g
<1>4. c \in 1..MaxContainers /\ Share(k, s) \in Int
  BY <1>2 DEF ContainerIds
<1>5. SumUpTo(g, MaxContainers) = SumUpTo(f, MaxContainers) - f[c] + Share(k, s)
  BY <1>2, <1>4, SumExcept, MaxContainersAssumption
<1>6. SumUpTo(f, MaxContainers) \in Int
  BY <1>2, SumType, MaxContainersAssumption
<1>7. SumUpTo(f, MaxContainers) >= 0 /\ f[c] <= SumUpTo(f, MaxContainers)
  BY <1>2, <1>4, SumBounds, MaxContainersAssumption
<1> QED
  BY <1>2, <1>3, <1>5, <1>6, <1>7

\* The results of the containers change by that of the container.
LEMMA ResultsMove ==
  ASSUME containers \in [ContainerIds -> Container], NEW c \in ContainerIds, NEW k \in Container,
         Becomes(c, k), NEW modes
  PROVE  /\ ResultsOf(modes)' = ResultsOf(modes) - Result(containers[c], modes) + Result(k, modes)
         /\ ResultsOf(modes) \in Int
         /\ Result(containers[c], modes) \in Int /\ Result(k, modes) \in Int
<1> DEFINE f == [d \in ContainerIds |->
                   IF containers[d].status = "Stopped" /\ containers[d].mode \in modes
                   THEN containers[d].cash - containers[d].principal ELSE 0]
           g == [d \in ContainerIds |->
                   IF containers'[d].status = "Stopped" /\ containers'[d].mode \in modes
                   THEN containers'[d].cash - containers'[d].principal ELSE 0]
<1>1. \A j \in Container : j.cash \in Int /\ j.principal \in Int
  BY DEF Container
<1>2. /\ f \in [1..MaxContainers -> Int] /\ g \in [1..MaxContainers -> Int]
      /\ f[c] = Result(containers[c], modes) /\ Result(k, modes) \in Int
      /\ \A d \in 1..MaxContainers : g[d] = IF d = c THEN Result(k, modes) ELSE f[d]
  BY <1>1 DEF ContainerIds, Becomes, Result
<1>3. ResultsOf(modes) = SumUpTo(f, MaxContainers) /\ ResultsOf(modes)' = SumUpTo(g, MaxContainers)
  BY DEF ResultsOf
<1> HIDE DEF f, g
<1>4. c \in 1..MaxContainers /\ f[c] \in Int
  BY <1>2 DEF ContainerIds
<1>5. SumUpTo(g, MaxContainers) = SumUpTo(f, MaxContainers) - f[c] + Result(k, modes)
  BY <1>2, <1>4, SumExcept, MaxContainersAssumption
<1>6. SumUpTo(f, MaxContainers) \in Int
  BY <1>2, SumType, MaxContainersAssumption
<1> QED
  BY <1>2, <1>3, <1>4, <1>5, <1>6

-------------------------------------------------------------------------------
(* What is true of containers, index, ledger and positions.                *)

Types ==
  /\ containers \in [ContainerIds -> Container]
  /\ nextId \in 1..(MaxContainers + 1)
  /\ LedgerOK(ledger)
  /\ positions \in [Symbols -> Holding]
  /\ index \in Index
  /\ worth \in [ContainerIds -> Int]

(* A key is held by the container that trades it; an id that is still to   *)
(* be given is nobody's; an allocation is the principal of its container.  *)
Registry ==
  /\ RunningIsKnown
  /\ \A key \in Keys : index.byKey[key] # 0 =>
       /\ Active(index.byKey[key])
       /\ KeyOf(containers[index.byKey[key]]) = key
  /\ \A c \in ContainerIds : c >= nextId => ~ Kept(c)
  /\ \A c \in ContainerIds : Active(c) => ledger.allocs[c].principal = containers[c].principal

(* Only a container that runs and has a price holds shares.                *)
Shares ==
  /\ \A c \in ContainerIds : containers[c].holding.pos > 0 => Active(c) /\ containers[c].hasBar
  /\ LedgerHasTheShares

(* The ledger realized what the containers made that have stopped.         *)
ResultsKnown == ledger.realized = ResultsOf(Modes)

Books == Types /\ Registry /\ Shares /\ ResultsKnown

\* The registry knows containers by their terms.
LEMMA SameRegistry ==
  ASSUME Registry, NEW c \in ContainerIds, NEW k, Becomes(c, k), SameTerms(containers[c], k),
         UNCHANGED <<nextId, ledger, index>>, Types
  PROVE  Registry'
<1>1. ASSUME NEW d \in ContainerIds
      PROVE  /\ containers'[d].status = containers[d].status
             /\ containers'[d].mode = containers[d].mode
             /\ containers'[d].symbol = containers[d].symbol
             /\ containers'[d].strategy = containers[d].strategy
             /\ containers'[d].principal = containers[d].principal
  BY DEF Becomes, SameTerms
<1>2. \A d \in ContainerIds : /\ Active(d)' <=> Active(d)
                              /\ Kept(d)' <=> Kept(d)
                              /\ KeyOf(containers[d])' = KeyOf(containers[d])
  BY <1>1 DEF Active, Kept, KeyOf
<1>3. RunningIsKnown'
  BY <1>1, <1>2 DEF Registry, RunningIsKnown
<1>4. ASSUME NEW key \in Keys, index'.byKey[key] # 0
      PROVE  Active(index.byKey[key])' /\ KeyOf(containers[index.byKey[key]])' = key
  <2> DEFINE d == index.byKey[key]
  <2>1. index' = index /\ d \in ContainerIds
    BY <1>4 DEF Types, Index
  <2>2. Active(d) /\ KeyOf(containers[d]) = key
    BY <1>4, <2>1 DEF Registry
  <2>3. containers'[d].status = "Active" /\ KeyOf(containers'[d]) = key
    BY <1>1, <2>1, <2>2 DEF Active, KeyOf
  <2> QED
    BY <2>1, <2>3 DEF Active
<1>5. \A d \in ContainerIds : d >= nextId' => ~ Kept(d)'
  BY <1>2 DEF Registry
<1>6. \A d \in ContainerIds : Active(d)' => ledger'.allocs[d].principal = containers'[d].principal
  BY <1>1, <1>2 DEF Registry
<1> QED
  BY <1>3, <1>4, <1>5, <1>6 DEF Registry

\* Nothing of it changes.
LEMMA StayBooks ==
  ASSUME Books, UNCHANGED <<containers, nextId, ledger, positions, index, worth>>
  PROVE  Books'
BY DEF Books, Types, Registry, Shares, ResultsKnown, ResultsOf, RunningIsKnown, LedgerHasTheShares,
       SharesOf, Active, Kept

\* What a fill is worth is an amount.
LEMMA WorthInt ==
  ASSUME NEW fill, FillGood(fill)
  PROVE  Worth(fill) \in Int
<1>1. fill.price * fill.qty \in Int
  BY DEF FillGood
<1> QED
  BY <1>1 DEF Worth, FillGood

\* A fill of a container that runs and has a price.
LEMMA FillBooks ==
  ASSUME Books, NEW c \in ContainerIds, Active(c), containers[c].hasBar, NEW fill, FillGood(fill),
         fill.side = "Sell" => fill.qty <= containers[c].holding.pos,
         OnFill(c, fill), UNCHANGED <<nextId, ledger, index>>
  PROVE  Books' /\ Becomes(c, Holds(containers[c], fill))
<1> DEFINE k == containers[c]
           j == Holds(k, fill)
           s == k.symbol
<1>1. /\ containers \in [ContainerIds -> Container] /\ k \in Container /\ s \in Symbols
      /\ k.holding \in Holding /\ positions \in [Symbols -> Holding] /\ worth \in [ContainerIds -> Int]
  BY DEF Books, Types, Container
<1>2. j \in Container /\ SameTerms(k, j) /\ j.holding = AfterFill(k.holding, fill) /\ j.hasBar = k.hasBar
  BY <1>1, HoldsFill
<1>3. Becomes(c, j)
  <2>1. containers' = [containers EXCEPT ![c] = j]
    BY DEF OnFill
  <2> HIDE DEF j
  <2> QED
    BY <1>1, <1>2, <2>1, Assigned
<1> HIDE DEF j
<1>4. Types'
  <2>1. AfterFill(positions[s], fill) \in Holding
    BY <1>1, BuyHolds, SellHolds DEF FillGood, Sides
  <2>2. positions' \in [Symbols -> Holding]
    BY <1>1, <2>1 DEF OnFill
  <2>3. worth' \in [ContainerIds -> Int]
    BY <1>1, WorthInt DEF OnFill
  <2> QED
    BY <1>3, <2>2, <2>3 DEF Books, Types, Becomes
<1>5. Registry'
  BY <1>2, <1>3, SameRegistry DEF Books
<1>6. Shares'
  <2>1. ASSUME NEW d \in ContainerIds, containers'[d].holding.pos > 0
        PROVE  Active(d)' /\ containers'[d].hasBar
    BY <1>2, <1>3, <2>1 DEF Books, Shares, Becomes, Active, SameTerms
  <2>2. ASSUME NEW t \in Symbols
        PROVE  positions'[t].pos = SharesOf(t)'
    <3>1. /\ SharesOf(t)' = SharesOf(t) - Share(k, t) + Share(j, t)
          /\ SharesOf(t) \in Nat /\ Share(k, t) <= SharesOf(t)
          /\ Share(k, t) \in Nat /\ Share(j, t) \in Nat
      BY <1>1, <1>2, <1>3, SharesMove
    <3>2. positions[t].pos = SharesOf(t)
      BY DEF Books, Shares, LedgerHasTheShares
    <3>3. CASE t # s
      <4>1. positions'[t] = positions[t]
        BY <1>1, <3>3 DEF OnFill
      <4>2. Share(k, t) = 0 /\ Share(j, t) = 0
        BY <1>2, <3>3 DEF Share, SameTerms
      <4> QED
        BY <3>1, <3>2, <4>1, <4>2
    <3>4. CASE t = s
      <4>1. positions'[t] = AfterFill(positions[t], fill)
        BY <1>1, <3>4 DEF OnFill
      <4>2. Share(k, t) = k.holding.pos /\ Share(j, t) = AfterFill(k.holding, fill).pos
        BY <1>2, <3>4 DEF Share, SameTerms
      <4>3. fill.qty \in Nat /\ fill.side \in Sides /\ positions[t] \in Holding
        BY <1>1 DEF FillGood
      <4>4. CASE fill.side = "Buy"
        <5>1. /\ AfterFill(positions[t], fill).pos = positions[t].pos + fill.qty
              /\ AfterFill(k.holding, fill).pos = k.holding.pos + fill.qty
          BY <1>1, <4>3, <4>4, BuyHolds
        <5> QED
          BY <3>1, <3>2, <4>1, <4>2, <4>3, <5>1
      <4>5. CASE fill.side = "Sell"
        <5>1. fill.qty <= k.holding.pos /\ fill.qty <= positions[t].pos
          BY <3>1, <3>2, <4>2, <4>3, <4>5
        <5>2. /\ AfterFill(positions[t], fill).pos = positions[t].pos - fill.qty
              /\ AfterFill(k.holding, fill).pos = k.holding.pos - fill.qty
          BY <1>1, <4>3, <4>5, <5>1, SellHolds
        <5> QED
          BY <3>1, <3>2, <4>1, <4>2, <4>3, <5>2
      <4> QED
        BY <4>3, <4>4, <4>5 DEF Sides
    <3> QED
      BY <3>3, <3>4
  <2> QED
    BY <2>1, <2>2 DEF Shares, LedgerHasTheShares
<1>7. ResultsKnown'
  <2>1. /\ ResultsOf(Modes)' = ResultsOf(Modes) - Result(k, Modes) + Result(j, Modes)
        /\ ResultsOf(Modes) \in Int /\ Result(k, Modes) \in Int /\ Result(j, Modes) \in Int
    BY <1>1, <1>2, <1>3, ResultsMove
  <2>2. Result(k, Modes) = 0 /\ Result(j, Modes) = 0
    BY <1>2 DEF Result, SameTerms, Active
  <2>3. ResultsOf(Modes)' = ResultsOf(Modes)
    BY <2>1, <2>2
  <2> QED
    BY <2>3 DEF Books, ResultsKnown
<1> QED
  BY <1>3, <1>4, <1>5, <1>6, <1>7 DEF Books, j

\* What the end of a container does to the ledger.
LEMMA GivesBack ==
  ASSUME NEW l, LedgerOK(l), NEW c \in ContainerIds, NEW value \in Int
  PROVE  LET m == GiveBack(l, c, value)
         IN  /\ m.realized = l.realized + (value - l.allocs[c].principal)
             /\ m.allocs[c] = NoAllocation
             /\ \A d \in ContainerIds \ {c} : m.allocs[d] = l.allocs[d]
<1>1. l \in LedgerState
  BY DEF LedgerOK
<1> DEFINE a == l.allocs[c]
           new == [l EXCEPT !.realized = l.realized + (value - a.principal), !.allocs[c] = NoAllocation]
<1>2. /\ new.realized = l.realized + (value - a.principal)
      /\ new.allocs = [l.allocs EXCEPT ![c] = NoAllocation]
      /\ DOMAIN new = {"borrowed", "available", "allocated", "paper", "realized", "allocs"}
  BY <1>1 DEF LedgerState
<1>3. GiveBack(l, c, value) = IF a.real
                              THEN [new EXCEPT !.allocated = @ - a.principal, !.available = @ + value]
                              ELSE [new EXCEPT !.paper = @ - a.principal]
  BY DEF GiveBack
<1> HIDE DEF new
<1>4. /\ GiveBack(l, c, value).realized = new.realized
      /\ GiveBack(l, c, value).allocs = new.allocs
  BY <1>2, <1>3
<1>5. l.allocs \in [ContainerIds -> Allocation]
  BY <1>1 DEF LedgerState
<1> QED
  BY <1>2, <1>4, <1>5

\* A container leaves the index, and what it has goes back to the ledger.
LEMMA LeaveBooks ==
  ASSUME Books, NEW c \in ContainerIds, Active(c), Leave(c), nextId' = nextId
  PROVE  /\ Books'
         /\ \E j : /\ Becomes(c, j) /\ j.status = "Stopped" /\ j.holding.pos = 0
                  /\ j.mode = containers[c].mode /\ j.principal = containers[c].principal
                  /\ j.cash = CashAtExit(containers[c]) /\ j.cash \in Int
         /\ ledger' = GiveBack(ledger, c, CashAtExit(containers[c]))
<1> DEFINE k == containers[c]
           f == Flattened(k)
           j == [f EXCEPT !.status = "Stopped"]
           s == k.symbol
           key == KeyOf(k)
<1>1. /\ containers \in [ContainerIds -> Container] /\ k \in Container
      /\ s \in Symbols /\ k.strategy \in Strategies
      /\ k.holding \in Holding /\ positions \in [Symbols -> Holding] /\ worth \in [ContainerIds -> Int]
      /\ index \in Index /\ LedgerOK(ledger)
  BY DEF Books, Types, Container
<1>2. /\ FlattenOk(k) <=> k.holding.pos > 0
      /\ FlattenOk(k) => LET fill == FlattenFill(k)
                         IN  FillGood(fill) /\ fill.side = "Sell" /\ fill.qty = k.holding.pos
      /\ f \in Container /\ SameTerms(k, f) /\ f.holding.pos = 0
  BY <1>1, FlattenSells DEF Books, Shares
<1> HIDE DEF f
<1>3. /\ j \in Container /\ j.status = "Stopped" /\ j.holding.pos = 0 /\ j.cash = f.cash
      /\ j.principal = k.principal /\ j.symbol = k.symbol /\ j.strategy = k.strategy /\ j.mode = k.mode
  BY <1>2 DEF Container, SameTerms
<1>4. containers' = [containers EXCEPT ![c] = j]
  BY DEF Leave, f
<1> HIDE DEF j
<1>5. Becomes(c, j)
  BY <1>1, <1>3, <1>4, Assigned
<1>6. /\ ledger.allocs[c].held /\ ledger.allocs[c].principal = k.principal
      /\ key \in Keys /\ index.byId[c] = key /\ index.byKey[key] = c
  BY <1>1 DEF Books, Registry, RunningIsKnown, KeyOf, Keys
<1>7. index' = [byKey |-> [index.byKey EXCEPT ![key] = 0], byId |-> [index.byId EXCEPT ![c] = NoKey]]
  <2>1. key # NoKey
    BY DEF KeyOf, NoKey
  <2> QED
    BY <1>6, <2>1 DEF Leave, Unregistered
<1>8. ledger' = GiveBack(ledger, c, f.cash) /\ GiveBackOk(ledger, c)
  BY <1>6 DEF Leave, CashAtExit, f, GiveBackOk
<1>9. f.cash \in Int
  BY <1>2 DEF Container
<1>10. /\ LedgerOK(ledger')
       /\ ledger'.realized = ledger.realized + (f.cash - k.principal)
       /\ ledger'.allocs[c] = NoAllocation
       /\ \A d \in ContainerIds \ {c} : ledger'.allocs[d] = ledger.allocs[d]
  BY <1>1, <1>6, <1>8, <1>9, GivesBack, GiveBackKeepsLedgerOK
<1> HIDE DEF key
<1>11. Types'
  <2>1. ASSUME FlattenOk(k)
        PROVE  AfterFill(positions[s], FlattenFill(k)) \in Holding /\ Worth(FlattenFill(k)) \in Int
    BY <1>1, <1>2, <2>1, SellHolds, WorthInt
  <2>2. positions' \in [Symbols -> Holding]
    BY <1>1, <2>1 DEF Leave
  <2>3. worth' \in [ContainerIds -> Int]
    BY <1>1, <2>1 DEF Leave
  <2>4. index' \in Index
    <3>1. index.byKey \in [Keys -> {0} \cup ContainerIds] /\ index.byId \in [ContainerIds -> Keys \cup {NoKey}]
      BY <1>1 DEF Index
    <3>2. /\ [index.byKey EXCEPT ![key] = 0] \in [Keys -> {0} \cup ContainerIds]
          /\ [index.byId EXCEPT ![c] = NoKey] \in [ContainerIds -> Keys \cup {NoKey}]
      BY <3>1
    <3> QED
      BY <1>7, <3>2 DEF Index
  <2>5. nextId' \in 1..(MaxContainers + 1)
    BY DEF Books, Types
  <2> QED
    BY <1>5, <1>10, <2>2, <2>3, <2>4, <2>5 DEF Types, Becomes
<1>12. Registry'
  <2>1. /\ \A d \in ContainerIds : index'.byId[d] = IF d = c THEN NoKey ELSE index.byId[d]
        /\ \A q \in Keys : index'.byKey[q] = IF q = key THEN 0 ELSE index.byKey[q]
    BY <1>1, <1>7 DEF Index
  <2>2. ~ Active(c)' /\ Kept(c)
    BY <1>3, <1>5 DEF Active, Kept, Becomes
  <2>3. \A d \in ContainerIds \ {c} : containers'[d] = containers[d] /\ (Active(d)' <=> Active(d))
                                       /\ (Kept(d)' <=> Kept(d))
    BY <1>5 DEF Becomes, Active, Kept
  <2>4. \A d \in ContainerIds : KeyOf(containers[d]) \in Keys
    BY <1>1 DEF KeyOf, Keys, Container
  <2>5. RunningIsKnown'
    <3>1. ASSUME NEW d \in ContainerIds
          PROVE  /\ index'.byId[d] = IF Active(d)' THEN KeyOf(containers'[d]) ELSE NoKey
                 /\ Active(d)' => index'.byKey[KeyOf(containers'[d])] = d
                 /\ ledger'.allocs[d].held <=> Active(d)'
                 /\ Active(d)' => (ledger'.allocs[d].real <=> containers'[d].mode = "Real")
      <4>1. CASE d = c
        BY <1>10, <2>1, <2>2, <4>1 DEF NoAllocation
      <4>2. CASE d # c
        <5>1. ledger'.allocs[d] = ledger.allocs[d] /\ containers'[d] = containers[d]
              /\ (Active(d)' <=> Active(d)) /\ index'.byId[d] = index.byId[d]
          BY <1>10, <2>1, <2>3, <4>2
        <5>2. /\ index.byId[d] = IF Active(d) THEN KeyOf(containers[d]) ELSE NoKey
              /\ Active(d) => index.byKey[KeyOf(containers[d])] = d
              /\ ledger.allocs[d].held <=> Active(d)
              /\ Active(d) => (ledger.allocs[d].real <=> containers[d].mode = "Real")
          BY DEF Books, Registry, RunningIsKnown
        <5>3. Active(d) => index'.byKey[KeyOf(containers[d])] = d
          BY <1>6, <2>1, <2>4, <4>2, <5>2
        <5> QED
          BY <5>1, <5>2, <5>3
      <4> QED
        BY <4>1, <4>2
    <3> QED
      BY <3>1 DEF RunningIsKnown
  <2>6. ASSUME NEW q \in Keys, index'.byKey[q] # 0
        PROVE  /\ containers'[index'.byKey[q]].status = "Active"
               /\ KeyOf(containers'[index'.byKey[q]]) = q
    <3>1. q # key /\ index'.byKey[q] = index.byKey[q]
      BY <2>1, <2>6
    <3>2. index.byKey[q] \in ContainerIds
      BY <1>1, <2>6, <3>1 DEF Index
    <3>3. Active(index.byKey[q]) /\ KeyOf(containers[index.byKey[q]]) = q
      BY <2>6, <3>1 DEF Books, Registry
    <3>4. index.byKey[q] # c
      BY <3>1, <3>3 DEF key
    <3> QED
      BY <2>3, <3>1, <3>2, <3>3, <3>4 DEF Active
  <2>7. ASSUME NEW d \in ContainerIds, d >= nextId
        PROVE  ~ Kept(d)'
    BY <2>2, <2>3, <2>7 DEF Books, Registry
  <2>8. ASSUME NEW d \in ContainerIds, Active(d)'
        PROVE  ledger'.allocs[d].principal = containers'[d].principal
    BY <1>10, <2>2, <2>3, <2>8 DEF Books, Registry
  <2> QED
    BY <2>5, <2>6, <2>7, <2>8 DEF Registry, Active
<1>13. Shares'
  <2>1. ASSUME NEW d \in ContainerIds, containers'[d].holding.pos > 0
        PROVE  Active(d)' /\ containers'[d].hasBar
    BY <1>3, <1>5, <2>1 DEF Books, Shares, Becomes, Active
  <2>2. ASSUME NEW t \in Symbols
        PROVE  positions'[t].pos = SharesOf(t)'
    <3>1. /\ SharesOf(t)' = SharesOf(t) - Share(k, t) + Share(j, t)
          /\ SharesOf(t) \in Nat /\ Share(k, t) <= SharesOf(t)
          /\ Share(k, t) \in Nat /\ Share(j, t) = 0
      BY <1>1, <1>3, <1>5, SharesMove DEF Share
    <3>2. positions[t].pos = SharesOf(t)
      BY DEF Books, Shares, LedgerHasTheShares
    <3>3. CASE t = s /\ FlattenOk(k)
      <4> DEFINE fill == FlattenFill(k)
      <4>1. positions'[t] = AfterFill(positions[t], fill)
        BY <1>1, <3>3 DEF Leave
      <4>2. Share(k, t) = k.holding.pos
        BY <3>3 DEF Share
      <4>3. FillGood(fill) /\ fill.side = "Sell" /\ fill.qty = k.holding.pos
        BY <1>2, <3>3
      <4> HIDE DEF fill
      <4>4. AfterFill(positions[t], fill).pos = positions[t].pos - fill.qty
        BY <1>1, <3>1, <3>2, <4>2, <4>3, SellHolds
      <4> QED
        BY <3>1, <3>2, <4>1, <4>2, <4>3, <4>4
    <3>4. CASE ~ (t = s /\ FlattenOk(k))
      <4>1. positions'[t] = positions[t]
        BY <1>1, <3>4 DEF Leave
      <4>2. Share(k, t) = 0
        BY <1>1, <1>2, <3>4 DEF Share, Holding
      <4> QED
        BY <3>1, <3>2, <4>1, <4>2
    <3> QED
      BY <3>3, <3>4
  <2> QED
    BY <2>1, <2>2 DEF Shares, LedgerHasTheShares
<1>14. ResultsKnown'
  <2>1. /\ ResultsOf(Modes)' = ResultsOf(Modes) - Result(k, Modes) + Result(j, Modes)
        /\ ResultsOf(Modes) \in Int
    BY <1>1, <1>3, <1>5, ResultsMove
  <2>2. Result(k, Modes) = 0 /\ Result(j, Modes) = f.cash - k.principal
    BY <1>1, <1>3 DEF Result, Active, Container
  <2>3. k.principal \in Int
    BY <1>1 DEF Container
  <2>4. ledger.realized = ResultsOf(Modes)
    BY DEF Books, ResultsKnown
  <2>5. ledger'.realized = ResultsOf(Modes)'
    BY <1>9, <1>10, <2>1, <2>2, <2>3, <2>4
  <2> QED
    BY <2>5 DEF ResultsKnown
<1>15. f.cash = CashAtExit(k)
  BY DEF f, CashAtExit
<1> QED
  BY <1>3, <1>5, <1>8, <1>9, <1>11, <1>12, <1>13, <1>14, <1>15 DEF Books

\* A change that leaves the shares of a container.
LEMMA SharesStay ==
  ASSUME Books, NEW c \in ContainerIds, NEW j \in Container, Becomes(c, j), positions' = positions,
         \A s \in Symbols : Share(j, s) = Share(containers[c], s),
         j.holding.pos > 0 => j.status = "Active" /\ j.hasBar
  PROVE  Shares'
<1>1. containers \in [ContainerIds -> Container]
  BY DEF Books, Types
<1>2. ASSUME NEW d \in ContainerIds, containers'[d].holding.pos > 0
      PROVE  Active(d)' /\ containers'[d].hasBar
  BY <1>2 DEF Books, Shares, Becomes, Active
<1>3. ASSUME NEW s \in Symbols
      PROVE  positions'[s].pos = SharesOf(s)'
  <2>1. /\ SharesOf(s)' = SharesOf(s) - Share(containers[c], s) + Share(j, s)
        /\ SharesOf(s) \in Nat /\ Share(containers[c], s) \in Nat
    BY <1>1, SharesMove
  <2>2. positions[s].pos = SharesOf(s)
    BY DEF Books, Shares, LedgerHasTheShares
  <2> QED
    BY <2>1, <2>2
<1> QED
  BY <1>2, <1>3 DEF Shares, LedgerHasTheShares

\* A change that leaves the result of a container.
LEMMA ResultsStay ==
  ASSUME Books, NEW c \in ContainerIds, NEW j \in Container, Becomes(c, j),
         ledger'.realized = ledger.realized, Result(j, Modes) = Result(containers[c], Modes)
  PROVE  ResultsKnown'
<1>1. containers \in [ContainerIds -> Container]
  BY DEF Books, Types
<1>2. /\ ResultsOf(Modes)' = ResultsOf(Modes) - Result(containers[c], Modes) + Result(j, Modes)
      /\ ResultsOf(Modes) \in Int /\ Result(containers[c], Modes) \in Int
  BY <1>1, ResultsMove
<1>3. ledger.realized = ResultsOf(Modes)
  BY DEF Books, ResultsKnown
<1>4. ledger'.realized = ResultsOf(Modes)'
  BY <1>2, <1>3
<1> QED
  BY <1>4 DEF ResultsKnown

\* A bar is a price of the container.
LEMMA BarBooks ==
  ASSUME Books, NEW c \in ContainerIds, Active(c), NEW close \in Nat,
         containers' = [containers EXCEPT ![c] = [@ EXCEPT !.hasBar = TRUE, !.last = close]],
         UNCHANGED <<nextId, ledger, positions, index, worth>>
  PROVE  Books' /\ Becomes(c, [containers[c] EXCEPT !.hasBar = TRUE, !.last = close])
<1> DEFINE k == containers[c]
           j == [k EXCEPT !.hasBar = TRUE, !.last = close]
<1>1. containers \in [ContainerIds -> Container] /\ k \in Container
  BY DEF Books, Types
<1>2. j \in Container /\ SameTerms(k, j) /\ j.holding = k.holding /\ j.hasBar = TRUE
  BY <1>1 DEF Container, SameTerms
<1>3. containers' = [containers EXCEPT ![c] = j]
  OBVIOUS
<1> HIDE DEF j
<1>4. Becomes(c, j)
  BY <1>1, <1>2, <1>3, Assigned
<1>5. Types'
  BY <1>4 DEF Books, Types, Becomes
<1>6. Registry'
  BY <1>2, <1>4, SameRegistry DEF Books
<1>7. Shares'
  <2>1. \A s \in Symbols : Share(j, s) = Share(k, s)
    BY <1>2 DEF Share, SameTerms
  <2>2. j.status = "Active"
    BY <1>2 DEF SameTerms, Active
  <2> QED
    BY <1>2, <1>4, <2>1, <2>2, SharesStay
<1>8. ResultsKnown'
  <2>1. Result(j, Modes) = Result(k, Modes)
    BY <1>2 DEF Result, SameTerms, Active
  <2> QED
    BY <1>2, <1>4, <2>1, ResultsStay
<1> QED
  BY <1>4, <1>5, <1>6, <1>7, <1>8 DEF Books, j

\* What an upgrade does to the ledger.
LEMMA Commits ==
  ASSUME NEW l, LedgerOK(l), NEW c \in ContainerIds
  PROVE  LET m == CommitReal(l, c)
         IN  /\ m.realized = l.realized
             /\ m.allocs[c] = [l.allocs[c] EXCEPT !.real = TRUE]
             /\ \A d \in ContainerIds \ {c} : m.allocs[d] = l.allocs[d]
<1>1. l \in LedgerState /\ l.allocs \in [ContainerIds -> Allocation]
  BY DEF LedgerOK, LedgerState
<1>2. /\ CommitReal(l, c).realized = l.realized
      /\ CommitReal(l, c).allocs = [l.allocs EXCEPT ![c] = [l.allocs[c] EXCEPT !.real = TRUE]]
  BY <1>1 DEF CommitReal, LedgerState
<1> QED
  BY <1>1, <1>2

\* A container changes its mode, and its allocation with it.
LEMMA UpgradeBooks ==
  ASSUME Books, NEW c \in ContainerIds, Active(c), UpgradePaper(c) \/ UpgradeReal(c),
         UNCHANGED <<nextId, positions, index, worth>>
  PROVE  /\ Books'
         /\ \E mode : Becomes(c, [containers[c] EXCEPT !.mode = mode])
<1> DEFINE k == containers[c]
<1>1. PICK mode \in {"Paper", "Real"} :
        /\ containers' = [containers EXCEPT ![c].mode = mode]
        /\ IF mode = "Paper" THEN k.mode = "Backtest" /\ ledger' = ledger
           ELSE /\ k.mode \in {"Backtest", "Paper"} /\ CommitRealOk(ledger, c)
                /\ ledger' = CommitReal(ledger, c)
  <2>1. CASE UpgradePaper(c)
    BY <2>1 DEF UpgradePaper
  <2>2. CASE UpgradeReal(c)
    BY <2>2 DEF UpgradeReal
  <2> QED
    BY <2>1, <2>2
<1> DEFINE j == [k EXCEPT !.mode = mode]
<1>2. containers \in [ContainerIds -> Container] /\ k \in Container /\ LedgerOK(ledger)
  BY DEF Books, Types
<1>3. /\ j \in Container /\ j.status = k.status /\ j.mode = mode /\ j.symbol = k.symbol
      /\ j.strategy = k.strategy /\ j.principal = k.principal /\ j.cash = k.cash
      /\ j.holding = k.holding /\ j.hasBar = k.hasBar
  BY <1>2 DEF Container, Modes
<1>4. containers' = [containers EXCEPT ![c] = j]
  BY <1>1
<1> HIDE DEF j
<1>5. Becomes(c, j)
  BY <1>2, <1>3, <1>4, Assigned
<1>6. /\ LedgerOK(ledger') /\ ledger'.realized = ledger.realized
      /\ ledger'.allocs[c].held = ledger.allocs[c].held
      /\ ledger'.allocs[c].principal = ledger.allocs[c].principal
      /\ ledger'.allocs[c].real <=> mode = "Real"
      /\ \A d \in ContainerIds \ {c} : ledger'.allocs[d] = ledger.allocs[d]
  <2>1. ledger.allocs[c] \in Allocation /\ (ledger.allocs[c].real <=> k.mode = "Real")
    BY <1>2 DEF Books, Registry, RunningIsKnown, LedgerOK, LedgerState
  <2>2. CASE mode = "Paper"
    BY <1>1, <1>2, <2>1, <2>2
  <2>3. CASE mode = "Real"
    <3>1. CommitRealOk(ledger, c) /\ ledger' = CommitReal(ledger, c)
      BY <1>1, <2>3
    <3>2. /\ LedgerOK(ledger') /\ ledger'.realized = ledger.realized
          /\ ledger'.allocs[c] = [ledger.allocs[c] EXCEPT !.real = TRUE]
          /\ \A d \in ContainerIds \ {c} : ledger'.allocs[d] = ledger.allocs[d]
      BY <1>2, <3>1, Commits, CommitRealKeepsLedgerOK
    <3>3. /\ ledger'.allocs[c].held = ledger.allocs[c].held
          /\ ledger'.allocs[c].principal = ledger.allocs[c].principal
          /\ ledger'.allocs[c].real = TRUE
      BY <2>1, <3>2 DEF Allocation
    <3> QED
      BY <2>3, <3>2, <3>3
  <2> QED
    BY <1>1, <2>2, <2>3
<1>7. Types'
  BY <1>5, <1>6 DEF Books, Types, Becomes
<1>8. Registry'
  <2>1. \A d \in ContainerIds : /\ Active(d)' <=> Active(d)
                                /\ Kept(d)' <=> Kept(d)
                                /\ KeyOf(containers'[d]) = KeyOf(containers[d])
    BY <1>3, <1>5 DEF Becomes, Active, Kept, KeyOf
  <2>2. RunningIsKnown'
    <3>1. ASSUME NEW d \in ContainerIds
          PROVE  /\ index'.byId[d] = IF Active(d)' THEN KeyOf(containers'[d]) ELSE NoKey
                 /\ Active(d)' => index'.byKey[KeyOf(containers'[d])] = d
                 /\ ledger'.allocs[d].held <=> Active(d)'
                 /\ Active(d)' => (ledger'.allocs[d].real <=> containers'[d].mode = "Real")
      <4>1. /\ index.byId[d] = IF Active(d) THEN KeyOf(containers[d]) ELSE NoKey
            /\ Active(d) => index.byKey[KeyOf(containers[d])] = d
            /\ ledger.allocs[d].held <=> Active(d)
            /\ Active(d) => (ledger.allocs[d].real <=> containers[d].mode = "Real")
        BY DEF Books, Registry, RunningIsKnown
      <4>2. index' = index
        OBVIOUS
      <4>3. CASE d = c
        BY <1>3, <1>5, <1>6, <2>1, <4>1, <4>2, <4>3 DEF Becomes
      <4>4. CASE d # c
        BY <1>5, <1>6, <2>1, <4>1, <4>2, <4>4 DEF Becomes
      <4> QED
        BY <4>3, <4>4
    <3> QED
      BY <3>1 DEF RunningIsKnown
  <2>3. ASSUME NEW q \in Keys, index'.byKey[q] # 0
        PROVE  Active(index.byKey[q])' /\ KeyOf(containers'[index.byKey[q]]) = q
    <3>1. index' = index /\ index.byKey[q] \in ContainerIds
      BY <2>3 DEF Books, Types, Index
    <3>2. Active(index.byKey[q]) /\ KeyOf(containers[index.byKey[q]]) = q
      BY <2>3, <3>1 DEF Books, Registry
    <3>3. containers'[index.byKey[q]].status = "Active"
      BY <1>3, <1>5, <3>1, <3>2 DEF Becomes, Active
    <3> QED
      BY <2>1, <3>1, <3>2, <3>3 DEF Active
  <2>4. \A d \in ContainerIds : d >= nextId' => ~ Kept(d)'
    BY <2>1 DEF Books, Registry
  <2>5. ASSUME NEW d \in ContainerIds, Active(d)'
        PROVE  ledger'.allocs[d].principal = containers'[d].principal
    <3>1. ledger.allocs[d].principal = containers[d].principal
      BY <2>1, <2>5 DEF Books, Registry
    <3> QED
      BY <1>3, <1>5, <1>6, <3>1 DEF Becomes
  <2> QED
    BY <2>2, <2>3, <2>4, <2>5 DEF Registry
<1>9. Shares'
  <2>1. \A s \in Symbols : Share(j, s) = Share(k, s)
    BY <1>3 DEF Share
  <2>2. j.holding.pos > 0 => j.status = "Active" /\ j.hasBar
    BY <1>3 DEF Books, Shares, Active
  <2> QED
    BY <1>3, <1>5, <2>1, <2>2, SharesStay
<1>10. ResultsKnown'
  <2>1. Result(j, Modes) = Result(k, Modes)
    BY <1>3 DEF Result, Active
  <2> QED
    BY <1>3, <1>5, <1>6, <2>1, ResultsStay
<1> QED
  BY <1>5, <1>7, <1>8, <1>9, <1>10 DEF Books, j

\* What a start does to the ledger.
LEMMA Takes ==
  ASSUME NEW l, LedgerOK(l), NEW c \in ContainerIds, NEW amount, NEW mode
  PROVE  LET m == Take(l, c, amount, mode)
         IN  /\ m.realized = l.realized
             /\ m.allocs[c].held /\ m.allocs[c].principal = amount
             /\ m.allocs[c].real <=> mode = "Real"
             /\ \A d \in ContainerIds \ {c} : m.allocs[d] = l.allocs[d]
<1> DEFINE a == [held |-> TRUE, principal |-> amount, real |-> mode = "Real"]
<1>1. l \in LedgerState /\ l.allocs \in [ContainerIds -> Allocation]
  BY DEF LedgerOK, LedgerState
<1>3. a.held /\ a.principal = amount /\ (a.real <=> mode = "Real")
  BY Zenon
<1> HIDE DEF a
<1>2. /\ Take(l, c, amount, mode).realized = l.realized
      /\ Take(l, c, amount, mode).allocs = [l.allocs EXCEPT ![c] = a]
  <2>1. Take(l, c, amount, mode) =
          IF mode = "Real"
          THEN [[l EXCEPT !.allocs[c] = a] EXCEPT !.available = @ - amount, !.allocated = @ + amount]
          ELSE [[l EXCEPT !.allocs[c] = a] EXCEPT !.paper = @ + amount]
    BY DEF Take, a
  <2> QED
    BY <1>1, <2>1 DEF LedgerState
<1>4. /\ Take(l, c, amount, mode).allocs[c] = a
      /\ \A d \in ContainerIds \ {c} : Take(l, c, amount, mode).allocs[d] = l.allocs[d]
  BY <1>1, <1>2
<1> QED
  BY <1>2, <1>3, <1>4

\* A value put back makes the same function.
LEMMA PutBack ==
  ASSUME NEW S, NEW T, NEW f \in [S -> T], NEW x \in S, NEW v
  PROVE  [[f EXCEPT ![x] = v] EXCEPT ![x] = f[x]] = f
<1>1. \A y \in S : [[f EXCEPT ![x] = v] EXCEPT ![x] = f[x]][y] = f[y]
  OBVIOUS
<1> QED
  BY <1>1

\* An id that is not given out yet has no key; a key that is not occupied is nobody's.
LEMMA FreeKey ==
  ASSUME Books, NEW c \in ContainerIds, c >= nextId, NEW key \in Keys, ~ Occupied(index, key, c)
  PROVE  index.byKey[key] = 0 /\ index.byId[c] = NoKey /\ ~ ledger.allocs[c].held /\ ~ Active(c)
<1>1. ~ Active(c)
  BY DEF Books, Registry, Kept, Active
<1>2. index.byKey[key] # c
  BY <1>1, MaxContainersAssumption DEF Books, Registry, ContainerIds
<1> QED
  BY <1>1, <1>2 DEF Books, Registry, RunningIsKnown, Occupied

\* A container that is refused leaves its id behind and nothing else.
LEMMA RefusedBooks ==
  ASSUME Books, NEW c \in ContainerIds, nextId = c, NEW key \in Keys, NEW amount, NEW mode,
         CreateRefused(c, key, amount, mode), nextId' = c + 1,
         UNCHANGED <<positions, worth>>
  PROVE  Books' /\ containers' = containers
<1>1. index' = index
  <2>1. CASE Occupied(index, key, c) /\ UNCHANGED index
    BY <2>1
  <2>2. CASE ~ Occupied(index, key, c) /\ index' = Unregistered(Registered(index, key, c), c)
    <3>1. index.byKey[key] = 0 /\ index.byId[c] = NoKey /\ c >= nextId /\ c \in Int
      BY <2>2, FreeKey DEF ContainerIds
    <3>2. index \in Index
      BY DEF Books, Types
    <3> DEFINE i == Registered(index, key, c)
    <3>3. key # NoKey
      <4>1. PICK s \in Symbols, x \in Strategies : key = <<s, x>>
        BY DEF Keys
      <4> QED
        BY <4>1 DEF NoKey
    <3>4. i = [byKey |-> [index.byKey EXCEPT ![key] = c], byId |-> [index.byId EXCEPT ![c] = key]]
      BY DEF Registered
    <3>5. i.byId[c] = key
      BY <3>2, <3>4 DEF Index
    <3>6. index' = [byKey |-> [i.byKey EXCEPT ![key] = 0], byId |-> [i.byId EXCEPT ![c] = NoKey]]
      BY <2>2, <3>3, <3>5 DEF Unregistered
    <3>7. [i.byKey EXCEPT ![key] = 0] = index.byKey
      <4>1. index.byKey \in [Keys -> {0} \cup ContainerIds]
        BY <3>2 DEF Index
      <4>2. [[index.byKey EXCEPT ![key] = c] EXCEPT ![key] = index.byKey[key]] = index.byKey
        BY <4>1, PutBack
      <4>3. i.byKey = [index.byKey EXCEPT ![key] = c]
        BY <3>4
      <4> HIDE DEF i
      <4> QED
        BY <3>1, <4>2, <4>3
    <3>8. [i.byId EXCEPT ![c] = NoKey] = index.byId
      <4>1. index.byId \in [ContainerIds -> Keys \cup {NoKey}]
        BY <3>2 DEF Index
      <4>2. [[index.byId EXCEPT ![c] = key] EXCEPT ![c] = index.byId[c]] = index.byId
        BY <4>1, PutBack
      <4>3. i.byId = [index.byId EXCEPT ![c] = key]
        BY <3>4
      <4> HIDE DEF i
      <4> QED
        BY <3>1, <4>2, <4>3
    <3>9. index = [byKey |-> index.byKey, byId |-> index.byId]
      BY <3>2 DEF Index
    <3> QED
      BY <3>6, <3>7, <3>8, <3>9
  <2> QED
    BY <2>1, <2>2 DEF CreateRefused
<1>2. containers' = containers /\ ledger' = ledger
  BY DEF CreateRefused
<1>3. nextId' \in 1..(MaxContainers + 1) /\ nextId' > nextId /\ nextId \in Int
  BY MaxContainersAssumption DEF ContainerIds
<1>4. Types'
  BY <1>1, <1>2, <1>3 DEF Books, Types
<1>5. Registry'
  <2>1. \A d \in ContainerIds : d >= nextId' => ~ Kept(d)'
    BY <1>2, <1>3 DEF Books, Registry, Kept, ContainerIds
  <2> QED
    BY <1>1, <1>2, <2>1 DEF Books, Registry, RunningIsKnown, Active
<1>6. Shares' /\ ResultsKnown'
  BY <1>2 DEF Books, Shares, ResultsKnown, ResultsOf, LedgerHasTheShares, SharesOf, Active
<1> QED
  BY <1>2, <1>4, <1>5, <1>6 DEF Books

\* A container that starts has its key, its allocation and no shares.
LEMMA StartedBooks ==
  ASSUME Books, NEW c \in ContainerIds, nextId = c, NEW symbol \in Symbols, NEW strategy \in Strategies,
         NEW amount \in Int, NEW mode \in Modes,
         CreateStarted(c, symbol, strategy, amount, mode), nextId' = c + 1,
         UNCHANGED <<positions, worth>>
  PROVE  /\ Books'
         /\ Becomes(c, NewContainer(symbol, strategy, amount, mode))
<1> DEFINE key == <<symbol, strategy>>
           j == NewContainer(symbol, strategy, amount, mode)
           k == containers[c]
<1>1. /\ containers \in [ContainerIds -> Container] /\ k \in Container /\ LedgerOK(ledger)
      /\ index \in Index /\ key \in Keys /\ c >= nextId /\ c \in Int
  BY DEF Books, Types, Keys, ContainerIds
<1>2. index.byKey[key] = 0 /\ index.byId[c] = NoKey /\ ~ ledger.allocs[c].held /\ ~ Active(c)
  BY <1>1, FreeKey DEF CreateStarted
<1>3. /\ j \in Container /\ j.status = "Active" /\ j.mode = mode /\ j.symbol = symbol
      /\ j.strategy = strategy /\ j.principal = amount /\ j.holding = NothingHeld
  <2>1. (CHOOSE s \in Symbols : TRUE) \in Symbols /\ (CHOOSE s \in Strategies : TRUE) \in Strategies
    BY DeskAssumption
  <2>2. NoContainer \in Container /\ NoContainer.holding = NothingHeld
    BY <2>1 DEF NoContainer, Container, Modes, Holding, NothingHeld
  <2> QED
    BY <2>2 DEF NewContainer, Container
<1>4. /\ containers' = [containers EXCEPT ![c] = j]
      /\ index' = Registered(index, key, c)
      /\ ledger' = Take(ledger, c, amount, mode) /\ TakeOk(ledger, c, amount, mode)
  BY DEF CreateStarted
<1> HIDE DEF j
<1>5. Becomes(c, j)
  BY <1>1, <1>3, <1>4, Assigned
<1>6. /\ LedgerOK(ledger') /\ ledger'.realized = ledger.realized
      /\ ledger'.allocs[c].held /\ ledger'.allocs[c].principal = amount
      /\ ledger'.allocs[c].real <=> mode = "Real"
      /\ \A d \in ContainerIds \ {c} : ledger'.allocs[d] = ledger.allocs[d]
  <2>1. LedgerOK(ledger')
    BY <1>1, <1>4, TakeKeepsLedgerOK
  <2> DEFINE m == Take(ledger, c, amount, mode)
  <2>2. /\ m.realized = ledger.realized
        /\ m.allocs[c].held /\ m.allocs[c].principal = amount
        /\ m.allocs[c].real <=> mode = "Real"
        /\ \A d \in ContainerIds \ {c} : m.allocs[d] = ledger.allocs[d]
    BY <1>1, Takes
  <2>3. ledger' = m
    BY <1>4
  <2> HIDE DEF m
  <2> QED
    BY <2>1, <2>2, <2>3, Zenon
<1>7. /\ \A d \in ContainerIds : index'.byId[d] = IF d = c THEN key ELSE index.byId[d]
      /\ \A q \in Keys : index'.byKey[q] = IF q = key THEN c ELSE index.byKey[q]
      /\ index' \in Index
  <2>1. index.byKey \in [Keys -> {0} \cup ContainerIds] /\ index.byId \in [ContainerIds -> Keys \cup {NoKey}]
    BY <1>1 DEF Index
  <2>2. index' = [byKey |-> [index.byKey EXCEPT ![key] = c], byId |-> [index.byId EXCEPT ![c] = key]]
    BY <1>4 DEF Registered
  <2>3. /\ [index.byKey EXCEPT ![key] = c] \in [Keys -> {0} \cup ContainerIds]
        /\ [index.byId EXCEPT ![c] = key] \in [ContainerIds -> Keys \cup {NoKey}]
    BY <1>1, <2>1
  <2>4. index' \in Index
    BY <2>2, <2>3 DEF Index
  <2> HIDE DEF key
  <2>5. /\ \A d \in ContainerIds : index'.byId[d] = IF d = c THEN key ELSE index.byId[d]
        /\ \A q \in Keys : index'.byKey[q] = IF q = key THEN c ELSE index.byKey[q]
    BY <2>1, <2>2
  <2> QED
    BY <2>4, <2>5
<1>8. nextId' \in 1..(MaxContainers + 1) /\ nextId' > c
  BY <1>1, MaxContainersAssumption DEF ContainerIds
<1>9. Types'
  BY <1>5, <1>6, <1>7, <1>8 DEF Books, Types, Becomes
<1>10. KeyOf(j) = key /\ Active(c)'
  BY <1>3, <1>5 DEF KeyOf, Becomes, Active
<1> HIDE DEF key
<1>11. Registry'
  <2>1. \A d \in ContainerIds \ {c} : containers'[d] = containers[d] /\ (Active(d)' <=> Active(d))
                                       /\ (Kept(d)' <=> Kept(d))
    BY <1>5 DEF Becomes, Active, Kept
  <2>2. \A d \in ContainerIds : KeyOf(containers[d]) \in Keys
    BY <1>1 DEF KeyOf, Keys, Container
  <2>3. containers'[c] = j
    BY <1>5 DEF Becomes
  <2>4. RunningIsKnown'
    <3>1. ASSUME NEW d \in ContainerIds
          PROVE  /\ index'.byId[d] = IF Active(d)' THEN KeyOf(containers'[d]) ELSE NoKey
                 /\ Active(d)' => index'.byKey[KeyOf(containers'[d])] = d
                 /\ ledger'.allocs[d].held <=> Active(d)'
                 /\ Active(d)' => (ledger'.allocs[d].real <=> containers'[d].mode = "Real")
      <4>1. CASE d = c
        BY <1>1, <1>3, <1>6, <1>7, <1>10, <2>3, <4>1
      <4>2. CASE d # c
        <5>1. ledger'.allocs[d] = ledger.allocs[d] /\ containers'[d] = containers[d]
              /\ (Active(d)' <=> Active(d)) /\ index'.byId[d] = index.byId[d]
          BY <1>6, <1>7, <2>1, <4>2
        <5>2. /\ index.byId[d] = IF Active(d) THEN KeyOf(containers[d]) ELSE NoKey
              /\ Active(d) => index.byKey[KeyOf(containers[d])] = d
              /\ ledger.allocs[d].held <=> Active(d)
              /\ Active(d) => (ledger.allocs[d].real <=> containers[d].mode = "Real")
          BY DEF Books, Registry, RunningIsKnown
        <5>3. Active(d) => index'.byKey[KeyOf(containers[d])] = d
          <6>1. d # 0
            BY MaxContainersAssumption DEF ContainerIds
          <6> QED
            BY <1>2, <1>7, <2>2, <5>2, <6>1
        <5> QED
          BY <5>1, <5>2, <5>3
      <4> QED
        BY <4>1, <4>2
    <3> QED
      BY <3>1 DEF RunningIsKnown
  <2>5. ASSUME NEW q \in Keys, index'.byKey[q] # 0
        PROVE  /\ containers'[index'.byKey[q]].status = "Active"
               /\ KeyOf(containers'[index'.byKey[q]]) = q
    <3>1. CASE q = key
      BY <1>3, <1>7, <1>10, <2>3, <3>1
    <3>2. CASE q # key
      <4>1. index'.byKey[q] = index.byKey[q]
        BY <1>7, <3>2
      <4>2. index.byKey[q] \in ContainerIds
        BY <1>1, <2>5, <4>1 DEF Index
      <4>3. Active(index.byKey[q]) /\ KeyOf(containers[index.byKey[q]]) = q
        BY <2>5, <4>1 DEF Books, Registry
      <4>4. index.byKey[q] # c
        BY <1>2, <4>3
      <4> QED
        BY <2>1, <4>1, <4>2, <4>3, <4>4 DEF Active
    <3> QED
      BY <3>1, <3>2
  <2>6. ASSUME NEW d \in ContainerIds, d >= nextId'
        PROVE  ~ Kept(d)'
    <3>1. d # c /\ d >= nextId
      BY <1>1, <1>8, <2>6 DEF ContainerIds
    <3> QED
      BY <2>1, <3>1 DEF Books, Registry
  <2>7. ASSUME NEW d \in ContainerIds, Active(d)'
        PROVE  ledger'.allocs[d].principal = containers'[d].principal
    BY <1>3, <1>6, <2>1, <2>3, <2>7 DEF Books, Registry
  <2> QED
    BY <2>4, <2>5, <2>6, <2>7 DEF Registry, Active
<1>12. Shares'
  <2>1. k.holding.pos = 0
    <3>1. k.holding.pos \in Nat
      BY <1>1 DEF Container, Holding
    <3> QED
      BY <1>2, <3>1 DEF Books, Shares
  <2>2. \A s \in Symbols : Share(j, s) = Share(k, s)
    BY <1>3, <2>1 DEF Share, NothingHeld
  <2>3. j.holding.pos > 0 => FALSE
    BY <1>3 DEF NothingHeld
  <2> QED
    BY <1>3, <1>5, <2>2, <2>3, SharesStay
<1>13. ResultsKnown'
  <2>1. k.status = "None"
    BY DEF Books, Registry, Kept, ContainerIds
  <2>2. Result(j, Modes) = Result(k, Modes)
    BY <1>3, <2>1 DEF Result
  <2> QED
    BY <1>3, <1>5, <1>6, <2>2, ResultsStay
<1> QED
  BY <1>5, <1>9, <1>11, <1>12, <1>13 DEF Books, j

-------------------------------------------------------------------------------
(* What a step does to the containers.                                     *)

\* A container that has stopped is left alone.
Steady == \A c \in ContainerIds : containers[c].status = "Stopped" => containers'[c] = containers[c]

\* Nobody gets more shares.
NoMore ==
  \A c \in ContainerIds : containers'[c].holding.pos \in {containers[c].holding.pos, 0}

\* Only one container changes, which had not stopped.
LEMMA OneChanges ==
  ASSUME NEW c \in ContainerIds, NEW j, Becomes(c, j), containers[c].status # "Stopped"
  PROVE  /\ Steady
         /\ j.holding.pos \in {containers[c].holding.pos, 0} => NoMore
BY DEF Becomes, Steady, NoMore

\* Leaving sells what there was.
LEMMA LeaveStep ==
  ASSUME Books, NEW c \in ContainerIds, Active(c), Leave(c), nextId' = nextId
  PROVE  Books' /\ Steady /\ NoMore /\ containers'[c].holding.pos = 0
<1>1. Books'
  BY LeaveBooks
<1>2. PICK j : Becomes(c, j) /\ j.status = "Stopped" /\ j.holding.pos = 0
  BY LeaveBooks
<1>3. Steady /\ NoMore
  BY <1>2, OneChanges DEF Active
<1> QED
  BY <1>1, <1>2, <1>3 DEF Becomes

\* So does a square-off.
LEMMA FlattenStep ==
  ASSUME Books, NEW c \in ContainerIds, Active(c), Flatten(c), UNCHANGED <<nextId, ledger, index>>
  PROVE  Books' /\ Steady /\ NoMore /\ containers'[c].holding.pos = 0
<1> DEFINE k == containers[c]
<1>1. k \in Container /\ (k.holding.pos > 0 => k.hasBar) /\ k.holding.pos \in Nat
  BY DEF Books, Types, Shares, Container, Holding
<1>2. FlattenOk(k) <=> k.holding.pos > 0
  BY <1>1, FlattenSells
<1>3. CASE FlattenOk(k)
  <2> DEFINE fill == FlattenFill(k)
  <2>1. FillGood(fill) /\ fill.side = "Sell" /\ fill.qty = k.holding.pos
    BY <1>1, <1>3, FlattenSells
  <2>2. OnFill(c, fill)
    BY <1>3 DEF Flatten
  <2>3. Flattened(k) = Holds(k, fill) /\ Flattened(k).holding.pos = 0
    BY <1>1, <1>3, FlattenSells DEF Flattened
  <2> HIDE DEF fill
  <2>4. Books' /\ Becomes(c, Holds(k, fill))
    BY <1>1, <1>2, <1>3, <2>1, <2>2, FillBooks
  <2>5. Steady /\ NoMore
    BY <2>3, <2>4, OneChanges DEF Active
  <2> QED
    BY <2>3, <2>4, <2>5 DEF Becomes
<1>4. CASE ~ FlattenOk(k)
  <2>1. UNCHANGED <<containers, positions, worth>>
    BY <1>4 DEF Flatten
  <2>2. Books'
    BY <2>1, StayBooks
  <2> QED
    BY <1>1, <1>2, <1>4, <2>1, <2>2 DEF Steady, NoMore
<1> QED
  BY <1>3, <1>4

-------------------------------------------------------------------------------
(* The call that goes round.                                               *)

(* Intents are those of a container that runs and has heard its bar.       *)
Round ==
  /\ switches \in Switches
  /\ call \in Calls
  /\ queue \subseteq ContainerIds
  /\ intents \in Seq(Intent) /\ Len(intents) <= MaxIntents
  /\ exiting \in BOOLEAN
  /\ bars \in 0..MaxBars
  /\ Idle <=> call = NoCall
  /\ intents # <<>> \/ exiting =>
       /\ ~ Idle /\ call.op = "bar"
       /\ Active(Min(queue)) /\ containers[Min(queue)].hasBar

Halting == call.op = "event" /\ call.type \in {"KillSwitch", "MisSquareoffWarning"}

(* A call that halts has sold the shares of those it has visited; after it *)
(* nobody has any.                                                         *)
Halt ==
  /\ Halting => \A c \in ContainerIds : c \notin queue => containers[c].holding.pos = 0
  /\ (switches.kill \/ switches.mis) /\ ~ Halting =>
       \A c \in ContainerIds : containers[c].holding.pos = 0

IInv == Books /\ Round /\ Halt

\* The first container of a round is one of it.
LEMMA FirstOfRound ==
  ASSUME NEW S \in SUBSET ContainerIds, S # {}
  PROVE  Min(S) \in S
<1>1. S \in SUBSET Nat
  BY DEF ContainerIds
<1>2. PICK x \in S : \A y \in S : ~ (<<y, x>> \in LessThan)
  BY <1>1, LessThanWellFounded, WFMin
<1>3. ASSUME NEW y \in S
      PROVE  x <= y
  <2>1. x \in Nat /\ y \in Nat
    BY <1>1
  <2>2. ~ (<<y, x>> \in LessThan)
    BY <1>2
  <2>3. <<y, x>>[1] = y /\ <<y, x>>[2] = x
    OBVIOUS
  <2>4. ~ (y < x)
    BY <2>1, <2>2, <2>3 DEF LessThan
  <2> QED
    BY <2>1, <2>4
<1>4. \E m \in S : \A y \in S : m <= y
  BY <1>3
<1> QED
  BY <1>4 DEF Min

\* The calls are these.
LEMMA CallFacts ==
  /\ NoCall \in Calls /\ NoCall.op = "none"
  /\ \A aCall \in Calls : aCall.op = "bar" => aCall.close \in Nat
  /\ \A aCall \in Calls : aCall.op = "event" => aCall.type \in EventTypes
  /\ \A aCall \in Calls : aCall.op # "none" => aCall # NoCall
<1>1. NoCall \in Calls /\ NoCall.op = "none"
  BY DEF Calls, NoCall
<1>2. ASSUME NEW aCall \in Calls
      PROVE  /\ aCall.op = "bar" => aCall.close \in Nat
             /\ aCall.op = "event" => aCall.type \in EventTypes
  <2>1. CASE aCall \in {NoCall, [op |-> "exitAll"]}
    BY <2>1 DEF NoCall
  <2>2. CASE aCall \in [op : {"bar"}, symbol : Symbols, close : Closes, inHours : BOOLEAN]
    <3>1. aCall.op = "bar" /\ aCall.close \in Closes
      BY <2>2
    <3> QED
      BY <3>1, DeskAssumption
  <2>3. CASE aCall \in [op : {"event"}, type : EventTypes]
    <3>1. aCall.op = "event" /\ aCall.type \in EventTypes
      BY <2>3
    <3> QED
      BY <3>1
  <2> QED
    BY <2>1, <2>2, <2>3 DEF Calls
<1>3. \A aCall \in Calls : aCall.op # "none" => aCall # NoCall
  BY <1>1
<1> QED
  BY <1>1, <1>2, <1>3

\* The end of a visit.
LEMMA DoneRound ==
  ASSUME Round, ~ Idle, Done, switches' \in Switches, bars' = bars
  PROVE  Round'
<1>1. queue' \subseteq ContainerIds /\ (queue' = {} <=> call' = NoCall) /\ call' \in Calls
  BY CallFacts DEF Round, Idle, Done
<1>2. intents' = <<>> /\ exiting' = FALSE
  BY DEF Done
<1>3. intents' \in Seq(Intent) /\ Len(intents') <= MaxIntents
  BY <1>2, DeskAssumption
<1> QED
  BY <1>1, <1>2, <1>3 DEF Round, Idle

\* A step that does not halt leaves everyone flat who was.
LEMMA HaltStays ==
  ASSUME Halt, NoMore, switches' = switches, ~ Halting, ~ Halting'
  PROVE  Halt'
BY DEF Halt, NoMore

-------------------------------------------------------------------------------
(* The steps.                                                              *)

\* Nothing but the containers changes in a round that stands still.
LEMMA RoundStays ==
  ASSUME Round, Idle, UNCHANGED <<switches, call, queue, intents, exiting, bars>>
  PROVE  Round' /\ ~ Halting /\ ~ Halting'
BY CallFacts DEF Round, Idle, Halting

\* create
LEMMA CreateStep ==
  ASSUME IInv, NEW symbol \in Symbols, NEW strategy \in Strategies, NEW amount \in Int,
         NEW mode \in Modes, Create(symbol, strategy, amount, mode)
  PROVE  IInv' /\ Steady
<1>1. /\ Books /\ Round /\ Halt /\ Idle
      /\ UNCHANGED <<positions, switches, call, queue, intents, exiting, bars, worth>>
  BY DEF IInv, Create
<1>2. Round' /\ ~ Halting /\ ~ Halting'
  BY <1>1, RoundStays
<1>3. nextId \in ContainerIds /\ amount \in Int /\ <<symbol, strategy>> \in Keys
  BY <1>1, MaxContainersAssumption DEF Create, Books, Types, ContainerIds, Keys
<1>4. PICK c \in ContainerIds : nextId = c
  BY <1>3
<1>5. /\ nextId' = c + 1
      /\ \/ CreateRefused(c, <<symbol, strategy>>, amount, mode)
         \/ CreateStarted(c, symbol, strategy, amount, mode)
  BY <1>4 DEF Create
<1>6. CASE CreateRefused(c, <<symbol, strategy>>, amount, mode)
  <2>1. Books' /\ containers' = containers
    BY <1>1, <1>3, <1>4, <1>5, <1>6, RefusedBooks
  <2>2. Steady /\ NoMore
    BY <2>1 DEF Steady, NoMore
  <2> QED
    BY <1>1, <1>2, <2>1, <2>2, HaltStays DEF IInv
<1>7. CASE CreateStarted(c, symbol, strategy, amount, mode)
  <2> DEFINE j == NewContainer(symbol, strategy, amount, mode)
  <2>1. Books' /\ Becomes(c, j)
    BY <1>1, <1>3, <1>4, <1>5, <1>7, StartedBooks
  <2>2. j.holding.pos = 0
    BY DEF NewContainer, NoContainer, NothingHeld
  <2>3. containers[c].status # "Stopped"
    BY <1>1, <1>4 DEF Books, Registry, Kept, ContainerIds
  <2>4. Steady /\ NoMore
    BY <2>1, <2>2, <2>3, OneChanges
  <2> QED
    BY <1>1, <1>2, <2>1, <2>4, HaltStays DEF IInv
<1> QED
  BY <1>5, <1>6, <1>7

\* kill
LEMMA KillStep ==
  ASSUME IInv, NEW c \in ContainerIds, Kill(c)
  PROVE  IInv' /\ Steady
<1>1. /\ Books /\ Round /\ Halt /\ Idle /\ Active(c) /\ Leave(c) /\ nextId' = nextId
      /\ UNCHANGED <<switches, call, queue, intents, exiting, bars>>
  BY DEF IInv, Kill
<1>2. Round' /\ ~ Halting /\ ~ Halting'
  BY <1>1, RoundStays
<1>3. Books' /\ Steady /\ NoMore
  BY <1>1, LeaveStep
<1> QED
  BY <1>1, <1>2, <1>3, HaltStays DEF IInv

\* upgrade
LEMMA UpgradeStep ==
  ASSUME IInv, NEW c \in ContainerIds, Upgrade(c)
  PROVE  IInv' /\ Steady
<1>1. /\ Books /\ Round /\ Halt /\ Idle /\ Active(c)
      /\ UpgradePaper(c) \/ UpgradeReal(c)
      /\ UNCHANGED <<nextId, positions, index, worth>>
      /\ UNCHANGED <<switches, call, queue, intents, exiting, bars>>
  BY DEF IInv, Upgrade
<1>2. Round' /\ ~ Halting /\ ~ Halting'
  BY <1>1, RoundStays
<1>3. Books' /\ \E mode : Becomes(c, [containers[c] EXCEPT !.mode = mode])
  BY <1>1, UpgradeBooks
<1>4. PICK mode : Becomes(c, [containers[c] EXCEPT !.mode = mode])
  BY <1>3
<1>5. [containers[c] EXCEPT !.mode = mode].holding = containers[c].holding
  <2>1. containers[c] \in Container
    BY <1>1 DEF Books, Types
  <2> QED
    BY <2>1 DEF Container
<1>6. Steady /\ NoMore
  BY <1>1, <1>4, <1>5, OneChanges DEF Active
<1> QED
  BY <1>1, <1>2, <1>3, <1>6, HaltStays DEF IInv

\* The call tells the containers to sell.
Halts(aCall) == aCall.op = "event" /\ aCall.type \in {"KillSwitch", "MisSquareoffWarning"}

\* The start of a round: nobody has shares who is not of it.
LEMMA StartStep ==
  ASSUME IInv, NEW aCall \in Calls, aCall.op # "none", Start(aCall),
         switches' \in Switches, bars' \in 0..MaxBars,
         switches'.kill \/ switches'.mis => switches.kill \/ switches.mis \/ Halts(aCall)
  PROVE  IInv' /\ Steady
<1>1. /\ Books /\ Round /\ Halt /\ Idle
      /\ queue' = {c \in ContainerIds : Kept(c)}
      /\ call' = IF queue' = {} THEN NoCall ELSE aCall
      /\ UNCHANGED <<containers, nextId, ledger, positions, index, intents, exiting, worth>>
  BY DEF IInv, Start
<1>2. Books'
  BY <1>1, StayBooks
<1>3. Round'
  <2>1. queue' \subseteq ContainerIds /\ (queue' = {} <=> call' = NoCall) /\ call' \in Calls
    BY <1>1, CallFacts
  <2>2. intents = <<>> /\ exiting = FALSE
    BY <1>1 DEF Round
  <2> QED
    BY <1>1, <2>1, <2>2 DEF Round, Idle
<1>4. Halt'
  <2>1. ~ Halting
    BY <1>1, CallFacts DEF Round, Halting
  <2>2. ASSUME NEW c \in ContainerIds, c \notin queue'
        PROVE  containers'[c].holding.pos = 0
    <3>1. ~ Active(c)
      BY <1>1, <2>2 DEF Kept, Active
    <3>2. containers[c].holding.pos \in Nat
      BY <1>1 DEF Books, Types, Container, Holding
    <3> QED
      BY <1>1, <3>1, <3>2 DEF Books, Shares
  <2>3. ASSUME switches'.kill \/ switches'.mis, ~ Halting', NEW c \in ContainerIds
        PROVE  containers'[c].holding.pos = 0
    <3>1. CASE queue' = {}
      BY <2>2, <3>1
    <3>2. CASE queue' # {}
      <4>1. ~ Halts(aCall)
        BY <1>1, <2>3, <3>2 DEF Halting, Halts
      <4> QED
        BY <1>1, <2>1, <2>3, <4>1 DEF Halt
    <3> QED
      BY <3>1, <3>2
  <2> QED
    BY <2>2, <2>3 DEF Halt
<1>5. Steady
  BY <1>1 DEF Steady
<1> QED
  BY <1>2, <1>3, <1>4, <1>5 DEF IInv

\* on_bar, on_system_event and force_exit_remaining start
LEMMA CallStep ==
  ASSUME IInv,
         \/ \E symbol \in Symbols, close \in Closes, inHours \in BOOLEAN : CallBar(symbol, close, inHours)
         \/ \E type \in EventTypes : CallEvent(type)
         \/ CallExitAll
  PROVE  IInv' /\ Steady
<1>1. bars \in 0..MaxBars /\ switches \in Switches
  BY DEF IInv, Round
<1>2. ASSUME NEW symbol \in Symbols, NEW close \in Closes, NEW inHours \in BOOLEAN,
             CallBar(symbol, close, inHours)
      PROVE  IInv' /\ Steady
  <2> DEFINE aCall == [op |-> "bar", symbol |-> symbol, close |-> close, inHours |-> inHours]
  <2>1. aCall \in Calls /\ aCall.op # "none"
    BY DEF Calls
  <2>2. Start(aCall) /\ switches' = switches /\ bars' \in 0..MaxBars
    BY <1>1, <1>2, DeskAssumption DEF CallBar
  <2> HIDE DEF aCall
  <2> QED
    BY <1>1, <2>1, <2>2, StartStep
<1>3. ASSUME NEW type \in EventTypes, CallEvent(type)
      PROVE  IInv' /\ Steady
  <2> DEFINE aCall == [op |-> "event", type |-> type]
  <2>1. aCall \in Calls /\ aCall.op # "none"
    BY DEF Calls
  <2>2. Start(aCall) /\ switches' = switches /\ bars' \in 0..MaxBars
    BY <1>1, <1>3 DEF CallEvent
  <2> HIDE DEF aCall
  <2> QED
    BY <1>1, <2>1, <2>2, StartStep
<1>4. ASSUME CallExitAll
      PROVE  IInv' /\ Steady
  <2> DEFINE aCall == [op |-> "exitAll"]
  <2>1. aCall \in Calls /\ aCall.op # "none"
    BY DEF Calls
  <2>2. Start(aCall) /\ switches' = switches /\ bars' \in 0..MaxBars
    BY <1>1, <1>4 DEF CallExitAll
  <2> HIDE DEF aCall
  <2> QED
    BY <1>1, <2>1, <2>2, StartStep
<1> QED
  BY <1>2, <1>3, <1>4

\* A visit that is over, of a round that does not halt.
LEMMA DoneStep ==
  ASSUME Halt, Round, ~ Idle, call.op # "event", Done, UNCHANGED <<switches, bars>>, NoMore
  PROVE  Round' /\ Halt'
<1>1. Round'
  BY DoneRound DEF Round
<1>2. ~ Halting /\ ~ Halting'
  BY CallFacts DEF Done, Halting
<1> QED
  BY <1>1, <1>2, HaltStays

\* A step within a visit of a bar.
LEMMA BarGoesOn ==
  ASSUME Halt, Round, ~ Idle, call.op = "bar", UNCHANGED <<switches, call, queue, bars>>, NoMore,
         intents' \in Seq(Intent), Len(intents') <= MaxIntents, exiting' \in BOOLEAN,
         containers'[Min(queue)].status = "Active", containers'[Min(queue)].hasBar
  PROVE  Round' /\ Halt'
<1>1. Round'
  BY DEF Round, Idle, Active
<1>2. ~ Halting /\ ~ Halting'
  BY DEF Halting
<1> QED
  BY <1>1, <1>2, HaltStays

\* The first of the intents, and the others.
LEMMA FirstIntent ==
  ASSUME Round, intents # <<>>
  PROVE  /\ Head(intents) \in Intent
         /\ Tail(intents) \in Seq(Intent) /\ Len(Tail(intents)) <= MaxIntents
BY DeskAssumption DEF Round

\* The next intent of the same bar, or the next container.
LEMMA NextIntentStep ==
  ASSUME Halt, Round, ~ Idle, call.op = "bar", intents # <<>>, NextIntent,
         UNCHANGED <<switches, bars>>, NoMore,
         containers'[Min(queue)].status = "Active", containers'[Min(queue)].hasBar
  PROVE  Round' /\ Halt'
<1>1. CASE Len(intents) = 1
  BY <1>1, DoneStep DEF NextIntent
<1>2. CASE Len(intents) # 1
  <2>1. intents' = Tail(intents) /\ UNCHANGED <<queue, call, exiting>>
    BY <1>2 DEF NextIntent
  <2>2. intents' \in Seq(Intent) /\ Len(intents') <= MaxIntents /\ exiting' \in BOOLEAN
    BY <2>1, FirstIntent DEF Round
  <2> QED
    BY <2>1, <2>2, BarGoesOn
<1> QED
  BY <1>1, <1>2

\* on_bar of a container that does not look
LEMMA SkipStep ==
  ASSUME IInv, ~ Idle, call.op = "bar", NEW c \in ContainerIds, SkipBar(c)
  PROVE  IInv' /\ Steady
<1>1. /\ Books /\ Round /\ Halt /\ Done
      /\ UNCHANGED <<containers, nextId, ledger, positions, index, switches, bars, worth>>
  BY DEF IInv, SkipBar
<1>2. Books'
  BY <1>1, StayBooks
<1>3. Steady /\ NoMore
  BY <1>1 DEF Steady, NoMore
<1>4. Round' /\ Halt'
  BY <1>1, <1>3, DoneStep
<1> QED
  BY <1>2, <1>3, <1>4 DEF IInv

\* on_bar: the price, and what the strategy decides
LEMMA OnBarStep ==
  ASSUME IInv, ~ Idle, call.op = "bar", NEW c \in ContainerIds, c = Min(queue), OnBar(c)
  PROVE  IInv' /\ Steady
<1> DEFINE j == [containers[c] EXCEPT !.hasBar = TRUE, !.last = call.close]
<1>1. /\ Books /\ Round /\ Halt /\ Active(c)
      /\ containers' = [containers EXCEPT ![c] = [@ EXCEPT !.hasBar = TRUE, !.last = call.close]]
      /\ UNCHANGED <<nextId, ledger, positions, index, switches, bars, worth>>
  BY DEF IInv, OnBar
<1>2. call.close \in Nat
  BY <1>1, CallFacts DEF Round
<1>3. Books' /\ Becomes(c, j)
  BY <1>1, <1>2, BarBooks
<1>4. j.holding = containers[c].holding /\ j.status = "Active" /\ j.hasBar
  <2>1. containers[c] \in Container
    BY <1>1 DEF Books, Types
  <2> QED
    BY <1>1, <2>1 DEF Container, Active
<1> HIDE DEF j
<1>5. Steady /\ NoMore
  BY <1>1, <1>3, <1>4, OneChanges DEF Active
<1>6. containers'[Min(queue)].status = "Active" /\ containers'[Min(queue)].hasBar
  BY <1>3, <1>4 DEF Becomes
<1>7. PICK decided \in IntentSeqs :
        IF decided = <<>> THEN Done ELSE intents' = decided /\ UNCHANGED <<queue, call, exiting>>
  BY DEF OnBar
<1>8. decided \in Seq(Intent) /\ Len(decided) <= MaxIntents
  <2>1. PICK n \in 0..MaxIntents : decided \in [1..n -> Intent]
    BY DEF IntentSeqs
  <2> QED
    BY <2>1, DeskAssumption
<1>9. CASE decided = <<>>
  <2>1. Round' /\ Halt'
    BY <1>1, <1>5, <1>7, <1>9, DoneStep
  <2> QED
    BY <1>3, <1>5, <2>1 DEF IInv
<1>10. CASE decided # <<>>
  <2>1. intents' = decided /\ UNCHANGED <<queue, call, exiting>>
    BY <1>7, <1>10
  <2>2. exiting' \in BOOLEAN
    BY <1>1, <2>1 DEF Round
  <2>3. Round' /\ Halt'
    BY <1>1, <1>5, <1>6, <1>8, <2>1, <2>2, BarGoesOn
  <2> QED
    BY <1>3, <1>5, <2>3 DEF IInv
<1> QED
  BY <1>9, <1>10

\* An intent is refused.
LEMMA RefuseStep ==
  ASSUME IInv, ~ Idle, call.op = "bar", NEW c \in ContainerIds, c = Min(queue), Refuse(c)
  PROVE  IInv' /\ Steady
<1>1. /\ Books /\ Round /\ Halt /\ NextIntent /\ intents # <<>>
      /\ UNCHANGED <<containers, nextId, ledger, positions, index, switches, bars, worth>>
  BY DEF IInv, Refuse
<1>2. Books'
  BY <1>1, StayBooks
<1>3. Steady /\ NoMore
  BY <1>1 DEF Steady, NoMore
<1>4. containers'[Min(queue)].status = "Active" /\ containers'[Min(queue)].hasBar
  BY <1>1 DEF Round, Active
<1>5. Round' /\ Halt'
  BY <1>1, <1>3, <1>4, NextIntentStep
<1> QED
  BY <1>2, <1>3, <1>5 DEF IInv

\* An intent is filled, before a halt.
LEMMA TradeStep ==
  ASSUME IInv, ~ Idle, call.op = "bar", NEW c \in ContainerIds, c = Min(queue), Trade(c)
  PROVE  IInv' /\ Steady
<1> DEFINE k == containers[c]
           i == Head(intents)
           fill == Fill(i.side, i.qty, call.close, k.holding.avg)
           j == Holds(k, fill)
<1>1. /\ Books /\ Round /\ Halt /\ intents # <<>> /\ FillOk(k, i) /\ OnFill(c, fill)
      /\ \/ NextIntent
         \/ exiting' = TRUE /\ intents' = <<>> /\ UNCHANGED <<queue, call>>
      /\ UNCHANGED <<nextId, ledger, index, switches, bars>>
  BY DEF IInv, Trade
<1>2. Active(c) /\ k.hasBar
  BY <1>1 DEF Round
<1>3. k \in Container /\ k.holding.avg \in Nat /\ call.close \in Nat
  BY <1>1, CallFacts DEF Books, Types, Round, Container, Holding
<1>4. i.side \in Sides /\ i.qty \in Nat
  BY <1>1, FirstIntent, DeskAssumption DEF Intent
<1>5. /\ ~ switches.kill /\ ~ switches.mis
      /\ i.qty > 0 /\ (i.side = "Sell" => i.qty <= k.holding.pos)
  BY <1>1 DEF FillOk, Approved, SubmitOk
<1>6. FillGood(fill) /\ fill.side = i.side /\ fill.qty = i.qty
  BY <1>3, <1>4, <1>5, FillIsGood
<1> HIDE DEF i, fill
<1>7. Books' /\ Becomes(c, j)
  BY <1>1, <1>2, <1>5, <1>6, FillBooks
<1>8. SameTerms(k, j) /\ j.hasBar = k.hasBar
  BY <1>3, <1>6, HoldsFill
<1> HIDE DEF j
<1>9. Steady
  BY <1>2, <1>7, OneChanges DEF Active
<1>10. containers'[Min(queue)].status = "Active" /\ containers'[Min(queue)].hasBar
  BY <1>2, <1>7, <1>8 DEF Becomes, SameTerms, Active
<1>11. Round' /\ ~ Halting'
  <2>1. CASE NextIntent /\ Len(intents) = 1
    <3>1. Done
      BY <2>1 DEF NextIntent
    <3> QED
      BY <1>1, <3>1, CallFacts, DoneRound DEF Round, Done, Halting
  <2>2. CASE NextIntent /\ Len(intents) # 1
    <3>1. intents' = Tail(intents) /\ UNCHANGED <<queue, call, exiting>>
      BY <2>2 DEF NextIntent
    <3>2. intents' \in Seq(Intent) /\ Len(intents') <= MaxIntents
      BY <1>1, <3>1, FirstIntent
    <3> QED
      BY <1>1, <1>10, <3>1, <3>2 DEF Round, Idle, Active, Halting
  <2>3. CASE exiting' = TRUE /\ intents' = <<>> /\ UNCHANGED <<queue, call>>
    <3>1. intents' \in Seq(Intent) /\ Len(intents') <= MaxIntents
      BY <2>3, DeskAssumption
    <3> QED
      BY <1>1, <1>10, <2>3, <3>1 DEF Round, Idle, Active, Halting
  <2> QED
    BY <1>1, <2>1, <2>2, <2>3
<1>12. Halt'
  BY <1>1, <1>5, <1>11 DEF Halt
<1> QED
  BY <1>7, <1>9, <1>11, <1>12 DEF IInv

\* The strategy exits.
LEMMA ExitStep ==
  ASSUME IInv, ~ Idle, call.op = "bar", NEW c \in ContainerIds, c = Min(queue), Exit(c)
  PROVE  IInv' /\ Steady
<1>1. /\ Books /\ Round /\ Halt /\ exiting /\ Leave(c) /\ Done
      /\ UNCHANGED <<nextId, switches, bars>>
  BY DEF IInv, Exit
<1>2. Active(c)
  BY <1>1 DEF Round
<1>3. Books' /\ Steady /\ NoMore
  BY <1>1, <1>2, LeaveStep
<1>4. Round' /\ Halt'
  BY <1>1, <1>3, DoneStep
<1> QED
  BY <1>3, <1>4 DEF IInv

\* force_exit_remaining of one container
LEMMA ExitAllStep ==
  ASSUME IInv, ~ Idle, NEW c \in ContainerIds, VisitExit(c)
  PROVE  IInv' /\ Steady
<1>1. /\ Books /\ Round /\ Halt /\ Done /\ call.op = "exitAll"
      /\ UNCHANGED <<nextId, switches, bars>>
      /\ IF Active(c) THEN Leave(c) ELSE UNCHANGED <<containers, positions, worth, index, ledger>>
  BY DEF IInv, VisitExit, Visit
<1>2. Books' /\ Steady /\ NoMore
  <2>1. CASE Active(c)
    BY <1>1, <2>1, LeaveStep
  <2>2. CASE ~ Active(c)
    <3>1. Books'
      BY <1>1, <2>2, StayBooks
    <3> QED
      BY <1>1, <2>2, <3>1 DEF Steady, NoMore
  <2> QED
    BY <2>1, <2>2
<1>3. Round' /\ Halt'
  BY <1>1, <1>2, DoneStep
<1> QED
  BY <1>2, <1>3 DEF IInv

\* What the risk engine hears.
LEMMA HeardSwitches ==
  ASSUME NEW s \in Switches, NEW type \in EventTypes
  PROVE  /\ Heard(s, type) \in Switches
         /\ type \notin {"KillSwitch", "MisSquareoffWarning"} =>
              (Heard(s, type).kill \/ Heard(s, type).mis => s.kill \/ s.mis)
<1>1. CASE type = "KillSwitch"
  BY <1>1 DEF Heard, Switches
<1>2. CASE type = "MisSquareoffWarning"
  BY <1>2 DEF Heard, Switches
<1>3. CASE type = "SessionStart"
  <2>1. Heard(s, type) = [s EXCEPT !.mis = FALSE]
    BY <1>3 DEF Heard
  <2> QED
    BY <2>1 DEF Switches
<1>4. CASE type = "SessionEnd"
  BY <1>4 DEF Heard, Switches
<1> QED
  BY <1>1, <1>2, <1>3, <1>4 DEF EventTypes

\* on_system_event of one container
LEMMA EventStep ==
  ASSUME IInv, ~ Idle, NEW c \in ContainerIds, c = Min(queue), VisitEvent(c)
  PROVE  IInv' /\ Steady
<1>1. /\ Books /\ Round /\ Halt /\ Done /\ call.op = "event"
      /\ switches' = Heard(switches, call.type) /\ UNCHANGED <<nextId, bars>>
      /\ \/ Active(c) /\ call.type = "KillSwitch" /\ Leave(c)
         \/ /\ Active(c) /\ call.type = "MisSquareoffWarning" /\ Flatten(c)
            /\ UNCHANGED <<index, ledger>>
         \/ /\ ~ Active(c) \/ call.type \in {"SessionStart", "SessionEnd"}
            /\ UNCHANGED <<containers, positions, worth, index, ledger>>
  BY DEF IInv, VisitEvent, Visit
<1>2. switches \in Switches /\ call.type \in EventTypes
  BY <1>1, CallFacts DEF Round
<1>3. switches' \in Switches
  BY <1>1, <1>2, HeardSwitches
<1>4. Round'
  BY <1>1, <1>3, DoneRound
<1>5. Books' /\ Steady /\ NoMore /\ (Halting => containers'[c].holding.pos = 0)
  <2>1. CASE Active(c) /\ call.type = "KillSwitch" /\ Leave(c)
    BY <1>1, <2>1, LeaveStep
  <2>2. CASE Active(c) /\ call.type = "MisSquareoffWarning" /\ Flatten(c) /\ UNCHANGED <<index, ledger>>
    BY <1>1, <2>2, FlattenStep
  <2>3. CASE /\ ~ Active(c) \/ call.type \in {"SessionStart", "SessionEnd"}
             /\ UNCHANGED <<containers, positions, worth, index, ledger>>
    <3>1. Books'
      BY <1>1, <2>3, StayBooks
    <3>2. Halting => ~ Active(c)
      BY <2>3 DEF Halting
    <3>3. ~ Active(c) => containers[c].holding.pos = 0
      <4>1. containers[c].holding.pos \in Nat
        BY <1>1 DEF Books, Types, Container, Holding
      <4> QED
        BY <1>1, <4>1 DEF Books, Shares
    <3> QED
      BY <2>3, <3>1, <3>2, <3>3 DEF Steady, NoMore
  <2> QED
    BY <1>1, <2>1, <2>2, <2>3
<1>6. Halt'
  <2>1. CASE Halting
    <3>1. ASSUME NEW d \in ContainerIds, d \notin queue'
          PROVE  containers'[d].holding.pos = 0
      <4>1. d = c \/ d \notin queue
        BY <1>1, <3>1 DEF Done
      <4> QED
        BY <1>1, <1>5, <2>1, <4>1 DEF Halt, NoMore
    <3>2. ~ Halting' => queue' = {}
      BY <1>1, <2>1 DEF Done, Halting
    <3> QED
      BY <3>1, <3>2 DEF Halt
  <2>2. CASE ~ Halting
    <3>1. ~ Halting'
      BY <1>1, <2>2, CallFacts DEF Done, Halting
    <3>2. switches'.kill \/ switches'.mis => switches.kill \/ switches.mis
      BY <1>1, <1>2, <2>2, HeardSwitches DEF Halting
    <3> QED
      BY <1>1, <1>5, <2>2, <3>1, <3>2 DEF Halt, NoMore
  <2> QED
    BY <2>1, <2>2
<1> QED
  BY <1>4, <1>5, <1>6 DEF IInv

\* A sum of nothing.
LEMMA NothingSums ==
  SumUpTo([c \in ContainerIds |-> 0], MaxContainers) = 0
BY SumOfZeros, MaxContainersAssumption DEF ContainerIds

\* Nor is there a result when nobody has stopped.
LEMMA NothingResults ==
  ASSUME NEW modes,
         \A c \in ContainerIds : ~ (containers[c].status = "Stopped" /\ containers[c].mode \in modes)
  PROVE  ResultsOf(modes) = 0
<1>1. [c \in ContainerIds |-> IF containers[c].status = "Stopped" /\ containers[c].mode \in modes
                              THEN containers[c].cash - containers[c].principal ELSE 0]
        = [c \in ContainerIds |-> 0]
  OBVIOUS
<1> QED
  BY <1>1, NothingSums DEF ResultsOf

\* The desk starts with nothing.
LEMMA InitHolds ==
  ASSUME DeskInit
  PROVE  IInv
<1>1. NoContainer \in Container /\ NoContainer.holding.pos = 0 /\ NoContainer.status = "None"
  <2>1. (CHOOSE s \in Symbols : TRUE) \in Symbols /\ (CHOOSE s \in Strategies : TRUE) \in Strategies
    BY DeskAssumption
  <2> QED
    BY <2>1 DEF NoContainer, Container, Modes, Holding, NothingHeld
<1>2. \A c \in ContainerIds : containers[c] = NoContainer
  BY DEF DeskInit
<1>3. Types
  <2>1. LedgerOK(ledger)
    BY NewLedgerOK, DeskAssumption DEF DeskInit
  <2>2. nextId \in 1..(MaxContainers + 1)
    BY MaxContainersAssumption DEF DeskInit
  <2>3. index \in Index
    BY DEF DeskInit, EmptyIndex, Index
  <2> QED
    BY <1>1, <2>1, <2>2, <2>3 DEF DeskInit, Types, Holding, NothingHeld
<1>4. Registry
  <2>1. \A c \in ContainerIds : ~ Active(c) /\ ~ Kept(c)
    BY <1>1, <1>2 DEF Active, Kept
  <2>2. \A c \in ContainerIds : index.byId[c] = NoKey
    BY DEF DeskInit, EmptyIndex
  <2>3. \A key \in Keys : index.byKey[key] = 0
    BY DEF DeskInit, EmptyIndex
  <2>4. \A c \in ContainerIds : ~ ledger.allocs[c].held
    BY DEF DeskInit, NewLedger, NoAllocation
  <2> QED
    BY <2>1, <2>2, <2>3, <2>4 DEF Registry, RunningIsKnown
<1>5. Shares
  <2>1. ASSUME NEW s \in Symbols
        PROVE  positions[s].pos = SharesOf(s)
    <3>1. [c \in ContainerIds |-> IF containers[c].symbol = s THEN containers[c].holding.pos ELSE 0]
            = [c \in ContainerIds |-> 0]
      BY <1>1, <1>2
    <3>2. SharesOf(s) = 0
      BY <3>1, NothingSums DEF SharesOf
    <3> QED
      BY <3>2 DEF DeskInit, NothingHeld
  <2> QED
    BY <1>1, <1>2, <2>1 DEF Shares, LedgerHasTheShares
<1>6. ResultsKnown
  <2>1. ResultsOf(Modes) = 0
    BY <1>1, <1>2, NothingResults
  <2> QED
    BY <2>1 DEF ResultsKnown, DeskInit, NewLedger
<1>7. Round
  <2>1. switches \in Switches
    BY DEF DeskInit, Switches, SwitchesOff
  <2>2. intents = <<>> /\ intents \in Seq(Intent) /\ Len(intents) <= MaxIntents /\ bars \in 0..MaxBars
    BY DeskAssumption DEF DeskInit
  <2> QED
    BY <2>1, <2>2, CallFacts DEF DeskInit, Round, Idle
<1>8. Halt
  BY <1>1, <1>2 DEF DeskInit, Halt, Halting, NoCall
<1> QED
  BY <1>3, <1>4, <1>5, <1>6, <1>7, <1>8 DEF IInv, Books

\* Every step keeps the invariant and leaves those alone that have stopped.
LEMMA NextHolds ==
  ASSUME IInv, DeskNext
  PROVE  IInv' /\ Steady
<1>1. CASE Client
  <2>1. Allocations \subseteq Int
    BY DeskAssumption
  <2> QED
    BY <1>1, <2>1, CreateStep, KillStep, UpgradeStep, CallStep DEF Client
<1>2. CASE Work
  <2> DEFINE c == Min(queue)
  <2>1. ~ Idle /\ (VisitBar(c) \/ VisitEvent(c) \/ VisitExit(c))
    BY <1>2 DEF Work
  <2>2. c \in ContainerIds
    BY <2>1, FirstOfRound DEF IInv, Round, Idle
  <2> HIDE DEF c
  <2>3. c = Min(queue)
    BY DEF c
  <2>4. ASSUME VisitBar(c)
        PROVE  IInv' /\ Steady
    BY <2>1, <2>2, <2>3, <2>4, SkipStep, OnBarStep, RefuseStep, TradeStep, ExitStep DEF VisitBar, Visit
  <2> QED
    BY <2>1, <2>2, <2>3, <2>4, EventStep, ExitAllStep
<1> QED
  BY <1>1, <1>2 DEF DeskNext

\* A step that changes nothing.
LEMMA StutterHolds ==
  ASSUME IInv, UNCHANGED deskVars
  PROVE  IInv' /\ Steady
<1>1. UNCHANGED <<containers, nextId, ledger, positions, index, switches, call, queue,
                  intents, exiting, bars, worth>>
  BY DEF deskVars
<1>2. Books'
  BY <1>1, StayBooks DEF IInv
<1>3. Round' /\ Halt'
  BY <1>1 DEF IInv, Round, Halt, Halting, Idle, Active
<1> QED
  BY <1>1, <1>2, <1>3 DEF IInv, Steady

\* The invariant of the desk: its books, the round it makes and its halt.
THEOREM DeskInvariant == DeskSpec => []IInv
<1>1. IInv /\ [DeskNext]_deskVars => IInv'
  BY NextHolds, StutterHolds
<1> QED
  BY InitHolds, <1>1, PTL DEF DeskSpec

\* Every variable has its type.
THEOREM TypeCorrect == DeskSpec => []TypeOK
<1>1. IInv => TypeOK
  BY DEF IInv, Books, Types, Round, TypeOK, Idle
<1> QED
  BY <1>1, DeskInvariant, PTL

\* Containers, index and ledger agree on who runs, with what mode and key.
THEOREM RunningCorrect == DeskSpec => []RunningIsKnown
<1>1. IInv => RunningIsKnown
  BY DEF IInv, Books, Registry
<1> QED
  BY <1>1, DeskInvariant, PTL

\* A key of the index belongs to a container that runs.
THEOREM KeysCorrect == DeskSpec => []NoKeyIsStuck
<1>1. IInv => NoKeyIsStuck
  BY DEF IInv, Books, Registry, NoKeyIsStuck
<1> QED
  BY <1>1, DeskInvariant, PTL

\* The ledger has the shares of all containers, whoever traded in between.
THEOREM SharesCorrect == DeskSpec => []LedgerHasTheShares
<1>1. IInv => LedgerHasTheShares
  BY DEF IInv, Books, Shares
<1> QED
  BY <1>1, DeskInvariant, PTL

\* After a kill switch or a square-off warning nobody holds shares.
THEOREM HaltCorrect == DeskSpec => []HaltedIsFlat
<1>1. IInv => HaltedIsFlat
  BY DEF IInv, Halt, Halting, HaltedIsFlat
<1> QED
  BY <1>1, DeskInvariant, PTL

\* A container that has stopped holds nothing and never changes again.
THEOREM StoppedCorrect == DeskSpec => StoppedIsOver
<1> DEFINE Over == \A c \in ContainerIds : containers[c].status = "Stopped" =>
                     containers[c].holding.pos = 0 /\ containers'[c] = containers[c]
<1>1. ASSUME IInv, [DeskNext]_deskVars
      PROVE  Over
  <2>1. Steady
    BY <1>1, NextHolds, StutterHolds
  <2>2. ASSUME NEW c \in ContainerIds, containers[c].status = "Stopped"
        PROVE  containers[c].holding.pos = 0
    <3>1. containers[c].holding.pos \in Nat
      BY <1>1 DEF IInv, Books, Types, Container, Holding
    <3> QED
      BY <1>1, <2>2, <3>1 DEF IInv, Books, Shares, Active
  <2> QED
    BY <2>1, <2>2 DEF Steady
<1>2. IInv /\ [DeskNext]_deskVars => [Over]_deskVars
  BY <1>1
<1> HIDE DEF Over
<1>3. []IInv /\ [][DeskNext]_deskVars => [][Over]_deskVars
  BY <1>2, PTL
<1> QED
  BY <1>3, DeskInvariant DEF DeskSpec, StoppedIsOver, Over
-------------------------------------------------------------------------------
(* Rounding.  The cash of a container is behind the worth of its trades by *)
(* what it has borrowed for the shares it holds; divisions move the two    *)
(* apart by less than a paisa per share of the position.                   *)

\* What is borrowed for shares that cost x.
Owed(x) == x - x \div Leverage

\* The loan is an amount.
LEMMA OwedInt ==
  ASSUME NEW x \in Nat
  PROVE  Owed(x) \in Int
BY DivNat, ExchangeAssumption DEF Owed

\* It grows with what it is for, and by no more.
LEMMA OwedGrows ==
  ASSUME NEW x \in Nat, NEW y \in Nat
  PROVE  Owed(x) <= Owed(x + y) /\ Owed(x + y) <= Owed(x) + y
<1> DEFINE p == x \div Leverage
           q == (x + y) \div Leverage
<1>1. x + y \in Nat /\ p \in Nat /\ q \in Nat
  BY DivNat, ExchangeAssumption
<1>2. p <= q /\ q <= p + y
  BY QuotientGrows, ExchangeAssumption
<1>3. Owed(x) = x - p /\ Owed(x + y) = (x + y) - q
  BY Zenon DEF Owed
<1> HIDE DEF p, q
<1> QED
  BY <1>1, <1>2, <1>3

\* The loans for two parts are that for the whole, or a paisa more.
LEMMA OwedSplits ==
  ASSUME NEW x \in Nat, NEW y \in Nat
  PROVE  Owed(x + y) <= Owed(x) + Owed(y) /\ Owed(x) + Owed(y) <= Owed(x + y) + 1
<1> DEFINE p == x \div Leverage
           q == y \div Leverage
           r == (x + y) \div Leverage
<1>1. x + y \in Nat /\ p \in Nat /\ q \in Nat /\ r \in Nat
  BY DivNat, ExchangeAssumption
<1>2. p + q <= r /\ r <= p + q + 1
  BY QuotientSplits, ExchangeAssumption
<1>3. Owed(x) = x - p /\ Owed(y) = y - q /\ Owed(x + y) = (x + y) - r
  BY Zenon DEF Owed
<1> HIDE DEF p, q, r
<1> QED
  BY <1>1, <1>2, <1>3

\* An average that is truncated takes the loan down by less than a paisa per share.
LEMMA MeanRounds ==
  ASSUME NEW x \in Nat, NEW y \in Nat, NEW n \in Nat \ {0}
  PROVE  LET z == ((x + y) \div n) * n
         IN  z \in Nat /\ Owed(z) <= Owed(x) + Owed(y) /\ Owed(x) + Owed(y) <= Owed(z) + n
<1> DEFINE m == (x + y) \div n
           z == m * n
<1>1. x + y \in Nat
  OBVIOUS
<1>2. m \in Nat /\ n * m <= x + y /\ x + y < n * (m + 1)
  BY <1>1, Quotient
<1> HIDE DEF m
<1>3. z \in Nat /\ z = n * m /\ n * (m + 1) = z + n
  BY <1>2
<1> HIDE DEF z
<1>4. PICK r \in Nat : r = (x + y) - z
  BY <1>1, <1>2, <1>3
<1>5. r <= n - 1 /\ x + y = z + r
  BY <1>1, <1>2, <1>3, <1>4
<1>6. Owed(z) <= Owed(x + y) /\ Owed(x + y) <= Owed(z) + r
  BY <1>3, <1>5, OwedGrows
<1>7. Owed(x + y) <= Owed(x) + Owed(y) /\ Owed(x) + Owed(y) <= Owed(x + y) + 1
  BY OwedSplits
<1>8. Owed(x) \in Int /\ Owed(y) \in Int /\ Owed(z) \in Int /\ Owed(x + y) \in Int
  BY <1>1, <1>3, OwedInt
<1>9. Owed(z) <= Owed(x) + Owed(y) /\ Owed(x) + Owed(y) <= Owed(z) + n
  BY <1>5, <1>6, <1>7, <1>8
<1> QED
  BY <1>3, <1>9 DEF z, m

\* There is no loan for nothing.
LEMMA OwedNothing == Owed(0) = 0
<1>1. 0 \div Leverage = 0
  BY NoQuotient, ExchangeAssumption
<1>2. Owed(0) = 0 - 0 \div Leverage
  BY DEF Owed
<1> QED
  BY <1>1, <1>2

-------------------------------------------------------------------------------
\* How far the cash is from the worth of the trades, the loan left out.
Drift(k, w) == k.cash - Owed(k.holding.avg * k.holding.pos) - (k.principal + w)

(* Shares have been paid for, at most as many as the risk rules allow, and *)
(* every fill has moved the two apart by at most a paisa per share; an id  *)
(* not given yet has no trades.                                            *)
RoundOK(k, w) ==
  /\ k.status = "None" => w = 0
  /\ k.holding.pos <= MaxPosition
  /\ k.holding.pos > 0 => k.holding.avg > 0
  /\ Drift(k, w) <= k.fills * MaxPosition /\ -Drift(k, w) <= k.fills * MaxPosition

Rounded == \A c \in ContainerIds : RoundOK(containers[c], worth[c])

\* What the amounts of a container are.
LEMMA Amounts ==
  ASSUME NEW k \in Container, NEW w \in Int
  PROVE  /\ k.cash \in Int /\ k.principal \in Int /\ k.fills \in Nat /\ k.holding \in Holding
         /\ k.holding.pos \in Nat /\ k.holding.avg \in Nat
         /\ k.holding.avg * k.holding.pos \in Nat /\ Owed(k.holding.avg * k.holding.pos) \in Int
         /\ Drift(k, w) \in Int /\ k.fills * MaxPosition \in Nat /\ MaxPosition \in Nat
<1>1. /\ k.cash \in Int /\ k.principal \in Int /\ k.fills \in Nat /\ k.holding \in Holding
      /\ k.holding.pos \in Nat /\ k.holding.avg \in Nat /\ MaxPosition \in Nat
  BY RiskAssumption DEF Container, Holding
<1>2. k.holding.avg * k.holding.pos \in Nat /\ k.fills * MaxPosition \in Nat
  BY <1>1
<1>3. Owed(k.holding.avg * k.holding.pos) \in Int
  BY <1>2, OwedInt
<1> QED
  BY <1>1, <1>2, <1>3 DEF Drift

\* A fill moves cash and worth apart by at most MaxPosition.
LEMMA FillRounds ==
  ASSUME NEW k \in Container, NEW j \in Container, NEW w \in Int, NEW v \in Int, RoundOK(k, w),
         j.status # "None", j.principal = k.principal, j.fills = k.fills + 1, j.holding.pos <= MaxPosition,
         j.holding.pos > 0 => j.holding.avg > 0,
         NEW step \in 0..MaxPosition,
         Drift(j, v) = Drift(k, w) + step \/ Drift(j, v) = Drift(k, w) - step
  PROVE  RoundOK(j, v)
<1> DEFINE d == Drift(k, w)
           e == Drift(j, v)
           m == k.fills * MaxPosition
<1>1. d \in Int /\ e \in Int /\ m \in Nat /\ MaxPosition \in Nat /\ k.fills \in Nat
  BY Amounts
<1>2. (k.fills + 1) * MaxPosition = m + MaxPosition
  BY <1>1
<1>3. d <= m /\ -d <= m
  BY DEF RoundOK
<1>4. e = d + step \/ e = d - step
  OBVIOUS
<1>5. j.fills * MaxPosition = m + MaxPosition
  BY <1>2
<1> HIDE DEF d, e, m
<1>6. e <= m + MaxPosition /\ -e <= m + MaxPosition
  BY <1>1, <1>3, <1>4
<1> QED
  BY <1>5, <1>6 DEF RoundOK, e

\* A fill in the amounts of its container.
LEMMA HoldsAmounts ==
  ASSUME NEW k \in Container, NEW fill, FillGood(fill)
  PROVE  LET j == Holds(k, fill)
         IN  /\ j \in Container /\ j.cash = k.cash + fill.impact /\ j.principal = k.principal
             /\ j.fills = k.fills + 1 /\ j.holding = AfterFill(k.holding, fill)
             /\ j.status = k.status
<1>1. Holds(k, fill) \in Container /\ Holds(k, fill).holding = AfterFill(k.holding, fill)
      /\ Holds(k, fill).principal = k.principal /\ Holds(k, fill).status = k.status
  BY HoldsFill DEF SameTerms
<1> DEFINE cash == k.cash + fill.impact
           holding == AfterFill(k.holding, fill)
           fills == k.fills + 1
           j == [k EXCEPT !.cash = cash, !.holding = holding, !.fills = fills]
<1>2. Holds(k, fill) = j
  BY DEF Holds
<1> HIDE DEF cash, holding, fills
<1>3. j.cash = cash /\ j.fills = fills
  BY DEF Container
<1> QED
  BY <1>1, <1>2, <1>3 DEF cash, fills

BuyTermsOK(fill, h, qty) ==
  /\ FillGood(fill) /\ fill.qty = qty /\ fill.price \in Nat \ {0} /\ fill.price * qty \in Nat \ {0}
  /\ fill.impact - Worth(fill) = Owed(fill.price * qty)
  /\ AfterFill(h, fill).pos = h.pos + qty
  /\ AfterFill(h, fill).avg = IF h.pos = 0 THEN fill.price
                              ELSE (h.avg * h.pos + fill.price * qty) \div (h.pos + qty)

\* What a buy pays for, and what it does to the average.
LEMMA BuyTerms ==
  ASSUME NEW qty \in Nat \ {0}, NEW close \in Nat \ {0}, NEW avg \in Nat, NEW h \in Holding
  PROVE  BuyTermsOK(Fill("Buy", qty, close, avg), h, qty)
<1> DEFINE fill == Fill("Buy", qty, close, avg)
           y == fill.price * qty
           fees == BuyFees(fill.price, qty)
<1>1. FillGood(fill) /\ fill.side = "Buy" /\ fill.qty = qty
  BY FillIsGood DEF Sides
<1>2. fill.price = close + Slippage
  BY DEF Fill, FillPrice
<1>3. fill.fees = fees /\ fill.impact = -(Margin(fill.price, qty) + fees)
  BY DEF Fill
<1>4. fill.price \in Nat \ {0}
  BY <1>2, ExchangeAssumption
<1>5. Worth(fill) = -(fill.price * fill.qty + fill.fees)
  BY <1>1 DEF Worth
<1> HIDE DEF fill
<1>6. fees \in Int
  <2>1. \A p, q \in Int : BuyFees(p, q) \in Int
    BY FeesInt
  <2>2. fill.price \in Int /\ qty \in Int
    BY <1>4
  <2> QED
    BY Zenon, <2>1, <2>2
<1> HIDE DEF fees
<1>7. /\ AfterFill(h, fill).pos = h.pos + fill.qty
      /\ AfterFill(h, fill).avg = IF h.pos = 0 THEN fill.price
                                  ELSE (h.avg * h.pos + fill.price * fill.qty) \div (h.pos + fill.qty)
  <2> DEFINE mean == (h.avg * h.pos + fill.price * fill.qty) \div (h.pos + fill.qty)
             shares == h.pos + fill.qty
  <2>1. Bought(h, fill) = IF h.pos = 0 THEN [h EXCEPT !.pos = fill.qty, !.avg = fill.price]
                          ELSE [h EXCEPT !.pos = shares, !.avg = mean]
    BY Zenon DEF Bought
  <2>2. h.pos = 0 => shares = fill.qty
    BY <1>1 DEF FillGood
  <2>3. AfterFill(h, fill) = Bought(h, fill)
    BY <1>1 DEF AfterFill
  <2> HIDE DEF mean, shares
  <2>4. /\ AfterFill(h, fill).pos = shares
        /\ AfterFill(h, fill).avg = IF h.pos = 0 THEN fill.price ELSE mean
    BY <2>1, <2>2, <2>3 DEF Holding
  <2> QED
    BY <2>4 DEF mean, shares
<1>8. y \in Nat \ {0}
  BY <1>4
<1>9. Margin(fill.price, qty) = y \div Leverage
  BY DEF Margin
<1>10. y \div Leverage \in Int /\ Owed(y) = y - y \div Leverage
  BY <1>8, ExchangeAssumption, DivNat DEF Owed
<1> HIDE DEF y
<1>11. fill.impact = -((y \div Leverage) + fees) /\ Worth(fill) = -(y + fees)
  BY <1>1, <1>3, <1>5, <1>9 DEF y
<1>12. PICK m \in Int : m = y \div Leverage
  BY <1>10
<1>13. fill.impact - Worth(fill) = y - m
  BY <1>6, <1>8, <1>11, <1>12
<1>14. fill.impact - Worth(fill) = Owed(y)
  BY <1>10, <1>12, <1>13
<1> QED
  BY Zenon, <1>1, <1>4, <1>7, <1>8, <1>14 DEF fill, y, BuyTermsOK

SellTermsOK(fill, qty, avg) ==
  /\ FillGood(fill) /\ fill.side = "Sell" /\ fill.qty = qty
  /\ fill.impact = Margin(avg, qty) + (fill.price * qty - avg * qty - fill.fees)
  /\ Worth(fill) = fill.price * qty - fill.fees

\* What a sale brings.
LEMMA SellTerms ==
  ASSUME NEW qty \in Nat \ {0}, NEW close \in Nat, NEW avg \in Nat \ {0}
  PROVE  SellTermsOK(Fill("Sell", qty, close, avg), qty, avg)
<1> DEFINE fill == Fill("Sell", qty, close, avg)
<1>1. FillGood(fill) /\ fill.side = "Sell" /\ fill.qty = qty
  BY FillIsGood DEF Sides
<1>2. fill.impact = SaleProceeds(fill.price, qty, fill.fees, avg)
  BY DEF Fill
<1> HIDE DEF fill
<1>3. fill.impact = Margin(avg, qty) + (fill.price * qty - avg * qty - fill.fees)
  BY <1>2 DEF SaleProceeds
<1>4. Worth(fill) = fill.price * qty - fill.fees
  BY <1>1 DEF Worth
<1> QED
  BY Zenon, <1>1, <1>3, <1>4 DEF SellTermsOK, fill

\* A buy that the risk rules approve.
LEMMA BuyRounds ==
  ASSUME NEW k \in Container, NEW w \in Int, RoundOK(k, w), k.status # "None",
         NEW qty \in Nat \ {0}, NEW close \in Nat \ {0}, k.holding.pos + qty <= MaxPosition
  PROVE  LET fill == Fill("Buy", qty, close, k.holding.avg)
         IN  RoundOK(Holds(k, fill), w + Worth(fill))
<1> DEFINE h == k.holding
           fill == Fill("Buy", qty, close, h.avg)
           j == Holds(k, fill)
           v == w + Worth(fill)
           x == h.avg * h.pos
           y == fill.price * qty
           n == h.pos + qty
           z == j.holding.avg * j.holding.pos
<1>1. /\ k.cash \in Int /\ k.principal \in Int /\ k.fills \in Nat /\ h \in Holding
      /\ h.pos \in Nat /\ h.avg \in Nat /\ x \in Nat /\ Owed(x) \in Int /\ MaxPosition \in Nat
  BY Amounts
<1>2. BuyTermsOK(fill, h, qty)
  BY <1>1, BuyTerms
<1> HIDE DEF fill
<1>2a. /\ FillGood(fill) /\ fill.qty = qty /\ fill.price \in Nat \ {0} /\ y \in Nat \ {0}
      /\ fill.impact - Worth(fill) = Owed(y)
      /\ AfterFill(h, fill).pos = n
      /\ AfterFill(h, fill).avg = IF h.pos = 0 THEN fill.price ELSE (x + y) \div n
  BY Zenon, <1>2 DEF BuyTermsOK
<1>3. /\ j \in Container /\ j.cash = k.cash + fill.impact /\ j.principal = k.principal
      /\ j.fills = k.fills + 1 /\ j.holding = AfterFill(h, fill) /\ j.status = k.status
  BY <1>2a, HoldsAmounts
<1> HIDE DEF j
<1>4. Worth(fill) \in Int /\ v \in Int /\ fill.impact \in Int /\ Owed(y) \in Int
  BY <1>2a, WorthInt, OwedInt DEF FillGood
<1>5. n \in Nat \ {0} /\ j.holding.pos = n
  BY <1>1, <1>2a, <1>3
<1>6. z \in Nat /\ Owed(z) <= Owed(x) + Owed(y) /\ Owed(x) + Owed(y) <= Owed(z) + n /\ j.holding.avg > 0
  <2>1. CASE h.pos = 0
    <3>1. j.holding.avg = fill.price /\ n = qty
      BY <1>1, <1>2a, <1>3, <2>1
    <3>2. z = y
      BY <1>5, <3>1
    <3>3. x = 0 /\ Owed(0) = 0
      BY <1>1, <2>1, OwedNothing
    <3> HIDE DEF x, y, z, n
    <3> QED
      BY <1>2a, <1>4, <1>5, <3>1, <3>2, <3>3
  <2>2. CASE h.pos # 0
    <3>1. j.holding.avg = (x + y) \div n
      BY <1>2a, <1>3, <2>2
    <3>2. z = ((x + y) \div n) * n
      BY <1>5, <3>1
    <3>3. h.avg > 0
      BY <1>1, <2>2 DEF RoundOK
    <3>4. (x + y) \div n > 0
      <4>1. x >= h.pos /\ y >= qty
        <5>1. h.avg \in Nat \ {0}
          BY <1>1, <3>3
        <5> QED
          BY <1>1, <1>2a, <5>1, AtLeast
      <4> HIDE DEF x, y
      <4>2. n <= x + y /\ x + y \in Nat
        BY <1>1, <1>2a, <4>1
      <4> HIDE DEF n
      <4>3. (x + y) \div n \in Nat /\ x + y < n * (((x + y) \div n) + 1)
        BY <1>5, <4>2, Quotient
      <4>4. (x + y) \div n = 0 => n * (((x + y) \div n) + 1) = n
        BY <1>5
      <4> QED
        BY <1>5, <4>2, <4>3, <4>4
    <3> HIDE DEF x, y, z, n
    <3>5. z \in Nat /\ Owed(z) <= Owed(x) + Owed(y) /\ Owed(x) + Owed(y) <= Owed(z) + n
      BY <1>1, <1>2a, <1>5, <3>2, MeanRounds
    <3> QED
      BY <3>1, <3>4, <3>5
  <2> QED
    BY <2>1, <2>2
<1>7. Drift(k, w) = k.cash - Owed(x) - (k.principal + w) /\ Drift(j, v) = j.cash - Owed(z) - (j.principal + v)
  BY DEF Drift
<1>8. Owed(z) \in Int
  BY <1>6, OwedInt
<1> HIDE DEF x, y, z
<1>9. PICK step \in Int : step = Owed(x) + Owed(y) - Owed(z)
  BY <1>1, <1>4, <1>8
<1>10. step \in 0..MaxPosition
  BY <1>1, <1>4, <1>5, <1>6, <1>8, <1>9
<1>11. Drift(j, v) = Drift(k, w) + step
  BY <1>1, <1>2a, <1>3, <1>4, <1>7, <1>8, <1>9
<1>12. RoundOK(j, v)
  BY <1>1, <1>3, <1>4, <1>5, <1>6, <1>10, <1>11, FillRounds
<1> QED
  BY <1>12 DEF j, fill

\* A sale of shares that there are.
LEMMA SellRounds ==
  ASSUME NEW k \in Container, NEW w \in Int, RoundOK(k, w), k.status # "None",
         NEW qty \in Nat \ {0}, NEW close \in Nat, qty <= k.holding.pos
  PROVE  LET fill == Fill("Sell", qty, close, k.holding.avg)
         IN  RoundOK(Holds(k, fill), w + Worth(fill))
<1> DEFINE h == k.holding
           fill == Fill("Sell", qty, close, h.avg)
           fees == SellFees(fill.price, qty)
           j == Holds(k, fill)
           v == w + Worth(fill)
           x == h.avg * qty
           y == fill.price * qty
           z == j.holding.avg * j.holding.pos
<1>1. /\ k.cash \in Int /\ k.principal \in Int /\ k.fills \in Nat /\ h \in Holding
      /\ h.pos \in Nat /\ h.avg \in Nat /\ MaxPosition \in Nat
      /\ h.avg * h.pos \in Nat /\ Owed(h.avg * h.pos) \in Int
  BY Amounts
<1>2. h.avg > 0 /\ h.pos <= MaxPosition
  BY <1>1 DEF RoundOK
<1>3. SellTermsOK(fill, qty, h.avg)
  <2>1. h.avg \in Nat \ {0}
    BY <1>1, <1>2
  <2> QED
    BY <2>1, SellTerms
<1> HIDE DEF fill
<1>4. /\ FillGood(fill) /\ fill.side = "Sell" /\ fill.qty = qty
      /\ fill.impact = Margin(h.avg, qty) + (fill.price * qty - h.avg * qty - fill.fees)
      /\ Worth(fill) = fill.price * qty - fill.fees
  BY Zenon, <1>3 DEF SellTermsOK
<1>5. /\ j \in Container /\ j.cash = k.cash + fill.impact /\ j.principal = k.principal
      /\ j.fills = k.fills + 1 /\ j.holding = AfterFill(h, fill) /\ j.status = k.status
  BY <1>4, HoldsAmounts
<1> HIDE DEF j
<1>6. /\ j.holding.pos = h.pos - qty
      /\ j.holding.avg = IF h.pos - qty = 0 THEN 0 ELSE h.avg
  BY <1>1, <1>4, <1>5 DEF AfterFill, Sold, Larger
<1>7. z = h.avg * (h.pos - qty) /\ h.pos - qty \in Nat
  <2>1. PICK left \in Nat : left = h.pos - qty
    BY <1>1
  <2>2. j.holding.pos = left /\ j.holding.avg = IF left = 0 THEN 0 ELSE h.avg
    BY <1>6, <2>1
  <2>3. j.holding.avg * left = h.avg * left
    <3>1. CASE left = 0
      <4>1. \A a \in Int : a * 0 = 0
        OBVIOUS
      <4>2. j.holding.avg \in Int /\ h.avg \in Int
        BY <1>1, <2>2, <3>1
      <4> QED
        BY Zenon, <3>1, <4>1, <4>2
    <3>2. CASE left # 0
      BY Zenon, <2>2, <3>2
    <3> QED
      BY <3>1, <3>2
  <2> QED
    BY Zenon, <2>1, <2>2, <2>3
<1>8. x \in Nat /\ z \in Nat /\ h.avg * h.pos = x + z
  BY <1>1, <1>7
<1>9. fill.price \in Nat /\ y \in Nat /\ fill.fees \in Int /\ fill.impact \in Int
  BY <1>4 DEF FillGood
<1>10. Margin(h.avg, qty) = x \div Leverage
  BY DEF Margin
<1>11. Drift(k, w) = k.cash - Owed(h.avg * h.pos) - (k.principal + w) /\ Drift(j, v) = j.cash - Owed(z) - (j.principal + v)
  BY DEF Drift
<1> HIDE DEF z
<1>12. Owed(x) = x - x \div Leverage /\ x \div Leverage \in Int
  BY <1>8, ExchangeAssumption, DivNat DEF Owed
<1>13. PICK m \in Int : m = x \div Leverage
  BY <1>12
<1>14. fill.impact = m + (y - x - fill.fees) /\ Worth(fill) = y - fill.fees /\ Owed(x) = x - m
  BY <1>4, <1>10, <1>12, <1>13
<1> HIDE DEF x, y
<1>15. Owed(x + z) <= Owed(x) + Owed(z) /\ Owed(x) + Owed(z) <= Owed(x + z) + 1
  BY <1>8, OwedSplits
<1>16. Owed(x) \in Int /\ Owed(z) \in Int /\ Owed(x + z) \in Int /\ Worth(fill) \in Int /\ v \in Int
  BY <1>1, <1>8, <1>9, <1>14, OwedInt
<1>17. PICK step \in Int : step = Owed(x) + Owed(z) - Owed(x + z)
  BY <1>16
<1>18. step \in 0..MaxPosition
  BY <1>1, <1>2, <1>15, <1>16, <1>17
<1>19. Drift(j, v) = Drift(k, w) - step
  BY <1>1, <1>5, <1>8, <1>9, <1>11, <1>14, <1>16, <1>17
<1>20. j.holding.pos <= MaxPosition /\ (j.holding.pos > 0 => j.holding.avg > 0)
  BY <1>1, <1>2, <1>6
<1>21. RoundOK(j, v)
  BY <1>5, <1>16, <1>18, <1>19, <1>20, FillRounds
<1> QED
  BY <1>21 DEF j, fill

-------------------------------------------------------------------------------
\* What rounding is about, when nothing is traded.
SameMoney(k, j) ==
  /\ j.status = "None" <=> k.status = "None"
  /\ j.cash = k.cash /\ j.principal = k.principal /\ j.holding = k.holding /\ j.fills = k.fills

\* The container c becomes k, and what its trades were worth is w.
Accounts(c, k, w) ==
  /\ \A d \in ContainerIds \ {c} : containers'[d] = containers[d] /\ worth'[d] = worth[d]
  /\ containers'[c] = k /\ worth'[c] = w

\* One container is accounted for anew.
LEMMA AccountsRound ==
  ASSUME Rounded, NEW c \in ContainerIds, NEW k, NEW w, Accounts(c, k, w), RoundOK(k, w)
  PROVE  Rounded'
BY Zenon DEF Rounded, Accounts

\* A container that does not trade stays as it is.
LEMMA SameMoneyRounds ==
  ASSUME NEW k, NEW j, NEW w, SameMoney(k, j), RoundOK(k, w)
  PROVE  RoundOK(j, w)
BY Zenon DEF SameMoney, RoundOK, Drift

\* A fill as a step.
LEMMA FillAccounts ==
  ASSUME containers \in [ContainerIds -> Container], worth \in [ContainerIds -> Int],
         NEW c \in ContainerIds, NEW fill, OnFill(c, fill)
  PROVE  Accounts(c, Holds(containers[c], fill), worth[c] + Worth(fill))
<1> DEFINE k == Holds(containers[c], fill)
           w == worth[c] + Worth(fill)
<1>1. containers' = [containers EXCEPT ![c] = k] /\ worth' = [worth EXCEPT ![c] = w]
  BY DEF OnFill
<1> HIDE DEF k, w
<1>2. Accounts(c, k, w)
  BY <1>1 DEF Accounts
<1> QED
  BY <1>2 DEF k, w

\* Selling out.
LEMMA FlattenRounds ==
  ASSUME NEW k \in Container, NEW w \in Int, RoundOK(k, w), FlattenOk(k), k.status # "None"
  PROVE  RoundOK(Holds(k, FlattenFill(k)), w + Worth(FlattenFill(k)))
<1>1. k.holding.pos \in Nat \ {0} /\ k.last \in Nat
  BY DEF FlattenOk, SubmitOk, Container, Holding
<1>2. k.holding.pos <= k.holding.pos
  BY <1>1
<1> QED
  BY <1>1, <1>2, SellRounds DEF FlattenFill

\* What a container has when it has left.
LEMMA LeaveRounds ==
  ASSUME Books, Rounded, NEW c \in ContainerIds, Active(c), Leave(c)
  PROVE  Rounded'
<1> DEFINE k == containers[c]
           f == Flattened(k)
           j == [f EXCEPT !.status = "Stopped"]
           w == IF FlattenOk(k) THEN worth[c] + Worth(FlattenFill(k)) ELSE worth[c]
<1>1. /\ containers \in [ContainerIds -> Container] /\ worth \in [ContainerIds -> Int]
      /\ k \in Container /\ worth[c] \in Int /\ RoundOK(k, worth[c])
      /\ (k.holding.pos > 0 => k.hasBar) /\ k.status = "Active"
  BY DEF Books, Types, Rounded, Shares, Active
<1>2. RoundOK(f, w)
  <2>1. CASE FlattenOk(k)
    <3>1. f = Holds(k, FlattenFill(k)) /\ w = worth[c] + Worth(FlattenFill(k))
      BY Zenon, <2>1 DEF Flattened
    <3> HIDE DEF f, w
    <3> QED
      BY <1>1, <2>1, <3>1, FlattenRounds
  <2>2. CASE ~ FlattenOk(k)
    BY Zenon, <1>1, <2>2 DEF Flattened
  <2> QED
    BY <2>1, <2>2
<1>3. f \in Container /\ f.status = "Active"
  BY <1>1, FlattenSells DEF SameTerms
<1>4. containers' = [containers EXCEPT ![c] = j]
  BY DEF Leave
<1>5. worth' = IF FlattenOk(k) THEN [worth EXCEPT ![c] = @ + Worth(FlattenFill(k))] ELSE worth
  BY Zenon DEF Leave
<1>6. worth'[c] = w /\ \A d \in ContainerIds \ {c} : worth'[d] = worth[d]
  BY <1>1, <1>5
<1> HIDE DEF f, w
<1>7. SameMoney(f, j)
  BY <1>3 DEF SameMoney, Container
<1>8. RoundOK(j, w)
  BY <1>2, <1>7, SameMoneyRounds
<1>9. Accounts(c, j, w)
  <2> HIDE DEF j
  <2> QED
    BY <1>1, <1>4, <1>6 DEF Accounts
<1> QED
  BY <1>1, <1>8, <1>9, AccountsRound

\* A square-off of one container.
LEMMA SquareOffRounds ==
  ASSUME Books, Rounded, NEW c \in ContainerIds, Active(c), Flatten(c)
  PROVE  Rounded'
<1>1. /\ containers \in [ContainerIds -> Container] /\ worth \in [ContainerIds -> Int]
      /\ containers[c] \in Container /\ worth[c] \in Int /\ RoundOK(containers[c], worth[c])
      /\ containers[c].status = "Active"
  BY DEF Books, Types, Rounded, Active
<1>2. CASE FlattenOk(containers[c])
  <2>1. OnFill(c, FlattenFill(containers[c]))
    BY <1>2 DEF Flatten
  <2>2. RoundOK(Holds(containers[c], FlattenFill(containers[c])), worth[c] + Worth(FlattenFill(containers[c])))
    BY <1>1, <1>2, FlattenRounds
  <2>3. PICK fill : fill = FlattenFill(containers[c])
    OBVIOUS
  <2>4. Accounts(c, Holds(containers[c], fill), worth[c] + Worth(fill))
    BY <1>1, <2>1, <2>3, FillAccounts
  <2>5. RoundOK(Holds(containers[c], fill), worth[c] + Worth(fill))
    BY <2>2, <2>3
  <2> QED
    BY <2>4, <2>5, AccountsRound
<1>3. CASE ~ FlattenOk(containers[c])
  <2>1. UNCHANGED <<containers, worth>>
    BY <1>3 DEF Flatten
  <2> QED
    BY <2>1 DEF Rounded
<1> QED
  BY <1>2, <1>3

\* A trade: the risk engine has looked at the size and the price of a buy.
LEMMA TradeRounds ==
  ASSUME IInv, Rounded, call.op = "bar", NEW c \in ContainerIds, c = Min(queue), Trade(c)
  PROVE  Rounded'
<1> DEFINE k == containers[c]
           i == Head(intents)
<1>1. /\ Books /\ Round /\ intents # <<>> /\ FillOk(k, i)
      /\ OnFill(c, Fill(i.side, i.qty, call.close, k.holding.avg))
  BY DEF IInv, Trade
<1>2. /\ containers \in [ContainerIds -> Container] /\ worth \in [ContainerIds -> Int]
      /\ k \in Container /\ worth[c] \in Int /\ RoundOK(k, worth[c])
      /\ k.status = "Active"
  BY <1>1 DEF Books, Types, Rounded, Round, Active
<1>3. call.close \in Nat
  BY <1>1, CallFacts DEF Round
<1>4. i.side \in Sides /\ i.qty \in Nat
  BY <1>1, FirstIntent, DeskAssumption DEF Round, Intent
<1>5. /\ i.qty > 0
      /\ i.side = "Sell" => i.qty <= k.holding.pos
      /\ i.side = "Buy" => k.holding.pos + i.qty <= MaxPosition /\ call.close > 0
  BY <1>1 DEF FillOk, Approved, TradeApproved, SubmitOk
<1> HIDE DEF i
<1>6. i.qty \in Nat \ {0} /\ (i.side = "Buy" => call.close \in Nat \ {0})
  BY <1>3, <1>4, <1>5
<1>7. PICK fill : fill = Fill(i.side, i.qty, call.close, k.holding.avg)
  OBVIOUS
<1>8. RoundOK(Holds(k, fill), worth[c] + Worth(fill))
  <2>1. CASE i.side = "Buy"
    <3>1. fill = Fill("Buy", i.qty, call.close, k.holding.avg)
      BY Zenon, <1>7, <2>1
    <3> QED
      BY <1>2, <1>5, <1>6, <2>1, <3>1, BuyRounds
  <2>2. CASE i.side = "Sell"
    <3>1. fill = Fill("Sell", i.qty, call.close, k.holding.avg)
      BY Zenon, <1>7, <2>2
    <3> QED
      BY <1>2, <1>3, <1>5, <1>6, <2>2, <3>1, SellRounds
  <2> QED
    BY <1>4, <2>1, <2>2 DEF Sides
<1>9. Accounts(c, Holds(k, fill), worth[c] + Worth(fill))
  BY <1>1, <1>2, <1>7, FillAccounts
<1> QED
  BY <1>8, <1>9, AccountsRound

\* A container without trades.
LEMMA NewRounds ==
  ASSUME NEW k, k.cash \in Int, k.principal = k.cash, k.holding = NothingHeld, k.fills = 0
  PROVE  RoundOK(k, 0)
<1>1. Owed(k.holding.avg * k.holding.pos) = 0
  <2>1. k.holding.avg * k.holding.pos = 0
    BY DEF NothingHeld
  <2> QED
    BY <2>1, OwedNothing
<1>2. Drift(k, 0) = 0
  BY <1>1 DEF Drift
<1>3. k.holding.pos = 0 /\ MaxPosition \in Nat /\ k.fills * MaxPosition = 0
  BY RiskAssumption DEF NothingHeld
<1> QED
  BY <1>2, <1>3 DEF RoundOK

\* Creation.
LEMMA CreateRounds ==
  ASSUME Books, Rounded, NEW symbol \in Symbols, NEW strategy \in Strategies, NEW amount \in Int,
         NEW mode \in Modes, Create(symbol, strategy, amount, mode)
  PROVE  Rounded'
<1>1. UNCHANGED worth
  BY DEF Create
<1>2. CASE UNCHANGED containers
  BY <1>1, <1>2 DEF Rounded
<1>3. ASSUME CreateStarted(nextId, symbol, strategy, amount, mode), nextId <= MaxContainers
      PROVE  Rounded'
  <2> DEFINE k == NewContainer(symbol, strategy, amount, mode)
  <2>1. nextId \in ContainerIds /\ containers \in [ContainerIds -> Container] /\ worth \in [ContainerIds -> Int]
    BY <1>3, MaxContainersAssumption DEF Books, Types, ContainerIds
  <2>2. containers[nextId].status = "None"
    BY <2>1 DEF Books, Types, Registry, Kept
  <2>3. worth[nextId] = 0
    BY <2>1, <2>2 DEF Rounded, RoundOK
  <2>4. k.cash = amount /\ k.principal = amount /\ k.holding = NothingHeld /\ k.fills = 0
    BY DEF NewContainer, NoContainer
  <2>5. containers' = [containers EXCEPT ![nextId] = k]
    BY <1>3 DEF CreateStarted
  <2> HIDE DEF k
  <2>6. Accounts(nextId, k, 0)
    BY <1>1, <2>1, <2>3, <2>5 DEF Accounts
  <2>7. RoundOK(k, 0)
    BY <2>4, NewRounds
  <2> QED
    BY <2>1, <2>6, <2>7, AccountsRound
<1> QED
  BY <1>2, <1>3 DEF Create, CreateRefused

\* A container that does not trade.
LEMMA QuietRounds ==
  ASSUME Rounded, containers \in [ContainerIds -> Container], NEW c \in ContainerIds, NEW k,
         SameMoney(containers[c], k), containers' = [containers EXCEPT ![c] = k], UNCHANGED worth
  PROVE  Rounded'
<1>1. RoundOK(containers[c], worth[c])
  BY DEF Rounded
<1>2. RoundOK(k, worth[c])
  BY <1>1, SameMoneyRounds
<1>3. Accounts(c, k, worth[c])
  BY DEF Accounts
<1> QED
  BY <1>2, <1>3, AccountsRound

\* An upgrade changes a mode.
LEMMA UpgradeRounds ==
  ASSUME Books, Rounded, NEW c \in ContainerIds, Upgrade(c)
  PROVE  Rounded'
<1>1. containers \in [ContainerIds -> Container] /\ UNCHANGED worth /\ containers[c] \in Container
  BY DEF Books, Types, Upgrade
<1>2. PICK m : containers' = [containers EXCEPT ![c].mode = m]
  BY DEF Upgrade, UpgradePaper, UpgradeReal
<1> DEFINE k == [containers[c] EXCEPT !.mode = m]
<1>3. SameMoney(containers[c], k)
  BY <1>1 DEF SameMoney, Container
<1>4. containers' = [containers EXCEPT ![c] = k]
  BY <1>2
<1> HIDE DEF k
<1> QED
  BY <1>1, <1>3, <1>4, QuietRounds

\* So does a bar, which is remembered.
LEMMA OnBarRounds ==
  ASSUME Books, Rounded, NEW c \in ContainerIds, OnBar(c)
  PROVE  Rounded'
<1>1. containers \in [ContainerIds -> Container] /\ UNCHANGED worth /\ containers[c] \in Container
  BY DEF Books, Types, OnBar
<1> DEFINE k == [containers[c] EXCEPT !.hasBar = TRUE, !.last = call.close]
<1>2. SameMoney(containers[c], k)
  BY <1>1 DEF SameMoney, Container
<1>3. containers' = [containers EXCEPT ![c] = k]
  BY DEF OnBar
<1> HIDE DEF k
<1> QED
  BY <1>1, <1>2, <1>3, QuietRounds

\* Nothing is traded, by nobody.
LEMMA IdleRounds ==
  ASSUME Rounded, UNCHANGED <<containers, worth>>
  PROVE  Rounded'
BY DEF Rounded

\* A visit of the next container of the round.
LEMMA WorkRounds ==
  ASSUME IInv, Rounded, Work
  PROVE  Rounded'
<1> DEFINE c == Min(queue)
<1>1. ~ Idle /\ (VisitBar(c) \/ VisitEvent(c) \/ VisitExit(c))
  BY DEF Work
<1>2. c \in ContainerIds
  BY <1>1, FirstOfRound DEF IInv, Round, Idle
<1>3. Books /\ Round
  BY DEF IInv
<1>4. exiting => Active(c)
  BY <1>3 DEF Round
<1> HIDE DEF c
<1>5. c = Min(queue)
  BY DEF c
<1>6. CASE VisitBar(c)
  <2>1. call.op = "bar"
    BY <1>6 DEF VisitBar, Visit
  <2>2. CASE SkipBar(c)
    BY <2>2, IdleRounds DEF SkipBar
  <2>3. CASE OnBar(c)
    BY <1>2, <1>3, <2>3, OnBarRounds
  <2>4. CASE Refuse(c)
    BY <2>4, IdleRounds DEF Refuse
  <2>5. CASE Trade(c)
    BY <1>2, <1>5, <2>1, <2>5, TradeRounds
  <2>6. CASE Exit(c)
    BY <1>2, <1>3, <1>4, <2>6, LeaveRounds DEF Exit
  <2> QED
    BY <1>6, <2>2, <2>3, <2>4, <2>5, <2>6 DEF VisitBar
<1>7. CASE VisitEvent(c)
  BY <1>2, <1>3, <1>7, LeaveRounds, SquareOffRounds, IdleRounds DEF VisitEvent
<1>8. CASE VisitExit(c)
  BY <1>2, <1>3, <1>8, LeaveRounds, IdleRounds DEF VisitExit
<1> QED
  BY <1>1, <1>6, <1>7, <1>8

\* Every step keeps them close.
LEMMA NextRounds ==
  ASSUME IInv, Rounded, [DeskNext]_deskVars
  PROVE  Rounded'
<1>1. Books
  BY DEF IInv
<1>2. CASE Client
  <2>1. CASE \E symbol \in Symbols, strategy \in Strategies, amount \in Allocations, mode \in Modes :
               Create(symbol, strategy, amount, mode)
    <3>1. Allocations \subseteq Int
      BY DeskAssumption
    <3> QED
      BY <1>1, <2>1, <3>1, CreateRounds
  <2>2. CASE \E c \in ContainerIds : Kill(c)
    BY <1>1, <2>2, LeaveRounds DEF Kill
  <2>3. CASE \E c \in ContainerIds : Upgrade(c)
    BY <1>1, <2>3, UpgradeRounds
  <2>4. CASE \E symbol \in Symbols, close \in Closes, inHours \in BOOLEAN : CallBar(symbol, close, inHours)
    BY <2>4, IdleRounds DEF CallBar, Start
  <2>5. CASE (\E type \in EventTypes : CallEvent(type)) \/ CallExitAll
    BY <2>5, IdleRounds DEF CallEvent, CallExitAll, Start
  <2> QED
    BY <1>2, <2>1, <2>2, <2>3, <2>4, <2>5 DEF Client
<1>3. CASE Work
  BY <1>3, WorkRounds
<1>4. CASE UNCHANGED deskVars
  BY <1>4, IdleRounds DEF deskVars
<1> QED
  BY <1>2, <1>3, <1>4 DEF DeskNext

\* Nobody has traded at the start.
LEMMA InitRounds == DeskInit => Rounded
<1>1. SUFFICES ASSUME DeskInit, NEW c \in ContainerIds PROVE RoundOK(containers[c], worth[c])
  BY DEF Rounded
<1>2. containers[c] = NoContainer /\ worth[c] = 0
  BY <1>1 DEF DeskInit
<1>3. NoContainer.cash = 0 /\ NoContainer.principal = 0 /\ NoContainer.holding = NothingHeld /\ NoContainer.fills = 0
  BY DEF NoContainer
<1>4. RoundOK(NoContainer, 0)
  BY <1>3, NewRounds
<1> QED
  BY <1>2, <1>4

\* A container without shares has what it was given and what its trades were
\* worth, to MaxPosition paise per fill, whatever was truncated.
THEOREM RoundingCorrect == DeskSpec => []RoundingIsSmall
<1>1. IInv /\ Rounded /\ [DeskNext]_deskVars => Rounded'
  BY NextRounds
<1>2. IInv /\ Rounded => RoundingIsSmall
  <2> SUFFICES ASSUME IInv, Rounded, NEW c \in ContainerIds, containers[c].holding.pos = 0
               PROVE  Distance(containers[c].cash, containers[c].principal + worth[c])
                        <= containers[c].fills * MaxPosition
    BY Zenon DEF RoundingIsSmall
  <2> DEFINE k == containers[c]
             w == worth[c]
  <2>1. k \in Container /\ w \in Int /\ RoundOK(k, w)
    BY DEF IInv, Books, Types, Rounded
  <2> HIDE DEF k, w
  <2>2. k.cash \in Int /\ k.principal \in Int /\ k.fills * MaxPosition \in Nat /\ k.holding.avg \in Nat
    BY <2>1, Amounts
  <2>3. k.holding.pos = 0
    BY DEF k
  <2>4. k.holding.avg * k.holding.pos = 0
    BY <2>2, <2>3
  <2>5. Drift(k, w) = k.cash - 0 - (k.principal + w)
    BY <2>4, OwedNothing DEF Drift
  <2>6. Drift(k, w) <= k.fills * MaxPosition /\ -Drift(k, w) <= k.fills * MaxPosition
    BY <2>1 DEF RoundOK
  <2>7. Distance(k.cash, k.principal + w) <= k.fills * MaxPosition
    <3>1. PICK a \in Int, b \in Int, m \in Int :
            a = k.cash /\ b = k.principal + w /\ m = k.fills * MaxPosition
      BY <2>1, <2>2
    <3>2. a - b <= m /\ b - a <= m
      BY <2>1, <2>2, <2>5, <2>6, <3>1
    <3>3. Distance(a, b) <= m
      BY <3>2 DEF Distance
    <3> QED
      BY Zenon, <3>1, <3>3
  <2> QED
    BY <2>7 DEF k, w
<1> QED
  BY InitRounds, <1>1, <1>2, DeskInvariant, PTL DEF DeskSpec

-------------------------------------------------------------------------------
(* The ledger of the desk is a PortfolioLedger in use: the desk calls it   *)
(* with sound arguments and at most once a step, and what never was money  *)
(* of its realized result are the results of the containers that stopped   *)
(* without having been real.                                               *)

NotReal == {"Backtest", "Paper"}

PaperResults == ResultsOf(NotReal)

Account == INSTANCE PortfolioLedger_proofs WITH
             Amounts  <- Int,
             Values   <- Int,
             Results  <- Int,
             ledger   <- ledger,
             paperPnl <- PaperResults

\* What the theorems about the ledger assume of its constants.
LEMMA AccountConstants ==
  MaxContainers \in Nat /\ Borrowed \in Nat /\ Int \subseteq Int
BY MaxContainersAssumption, DeskAssumption

\* A step that books nothing.
Unbooked == ledger' = ledger /\ PaperResults' = PaperResults

Released == \E c \in ContainerIds, value \in Int : Account!Release(c, value)

Booked == Account!Next \/ Unbooked

\* The ids of the desk are those of its ledger.
LEMMA SameIds == Account!ContainerIds = ContainerIds /\ Account!Modes = Modes
BY DEF Account!ContainerIds, ContainerIds, Account!Modes, Modes

\* Nothing changes.
LEMMA NothingBooked ==
  ASSUME UNCHANGED <<containers, ledger>>
  PROVE  Unbooked
BY DEF Unbooked, PaperResults, ResultsOf

\* Only a container that stops has a result.
LEMMA NobodyStops ==
  ASSUME Steady,
         \A c \in ContainerIds : containers'[c].status = "Stopped" => containers[c].status = "Stopped"
  PROVE  PaperResults' = PaperResults
<1>1. \A c \in ContainerIds :
        (IF containers'[c].status = "Stopped" /\ containers'[c].mode \in NotReal
         THEN containers'[c].cash - containers'[c].principal ELSE 0)
          = IF containers[c].status = "Stopped" /\ containers[c].mode \in NotReal
            THEN containers[c].cash - containers[c].principal ELSE 0
  BY DEF Steady
<1> QED
  BY <1>1 DEF PaperResults, ResultsOf, NotReal

\* A container that is assigned to, and runs as before or starts.
LEMMA RunningUnpaid ==
  ASSUME Books, Steady, NEW c \in ContainerIds, NEW k, containers' = [containers EXCEPT ![c] = k],
         k.status # "Stopped"
  PROVE  PaperResults' = PaperResults
<1>1. containers \in [ContainerIds -> Container]
  BY DEF Books, Types
<1>2. \A d \in ContainerIds : containers'[d].status = "Stopped" => containers[d].status = "Stopped"
  BY <1>1
<1> QED
  BY <1>2, NobodyStops

\* A container that leaves gives back its cash.
LEMMA LeaveBooked ==
  ASSUME Books, NEW c \in ContainerIds, Active(c), Leave(c), nextId' = nextId
  PROVE  Released
<1> DEFINE k == containers[c]
           value == CashAtExit(k)
<1>1. PICK j : /\ Becomes(c, j) /\ j.status = "Stopped" /\ j.mode = k.mode
               /\ j.principal = k.principal /\ j.cash = value /\ j.cash \in Int
  BY LeaveBooks
<1>2. ledger' = GiveBack(ledger, c, value) /\ value \in Int
  BY <1>1, LeaveBooks
<1> HIDE DEF value
<1>3. /\ containers \in [ContainerIds -> Container] /\ k \in Container /\ j \in Container
      /\ k.principal \in Int /\ k.mode \in Modes /\ k.status = "Active"
  BY <1>1 DEF Books, Types, Becomes, Container, Active
<1>4. /\ ledger.allocs[c].held /\ ledger.allocs[c].principal = k.principal
      /\ ledger.allocs[c].real <=> k.mode = "Real"
  BY DEF Books, Registry, RunningIsKnown
<1>5. /\ PaperResults' = PaperResults - Result(k, NotReal) + Result(j, NotReal)
      /\ PaperResults \in Int
  BY <1>1, <1>3, ResultsMove DEF PaperResults
<1>6. /\ Result(k, NotReal) = 0
      /\ Result(j, NotReal) = IF ledger.allocs[c].real THEN 0 ELSE value - k.principal
  BY <1>1, <1>3, <1>4 DEF Result, NotReal, Modes
<1>7. PaperResults' = IF ledger.allocs[c].real
                      THEN PaperResults
                      ELSE PaperResults + (value - ledger.allocs[c].principal)
  BY <1>2, <1>3, <1>4, <1>5, <1>6
<1>8. PaperResults' \in Int
  BY <1>2, <1>3, <1>4, <1>5, <1>7
<1>9. ledger'.realized \in Int
  BY <1>1, LeaveBooks DEF Books, Types, LedgerOK, LedgerState
<1>10. ledger'.realized - PaperResults' \in Int
  BY <1>8, <1>9
<1>11. Account!GiveBackOk(ledger, c) /\ ledger' = Account!GiveBack(ledger, c, value)
  BY <1>2, <1>4 DEF Account!GiveBackOk, Account!GiveBack, GiveBack, Account!NoAllocation, NoAllocation
<1>12. Account!Release(c, value)
  BY <1>7, <1>8, <1>10, <1>11 DEF Account!Release
<1> QED
  BY <1>2, <1>12 DEF Released

\* A container that starts allocates; one that is refused does not.
LEMMA CreateBooked ==
  ASSUME Books, Steady, NEW symbol, NEW strategy, NEW amount \in Int, NEW mode \in Modes,
         Create(symbol, strategy, amount, mode)
  PROVE  \/ Unbooked
         \/ nextId \in ContainerIds /\ Account!Allocate(nextId, amount, mode)
<1> DEFINE c == nextId
<1>1. ASSUME UNCHANGED <<containers, ledger>>
      PROVE  Unbooked
  BY <1>1, NothingBooked
<1>2. ASSUME CreateStarted(c, symbol, strategy, amount, mode), c <= MaxContainers
      PROVE  c \in ContainerIds /\ Account!Allocate(c, amount, mode)
  <2> DEFINE k == NewContainer(symbol, strategy, amount, mode)
  <2>1. c \in ContainerIds
    BY <1>2, MaxContainersAssumption DEF Books, Types, ContainerIds
  <2>2. containers' = [containers EXCEPT ![c] = k]
    BY <1>2 DEF CreateStarted
  <2>3. k.status = "Active"
    BY DEF NewContainer, NoContainer
  <2> HIDE DEF k
  <2>4. PaperResults' = PaperResults
    BY <2>1, <2>2, <2>3, RunningUnpaid
  <2>5. TakeOk(ledger, c, amount, mode) /\ ledger' = Take(ledger, c, amount, mode)
    BY <1>2 DEF CreateStarted
  <2>6. Account!TakeOk(ledger, c, amount, mode) /\ ledger' = Account!Take(ledger, c, amount, mode)
    BY <2>5 DEF TakeOk, Account!TakeOk, Take, Account!Take
  <2>7. Account!Allocate(c, amount, mode)
    BY <2>4, <2>6 DEF Account!Allocate
  <2> QED
    BY <2>1, <2>7
<1>3. /\ c <= MaxContainers
      /\ CreateRefused(c, <<symbol, strategy>>, amount, mode) \/ CreateStarted(c, symbol, strategy, amount, mode)
  BY DEF Create
<1>4. CreateRefused(c, <<symbol, strategy>>, amount, mode) => UNCHANGED <<containers, ledger>>
  BY DEF CreateRefused
<1> QED
  BY <1>1, <1>2, <1>3, <1>4

\* An upgrade to Real commits the principal; one to Paper costs nothing.
LEMMA UpgradeBooked ==
  ASSUME Books, Steady, NEW c \in ContainerIds, Upgrade(c)
  PROVE  Booked
<1>1. Active(c) /\ (UpgradePaper(c) \/ UpgradeReal(c))
  BY DEF Upgrade
<1>2. PICK mode : containers' = [containers EXCEPT ![c].mode = mode]
  BY <1>1 DEF UpgradePaper, UpgradeReal
<1> DEFINE k == [containers[c] EXCEPT !.mode = mode]
<1>3. containers' = [containers EXCEPT ![c] = k]
  BY <1>2
<1>4. k.status = "Active"
  BY <1>1 DEF Books, Types, Active, Container
<1> HIDE DEF k
<1>5. PaperResults' = PaperResults
  BY <1>3, <1>4, RunningUnpaid
<1>6. CASE UpgradePaper(c)
  BY <1>5, <1>6 DEF UpgradePaper, Booked, Unbooked
<1>7. CASE UpgradeReal(c)
  <2>1. Account!CommitRealOk(ledger, c) /\ ledger' = Account!CommitReal(ledger, c)
    BY <1>7 DEF UpgradeReal, CommitRealOk, Account!CommitRealOk, CommitReal, Account!CommitReal
  <2>2. Account!Upgrade(c)
    BY <1>5, <2>1 DEF Account!Upgrade
  <2> QED
    BY <2>2, SameIds DEF Booked, Account!Next
<1> QED
  BY <1>1, <1>6, <1>7

\* A fill is none of the ledger's business.
LEMMA FillBooked ==
  ASSUME Books, Steady, NEW c \in ContainerIds, Active(c), NEW fill, OnFill(c, fill), ledger' = ledger
  PROVE  Unbooked
<1> DEFINE k == Holds(containers[c], fill)
<1>1. containers' = [containers EXCEPT ![c] = k]
  BY DEF OnFill
<1>2. k.status = "Active"
  BY DEF Holds, Books, Types, Active, Container
<1> HIDE DEF k
<1>3. PaperResults' = PaperResults
  BY <1>1, <1>2, RunningUnpaid
<1> QED
  BY <1>3 DEF Unbooked

\* Nor is a bar.
LEMMA OnBarBooked ==
  ASSUME Books, Steady, NEW c \in ContainerIds, OnBar(c)
  PROVE  Unbooked
<1> DEFINE k == [containers[c] EXCEPT !.hasBar = TRUE, !.last = call.close]
<1>1. Active(c) /\ containers' = [containers EXCEPT ![c] = k] /\ ledger' = ledger
  BY DEF OnBar
<1>2. k.status = "Active"
  BY <1>1 DEF Books, Types, Active, Container
<1> HIDE DEF k
<1>3. PaperResults' = PaperResults
  BY <1>1, <1>2, RunningUnpaid
<1> QED
  BY <1>1, <1>3 DEF Unbooked

\* A visit of the next container of the round.
LEMMA WorkBooked ==
  ASSUME IInv, Steady, Work
  PROVE  Released \/ Unbooked
<1> DEFINE c == Min(queue)
<1>1. ~ Idle /\ (VisitBar(c) \/ VisitEvent(c) \/ VisitExit(c))
  BY DEF Work
<1>2. c \in ContainerIds
  BY <1>1, FirstOfRound DEF IInv, Round, Idle
<1>3. Books /\ (exiting => Active(c)) /\ (intents # <<>> => Active(c))
  BY <1>1 DEF IInv, Round
<1> HIDE DEF c
<1>4. CASE VisitBar(c)
  <2>1. CASE SkipBar(c)
    BY <2>1, NothingBooked DEF SkipBar
  <2>2. CASE OnBar(c)
    BY <1>2, <1>3, <2>2, OnBarBooked
  <2>3. CASE Refuse(c)
    BY <2>3, NothingBooked DEF Refuse
  <2>4. CASE Trade(c)
    BY <1>2, <1>3, <2>4, FillBooked DEF Trade
  <2>5. CASE Exit(c)
    BY <1>2, <1>3, <2>5, LeaveBooked DEF Exit
  <2> QED
    BY <1>4, <2>1, <2>2, <2>3, <2>4, <2>5 DEF VisitBar
<1>5. ASSUME Flatten(c), Active(c), ledger' = ledger
      PROVE  Unbooked
  BY <1>2, <1>3, <1>5, FillBooked, NothingBooked DEF Flatten
<1>6. CASE VisitEvent(c)
  BY <1>2, <1>3, <1>5, <1>6, LeaveBooked, NothingBooked DEF VisitEvent
<1>7. CASE VisitExit(c)
  BY <1>2, <1>3, <1>7, LeaveBooked, NothingBooked DEF VisitExit
<1> QED
  BY <1>1, <1>4, <1>6, <1>7

\* Every step of the desk is a step of its ledger, or none.
LEMMA NextBooked ==
  ASSUME IInv, [DeskNext]_deskVars
  PROVE  Booked
<1>1. Books /\ Steady
  BY NextHolds, StutterHolds DEF IInv
<1>2. (Released => Booked) /\ (Unbooked => Booked)
  BY SameIds DEF Released, Booked, Account!Next
<1>3. CASE Client
  <2>1. CASE \E symbol \in Symbols, strategy \in Strategies, amount \in Allocations, mode \in Modes :
               Create(symbol, strategy, amount, mode)
    <3>1. Allocations \subseteq Int
      BY DeskAssumption
    <3> QED
      BY <1>1, <2>1, <3>1, CreateBooked, SameIds DEF Booked, Account!Next
  <2>2. CASE \E c \in ContainerIds : Kill(c)
    BY <1>1, <1>2, <2>2, LeaveBooked DEF Kill
  <2>3. CASE \E c \in ContainerIds : Upgrade(c)
    BY <1>1, <2>3, UpgradeBooked
  <2>4. CASE \E symbol \in Symbols, close \in Closes, inHours \in BOOLEAN : CallBar(symbol, close, inHours)
    BY <1>2, <2>4, NothingBooked DEF CallBar, Start
  <2>5. CASE (\E type \in EventTypes : CallEvent(type)) \/ CallExitAll
    BY <1>2, <2>5, NothingBooked DEF CallEvent, CallExitAll, Start
  <2> QED
    BY <1>3, <2>1, <2>2, <2>3, <2>4, <2>5 DEF Client
<1>4. CASE Work
  BY <1>1, <1>2, <1>4, WorkBooked
<1>5. CASE UNCHANGED deskVars
  BY <1>2, <1>5, NothingBooked DEF deskVars
<1> QED
  BY <1>3, <1>4, <1>5 DEF DeskNext

\* The ledger starts with what was borrowed.
LEMMA InitBooked == DeskInit => Account!Init
<1> SUFFICES ASSUME DeskInit PROVE Account!Init
  OBVIOUS
<1>1. \A c \in ContainerIds : containers[c].status = "None"
  BY DEF DeskInit, NoContainer
<1>2. PaperResults = 0
  BY <1>1, NothingResults DEF PaperResults
<1>3. ledger = Account!NewLedger(Borrowed)
  BY DEF DeskInit, NewLedger, Account!NewLedger, ContainerIds, Account!ContainerIds,
         NoAllocation, Account!NoAllocation
<1> QED
  BY <1>2, <1>3 DEF Account!Init

\* Whatever its clients do, the desk uses its ledger as the ledger is meant to
\* be used: what is proved of the ledger holds on the desk.
THEOREM DeskUsesLedger == DeskSpec => Account!Spec
<1>1. ASSUME IInv, [DeskNext]_deskVars
      PROVE  [Account!Next]_(Account!vars)
  BY <1>1, NextBooked DEF Booked, Unbooked, Account!vars
<1> QED
  BY <1>1, InitBooked, DeskInvariant, PTL DEF DeskSpec, Account!Spec

\* Of a ledger in use, settlement() is the money there is and the paper results.
LEMMA AccountSettles == Account!Spec => []Account!SettlementIsTheMoney
BY Account!SettlementCorrect, AccountConstants

\* The ledger realized what the containers made that have stopped, and its
\* settlement is its money and what those made that never had any.
THEOREM ResultCorrect == DeskSpec => []ResultIsSettled
<1>1. IInv => ResultsKnown
  BY DEF IInv, Books
<1>2. ASSUME ResultsKnown, Account!SettlementIsTheMoney
      PROVE  ResultIsSettled
  BY <1>2 DEF ResultsKnown, ResultIsSettled, Account!SettlementIsTheMoney, Account!Settlement,
              Settlement, PaperResults, NotReal
<1> QED
  BY <1>1, <1>2, DeskUsesLedger, DeskInvariant, AccountSettles, PTL

\* Through the ledger, the desk keeps the promise that no claim is made on money
\* that is not there, and settled() says that no container holds any.
LEMMA AccountKeepsClaims == Account!Spec => Account!ImplementsClaims
BY Account!LedgerImplementsClaims, AccountConstants

LEMMA AccountOverdraws == Account!Spec => Account!OnlyLossesOverdraw
BY Account!OverdraftCorrect, AccountConstants

THEOREM DeskKeepsClaims ==
  DeskSpec => Account!ImplementsClaims /\ Account!OnlyLossesOverdraw
BY DeskUsesLedger, AccountKeepsClaims, AccountOverdraws, PTL

-------------------------------------------------------------------------------
(* The run: a desk whose only client is RunManager::execute.               *)

ExitAll == [op |-> "exitAll"]
Opens   == Event("SessionStart")
Closed  == Event("SessionEnd")
Warns   == Event("MisSquareoffWarning")
Kills   == Event("KillSwitch")

BarCalls == [op : {"bar"}, symbol : Symbols, close : Closes, inHours : BOOLEAN]

RunTypes ==
  /\ phase \in {"Routing", "Replay", "Ending", "Settled"}
  /\ winners \in Seq(Keys) /\ share \in Nat
  /\ now \in [day : 0..MaxDays, window : Windows]
  /\ session \in Session
  /\ todo \in Seq(Calls)
  /\ returned \in BOOLEAN

(* What is left of the pool pays for the winners that are left.            *)
Pays(pool) == pool >= share + (Len(winners) - 1) * NextShare(Len(winners))

Pool ==
  phase = "Routing" =>
    /\ Idle /\ todo = <<>>
    /\ winners # <<>> => Pays(ledger.available)

(* The scheduler is where the tape is.                                     *)
Clock ==
  phase \in {"Routing", "Replay"} =>
    /\ session.day = now.day
    /\ session.open <=> session.day # 0
    /\ session.misFired <=> now.window >= SquareOff

(* What the risk engine knows of the square-off is what the scheduler has  *)
(* fired, but for the events that are still due before the bar.            *)
DueBefore(bar) ==
  \/ todo = <<bar>> /\ (switches.mis <=> session.misFired)
  \/ todo \in {<<Opens, bar>>, <<Closed, Opens, bar>>} /\ ~ session.misFired
  \/ /\ todo \in {<<Warns, bar>>, <<Opens, Warns, bar>>, <<Closed, Opens, Warns, bar>>}
     /\ session.misFired

Due ==
  phase \in {"Routing", "Replay"} =>
    IF todo = <<>>
    THEN switches.mis <=> session.misFired
    ELSE \E bar \in BarCalls : DueBefore(bar)

(* The risk engine knows of an event before the containers do.             *)
Told == call.op = "event" => Heard(switches, call.type) = switches

(* The bar is the last of its calls.                                       *)
BarIsLast == call.op = "bar" => phase = "Replay" /\ todo = <<>>

(* Every container that runs is going to be forced out.                    *)
EndDue ==
  phase = "Ending" =>
    /\ todo \in {<<>>, <<ExitAll>>, <<Closed, ExitAll>>, <<Kills, ExitAll>>}
    /\ todo = <<>> => call \in {NoCall, ExitAll} /\ \A c \in ContainerIds : Active(c) => c \in queue

Over ==
  phase = "Settled" =>
    /\ Idle /\ todo = <<>>
    /\ \A c \in ContainerIds : ~ Active(c)
    /\ returned <=> Settled(ledger) /\ Settlement(ledger) >= 0

RunInv == IInv /\ RunTypes /\ Pool /\ Clock /\ Due /\ Told /\ BarIsLast /\ EndDue /\ Over

\* Short sequences of calls, taken apart.
LEMMA ShortTails ==
  ASSUME NEW a, NEW b, NEW c, NEW d
  PROVE  /\ <<a>> # <<>> /\ Head(<<a>>) = a /\ Tail(<<a>>) = <<>>
         /\ <<a, b>> # <<>> /\ Head(<<a, b>>) = a /\ Tail(<<a, b>>) = <<b>>
         /\ <<a, b, c>> # <<>> /\ Head(<<a, b, c>>) = a /\ Tail(<<a, b, c>>) = <<b, c>>
         /\ <<a, b, c, d>> # <<>> /\ Head(<<a, b, c, d>>) = a /\ Tail(<<a, b, c, d>>) = <<b, c, d>>
<1>1. <<a>> # <<>> /\ Head(<<a>>) = a /\ Tail(<<a>>) = <<>>
  OBVIOUS
<1>2. <<a, b>> # <<>> /\ Head(<<a, b>>) = a /\ Tail(<<a, b>>) = <<b>>
  OBVIOUS
<1>3. <<a, b, c>> # <<>> /\ Head(<<a, b, c>>) = a /\ Tail(<<a, b, c>>) = <<b, c>>
  OBVIOUS
<1>4. <<a, b, c, d>> # <<>> /\ Head(<<a, b, c, d>>) = a /\ Tail(<<a, b, c, d>>) = <<b, c, d>>
  OBVIOUS
<1> QED
  BY <1>1, <1>2, <1>3, <1>4

\* A sequence that has the elements of two, one after the other, is both joined.
LEMMA Joined ==
  ASSUME NEW S, NEW s \in Seq(S), NEW t \in Seq(S), NEW u \in Seq(S),
         Len(u) = Len(s) + Len(t),
         \A i \in 1..Len(s) : u[i] = s[i],
         \A i \in 1..Len(t) : u[Len(s) + i] = t[i]
  PROVE  s \o t = u
<1>1. s \o t \in Seq(S) /\ Len(s \o t) = Len(s) + Len(t)
  OBVIOUS
<1>2. \A i \in 1..Len(s) : (s \o t)[i] = s[i]
  OBVIOUS
<1>3. \A i \in 1..Len(t) : (s \o t)[Len(s) + i] = t[i]
  OBVIOUS
<1>4. ASSUME NEW i \in 1..Len(u)
      PROVE  (s \o t)[i] = u[i]
  <2>1. Len(s) \in Nat /\ Len(t) \in Nat
    OBVIOUS
  <2>2. i \notin 1..Len(s) => i - Len(s) \in 1..Len(t) /\ i = Len(s) + (i - Len(s))
    BY <2>1
  <2> QED
    BY <1>2, <1>3, <2>2
<1> QED
  BY <1>1, <1>4

\* Short sequences put together.
LEMMA ShortJoins ==
  ASSUME NEW a, NEW b, NEW c, NEW d
  PROVE  /\ <<>> \o <<a>> = <<a>> /\ <<>> \o <<>> = <<>>
         /\ <<a>> \o <<>> = <<a>> /\ <<a, b>> \o <<>> = <<a, b>>
         /\ <<a>> \o <<b>> = <<a, b>>
         /\ <<a, b>> \o <<c>> = <<a, b, c>>
         /\ <<a, b, c>> \o <<d>> = <<a, b, c, d>>
<1> DEFINE S == {a, b, c, d}
<1>0. a \in S /\ b \in S /\ c \in S /\ d \in S
  OBVIOUS
<1> HIDE DEF S
<1>1. <<a>> \o <<b>> = <<a, b>>
  <2>1. <<a>> \in Seq(S) /\ <<b>> \in Seq(S) /\ <<a, b>> \in Seq(S)
    BY <1>0
  <2>2. Len(<<a, b>>) = Len(<<a>>) + Len(<<b>>)
    OBVIOUS
  <2>3. \A i \in 1..Len(<<a>>) : <<a, b>>[i] = <<a>>[i]
    OBVIOUS
  <2>4. \A i \in 1..Len(<<b>>) : <<a, b>>[Len(<<a>>) + i] = <<b>>[i]
    OBVIOUS
  <2> QED
    BY <2>1, <2>2, <2>3, <2>4, Joined
<1>2. <<a, b>> \o <<c>> = <<a, b, c>>
  <2>1. <<a, b>> \in Seq(S) /\ <<c>> \in Seq(S) /\ <<a, b, c>> \in Seq(S)
    BY <1>0
  <2>2. Len(<<a, b, c>>) = Len(<<a, b>>) + Len(<<c>>)
    OBVIOUS
  <2>3. \A i \in 1..Len(<<a, b>>) : <<a, b, c>>[i] = <<a, b>>[i]
    OBVIOUS
  <2>4. \A i \in 1..Len(<<c>>) : <<a, b, c>>[Len(<<a, b>>) + i] = <<c>>[i]
    OBVIOUS
  <2> QED
    BY <2>1, <2>2, <2>3, <2>4, Joined
<1>3. <<a, b, c>> \o <<d>> = <<a, b, c, d>>
  <2>1. <<a, b, c>> \in Seq(S) /\ <<d>> \in Seq(S) /\ <<a, b, c, d>> \in Seq(S)
    BY <1>0
  <2>2. Len(<<a, b, c, d>>) = Len(<<a, b, c>>) + Len(<<d>>)
    OBVIOUS
  <2>3. \A i \in 1..Len(<<a, b, c>>) : <<a, b, c, d>>[i] = <<a, b, c>>[i]
    OBVIOUS
  <2>4. \A i \in 1..Len(<<d>>) : <<a, b, c, d>>[Len(<<a, b, c>>) + i] = <<d>>[i]
    OBVIOUS
  <2> QED
    BY <2>1, <2>2, <2>3, <2>4, Joined
<1>4. <<>> \o <<a>> = <<a>> /\ <<>> \o <<>> = <<>> /\ <<a>> \o <<>> = <<a>>
  OBVIOUS
<1>5. <<a, b>> \o <<>> = <<a, b>>
  <2>1. <<a, b>> \in Seq(S) /\ <<>> \in Seq(S)
    BY <1>0
  <2>2. Len(<<a, b>>) = Len(<<a, b>>) + Len(<<>>) /\ Len(<<>>) = 0
    OBVIOUS
  <2> QED
    BY <2>1, <2>2, Joined
<1> QED
  BY <1>1, <1>2, <1>3, <1>4, <1>5

\* The calls of a run are calls of the desk.
LEMMA RunCalls ==
  /\ ExitAll \in Calls /\ ExitAll.op = "exitAll"
  /\ \A e \in {Opens, Closed, Warns, Kills} : e \in Calls /\ e.op = "event" /\ e.type \in EventTypes
  /\ Opens.type = "SessionStart" /\ Closed.type = "SessionEnd"
  /\ Warns.type = "MisSquareoffWarning" /\ Kills.type = "KillSwitch"
  /\ \A bar \in BarCalls : bar \in Calls /\ bar.op = "bar"
<1>1. \A type \in EventTypes : LET e == Event(type)
                               IN  e \in Calls /\ e.op = "event" /\ e.type = type
  BY DEF Event, Calls
<1>2. ExitAll \in Calls /\ ExitAll.op = "exitAll"
  BY DEF ExitAll, Calls
<1>3. \A bar \in BarCalls : bar \in Calls /\ bar.op = "bar"
  BY DEF BarCalls, Calls
<1> QED
  BY <1>1, <1>2, <1>3 DEF Opens, Closed, Warns, Kills, EventTypes

\* The risk engine learns nothing new of an event it knows.
LEMMA HeardTwice ==
  ASSUME NEW s \in Switches, NEW type \in EventTypes
  PROVE  /\ Heard(Heard(s, type), type) = Heard(s, type)
         /\ type = "SessionStart" => ~ Heard(s, type).mis
         /\ type = "MisSquareoffWarning" => Heard(s, type).mis
         /\ type = "SessionEnd" => Heard(s, type) = s
<1>1. CASE type = "KillSwitch"
  BY <1>1 DEF Heard, Switches
<1>2. CASE type = "MisSquareoffWarning"
  BY <1>2 DEF Heard, Switches
<1>3. CASE type = "SessionStart"
  <2>1. \A t \in Switches : Heard(t, type) = [t EXCEPT !.mis = FALSE]
    BY <1>3 DEF Heard
  <2>2. Heard(s, type) \in Switches
    BY HeardSwitches
  <2> QED
    BY <1>3, <2>1, <2>2 DEF Switches
<1>4. CASE type = "SessionEnd"
  BY <1>4 DEF Heard, Switches
<1> QED
  BY <1>1, <1>2, <1>3, <1>4 DEF EventTypes
\* Between two calls there is none.
LEMMA IdleCall ==
  ASSUME IInv, Idle
  PROVE  call = NoCall /\ call.op = "none" /\ queue = {}
BY CallFacts DEF IInv, Round, Idle

\* What is divided are whole paise.
LEMMA NextShareNat ==
  ASSUME RunTypes, NEW n \in Nat \ {0}
  PROVE  NextShare(n) \in Nat
<1>1. Borrowed \div n \in Nat
  BY DivNat, DeskAssumption
<1> QED
  BY <1>1 DEF NextShare, RunTypes

\* A winner is a symbol and a strategy.
LEMMA FirstWinner ==
  ASSUME RunTypes, winners # <<>>
  PROVE  /\ Head(winners)[1] \in Symbols /\ Head(winners)[2] \in Strategies
         /\ Head(winners) \in Keys /\ Head(winners) = <<Head(winners)[1], Head(winners)[2]>>
         /\ Tail(winners) \in Seq(Keys)
         /\ Len(winners) \in Nat \ {0} /\ Len(Tail(winners)) = Len(winners) - 1
<1>1. winners \in Seq(Keys)
  BY DEF RunTypes
<1>2. Head(winners) \in Keys
  BY <1>1
<1>3. PICK s \in Symbols, x \in Strategies : Head(winners) = <<s, x>>
  BY <1>2 DEF Keys
<1> QED
  BY <1>1, <1>2, <1>3

\* The pool after a winner.
LEMMA PoolPays ==
  ASSUME NEW available \in Int, NEW rest \in Int, NEW n \in Nat \ {0}, NEW part \in Nat, NEW next \in Nat,
         available >= part + (n - 1) * next, rest \in {available, available - part}
  PROVE  available >= part /\ (n > 1 => rest >= next + ((n - 1) - 1) * next)
<1> DEFINE m == n - 1
<1>1. m \in Nat /\ m * next \in Nat
  BY DEF m
<1>2. n > 1 => next + (m - 1) * next = m * next
  BY <1>1
<1>3. available >= part + m * next
  OBVIOUS
<1> HIDE DEF m
<1>4. available >= part /\ rest >= m * next
  BY <1>1, <1>3
<1> QED
  BY <1>1, <1>2, <1>4 DEF m

\* What a start does to the money that is left.
LEMMA TakesMoney ==
  ASSUME NEW l, LedgerOK(l), NEW c \in ContainerIds, NEW amount \in Int
  PROVE  Take(l, c, amount, "Real").available = l.available - amount
<1>1. l \in LedgerState
  BY DEF LedgerOK
<1> QED
  BY <1>1 DEF Take, LedgerState

\* The winners are started one by one.
LEMMA RouteStep ==
  ASSUME RunInv, Route
  PROVE  RunInv'
<1> DEFINE h == Head(winners)
           n == Len(winners)
<1>1. /\ IInv /\ RunTypes /\ phase = "Routing" /\ winners # <<>> /\ Idle /\ todo = <<>>
      /\ Pays(ledger.available) /\ Clock /\ (switches.mis <=> session.misFired)
      /\ Create(h[1], h[2], share, "Real")
      /\ winners' = Tail(winners) /\ share' = NextShare(n)
      /\ UNCHANGED <<phase, now, session, todo, returned>>
  BY DEF RunInv, Route, Pool, Due
<1>2. /\ h[1] \in Symbols /\ h[2] \in Strategies /\ Tail(winners) \in Seq(Keys)
      /\ n \in Nat \ {0} /\ Len(Tail(winners)) = n - 1
  BY <1>1, FirstWinner
<1> HIDE DEF h
<1>3. NextShare(n) \in Nat /\ share \in Nat
  BY <1>1, <1>2, NextShareNat DEF RunTypes
<1>4. IInv'
  <2>1. "Real" \in Modes /\ share \in Int
    BY <1>3 DEF Modes
  <2> QED
    BY <1>1, <1>2, <2>1, CreateStep
<1>5. UNCHANGED <<switches, call, queue, intents, exiting, bars>> /\ nextId' = nextId + 1
  BY <1>1 DEF Create
<1>6. call = NoCall /\ call.op = "none"
  BY <1>1, IdleCall
<1>7. RunTypes'
  BY <1>1, <1>2, <1>3 DEF RunTypes
<1>8. ASSUME winners' # <<>>
      PROVE  Pays(ledger.available)'
  <2>1. nextId \in 1..(MaxContainers + 1) /\ LedgerOK(ledger)
    BY <1>1 DEF IInv, Books, Types
  <2>2. NextShare(Len(winners))' = NextShare(n)
    <3>1. nextId' # 1
      BY <1>5, <2>1, MaxContainersAssumption
    <3> QED
      BY <1>1, <3>1 DEF NextShare
  <2>3. ledger.available \in Int /\ ledger'.available \in {ledger.available, ledger.available - share}
    <3>1. ledger.available \in Int
      BY <2>1 DEF LedgerOK, LedgerState
    <3>2. nextId \in ContainerIds
      BY <1>1, <2>1, MaxContainersAssumption DEF Create, ContainerIds
    <3>3. ledger' = ledger \/ ledger' = Take(ledger, nextId, share, "Real")
      BY <1>1 DEF Create, CreateRefused, CreateStarted
    <3>4. Take(ledger, nextId, share, "Real").available = ledger.available - share
      BY <1>3, <2>1, <3>2, TakesMoney
    <3> QED
      BY <3>1, <3>3, <3>4
  <2>4. ledger'.available \in Int
    BY <1>3, <2>3
  <2>5. ledger.available >= share + (n - 1) * NextShare(n)
    BY <1>1 DEF Pays
  <2>6. n > 1
    BY <1>1, <1>2, <1>8
  <2>7. ledger'.available >= NextShare(n) + ((n - 1) - 1) * NextShare(n)
    BY <1>2, <1>3, <2>3, <2>4, <2>5, <2>6, PoolPays
  <2>8. Len(winners') = n - 1
    BY <1>1, <1>2
  <2> QED
    BY <1>1, <2>2, <2>7, <2>8 DEF Pays
<1>9. Pool'
  BY <1>1, <1>5, <1>8 DEF Pool, Idle
<1>10. Clock' /\ Due' /\ EndDue' /\ Over'
  BY <1>1, <1>5 DEF Clock, Due, EndDue, Over
<1>11. Told' /\ BarIsLast'
  BY <1>5, <1>6 DEF Told, BarIsLast
<1> QED
  BY <1>4, <1>7, <1>9, <1>10, <1>11 DEF RunInv

\* A step that leaves the desk alone.
LEMMA DeskStays ==
  ASSUME IInv, UNCHANGED deskVars
  PROVE  IInv' /\ UNCHANGED <<containers, ledger, switches, call, queue, nextId>>
BY StutterHolds DEF deskVars

\* The replay starts when somebody runs.
LEMMA StartReplayStep ==
  ASSUME RunInv, StartReplay
  PROVE  RunInv'
<1>1. /\ IInv /\ RunTypes /\ phase = "Routing" /\ Idle /\ todo = <<>> /\ Clock /\ Due
      /\ phase' = IF \E c \in ContainerIds : Kept(c) THEN "Replay" ELSE "Ending"
      /\ UNCHANGED deskVars
      /\ UNCHANGED <<winners, share, now, session, todo, returned>>
  BY DEF RunInv, StartReplay, Pool
<1>2. IInv' /\ UNCHANGED <<containers, ledger, switches, call, queue, nextId>>
  BY <1>1, DeskStays
<1>3. call = NoCall /\ call.op = "none"
  BY <1>1, IdleCall
<1>4. RunTypes' /\ Pool' /\ Clock'
  BY <1>1 DEF RunTypes, Pool, Clock
<1>5. Due'
  BY <1>1, <1>2 DEF Due
<1>6. Told' /\ BarIsLast' /\ Over'
  BY <1>1, <1>2, <1>3 DEF Told, BarIsLast, Over
<1>7. EndDue'
  <2>1. ASSUME phase' = "Ending"
        PROVE  \A c \in ContainerIds : ~ Active(c)'
    BY <1>1, <1>2, <2>1 DEF Kept, Active
  <2> QED
    BY <1>1, <1>2, <1>3, <2>1 DEF EndDue
<1> QED
  BY <1>2, <1>4, <1>5, <1>6, <1>7 DEF RunInv
\* The events a bar brings about, by what the scheduler was told before.
LEMMA BarEvents ==
  ASSUME NEW s \in Session, NEW day, NEW window \in Windows, NEW bar,
         s.day = day => s.open
  PROVE  LET due == OnBarEvents(s, day, window) \o <<bar>>
             t == AfterBar(s, day, window)
         IN  \/ due = <<bar>> /\ t.misFired = s.misFired
             \/ due \in {<<Opens, bar>>, <<Closed, Opens, bar>>} /\ ~ t.misFired
             \/ due \in {<<Warns, bar>>, <<Opens, Warns, bar>>, <<Closed, Opens, Warns, bar>>} /\ t.misFired
<1> DEFINE newDay == s.day # day
           late == window >= SquareOff
           warn == late /\ (newDay \/ (s.open /\ ~ s.misFired))
           due == OnBarEvents(s, day, window) \o <<bar>>
           t == AfterBar(s, day, window)
<1> SUFFICES \/ due = <<bar>> /\ t.misFired = s.misFired
             \/ due \in {<<Opens, bar>>, <<Closed, Opens, bar>>} /\ ~ t.misFired
             \/ /\ due \in {<<Warns, bar>>, <<Opens, Warns, bar>>, <<Closed, Opens, Warns, bar>>}
                /\ t.misFired
  OBVIOUS
<1>1. OnBarEvents(s, day, window) =
        If(newDay /\ s.open, <<Closed>>) \o If(newDay, <<Opens>>) \o If(warn, <<Warns>>)
  BY DEF OnBarEvents, Closed, Opens, Warns
<1>2. t.misFired = ((~ newDay /\ s.misFired) \/ ((s.open \/ newDay) /\ late))
  BY DEF AfterBar
<1>3. s.open \in BOOLEAN /\ s.misFired \in BOOLEAN /\ newDay \in BOOLEAN /\ late \in BOOLEAN
  BY DEF Session
<1> HIDE DEF newDay, late, t
<1>4. CASE newDay /\ s.open /\ late
  <2>1. due = ((<<Closed>> \o <<Opens>>) \o <<Warns>>) \o <<bar>>
    BY <1>1, <1>4 DEF If
  <2>2. /\ <<Closed>> \o <<Opens>> = <<Closed, Opens>>
        /\ <<Closed, Opens>> \o <<Warns>> = <<Closed, Opens, Warns>>
    BY ShortJoins
  <2>3. <<Closed, Opens, Warns>> \o <<bar>> = <<Closed, Opens, Warns, bar>>
    BY ShortJoins
  <2>4. due = <<Closed, Opens, Warns, bar>>
    BY <2>1, <2>2, <2>3
  <2> QED
    BY <1>2, <1>4, <2>4
<1>5. CASE newDay /\ s.open /\ ~ late
  <2>1. due = ((<<Closed>> \o <<Opens>>) \o <<>>) \o <<bar>>
    BY <1>1, <1>5 DEF If
  <2>2. /\ <<Closed>> \o <<Opens>> = <<Closed, Opens>>
        /\ <<Closed, Opens>> \o <<>> = <<Closed, Opens>>
    BY ShortJoins
  <2>3. <<Closed, Opens>> \o <<bar>> = <<Closed, Opens, bar>>
    BY ShortJoins
  <2>4. due = <<Closed, Opens, bar>>
    BY <2>1, <2>2, <2>3
  <2> QED
    BY <1>2, <1>5, <2>4
<1>6. CASE newDay /\ ~ s.open /\ late
  <2>1. due = ((<<>> \o <<Opens>>) \o <<Warns>>) \o <<bar>>
    BY <1>1, <1>6 DEF If
  <2>2. <<>> \o <<Opens>> = <<Opens>> /\ <<Opens>> \o <<Warns>> = <<Opens, Warns>>
    BY ShortJoins
  <2>3. <<Opens, Warns>> \o <<bar>> = <<Opens, Warns, bar>>
    BY ShortJoins
  <2>4. due = <<Opens, Warns, bar>>
    BY <2>1, <2>2, <2>3
  <2> QED
    BY <1>2, <1>6, <2>4
<1>7. CASE newDay /\ ~ s.open /\ ~ late
  <2>1. due = ((<<>> \o <<Opens>>) \o <<>>) \o <<bar>>
    BY <1>1, <1>7 DEF If
  <2>2. due = <<Opens, bar>>
    BY <2>1, ShortJoins
  <2> QED
    BY <1>2, <1>7, <2>2
<1>8. CASE ~ newDay /\ late /\ ~ s.misFired
  <2>0. s.open
    BY <1>8 DEF newDay
  <2>1. due = ((<<>> \o <<>>) \o <<Warns>>) \o <<bar>>
    BY <1>1, <1>8, <2>0 DEF If
  <2>2. due = <<Warns, bar>>
    BY <2>1, ShortJoins
  <2> QED
    BY <1>2, <1>8, <2>0, <2>2
<1>9. CASE ~ newDay /\ ~ (late /\ ~ s.misFired)
  <2>1. due = ((<<>> \o <<>>) \o <<>>) \o <<bar>>
    BY <1>1, <1>9 DEF If
  <2>2. due = <<bar>>
    BY <2>1, ShortJoins
  <2>3. t.misFired = s.misFired
    BY <1>2, <1>3, <1>9
  <2> QED
    BY <2>2, <2>3
<1> QED
  BY <1>3, <1>4, <1>5, <1>6, <1>7, <1>8, <1>9

\* The scheduler follows the tape.
LEMMA ClockTicks ==
  ASSUME RunTypes, Clock, phase = "Replay", NEW day \in 1..MaxDays, NEW window \in Windows,
         day > now.day \/ (day = now.day /\ window >= now.window)
  PROVE  LET s == AfterBar(session, day, window)
         IN  /\ s \in Session /\ s.day = day /\ s.open
             /\ s.misFired <=> window >= SquareOff
             /\ session.day = day => session.open
<1> DEFINE s == AfterBar(session, day, window)
<1>1. /\ session \in Session /\ now.day \in 0..MaxDays /\ now.window \in Windows
      /\ session.day = now.day /\ (session.open <=> session.day # 0)
      /\ session.misFired <=> now.window >= SquareOff
  BY DEF RunTypes, Clock
<1>2. session.open \in BOOLEAN /\ session.misFired \in BOOLEAN
  BY <1>1 DEF Session
<1>3. day \in Int /\ day > 0 /\ MaxDays \in Nat /\ now.day \in Int /\ now.window \in Int /\ window \in Int
  BY <1>1, RunAssumption DEF Windows
<1>4. session.day = day => session.open
  BY <1>1, <1>3
<1>5. s.day = day /\ s.open = (session.open \/ session.day # day)
      /\ s.misFired = ((~ (session.day # day) /\ session.misFired)
                         \/ ((session.open \/ session.day # day) /\ window >= SquareOff))
  BY DEF AfterBar
<1>6. s.open
  BY <1>4, <1>5
<1>7. session.day = day => window >= now.window
  BY <1>1, <1>3
<1>8. session.day = day /\ session.misFired => window >= SquareOff
  BY <1>1, <1>3, <1>7 DEF SquareOff
<1>9. s.misFired <=> window >= SquareOff
  BY <1>4, <1>5, <1>8
<1>10. s \in Session
  <2>1. day \in 0..MaxDays
    BY <1>3
  <2>2. s = [day |-> day, misFired |-> s.misFired, open |-> s.open]
    BY DEF AfterBar
  <2>3. s.misFired \in BOOLEAN /\ s.open \in BOOLEAN
    BY <1>5
  <2> HIDE DEF s
  <2> QED
    BY <2>1, <2>2, <2>3 DEF Session
<1> QED
  BY <1>4, <1>5, <1>6, <1>9, <1>10

\* A bar is taken from the tape.
LEMMA NextBarStep ==
  ASSUME RunInv, NEW symbol \in Symbols, NEW close \in Closes, NEW day \in 1..MaxDays,
         NEW window \in Windows, NextBar(symbol, close, day, window)
  PROVE  RunInv'
<1> DEFINE bar == [op |-> "bar", symbol |-> symbol, close |-> close, inHours |-> window \in Regular]
<1>1. /\ IInv /\ RunTypes /\ Clock /\ Due /\ phase = "Replay" /\ Idle /\ todo = <<>>
      /\ bars < MaxBars /\ bars' = bars + 1
      /\ day > now.day \/ (day = now.day /\ window >= now.window)
      /\ now' = [day |-> day, window |-> window]
      /\ session' = AfterBar(session, day, window)
      /\ todo' = OnBarEvents(session, day, window) \o <<bar>>
      /\ UNCHANGED <<phase, winners, share, returned>>
  BY DEF RunInv, NextBar
<1>2. UNCHANGED <<containers, nextId, ledger, positions, index, switches, call, queue, intents,
                  exiting, worth>>
  BY DEF NextBar
<1>3. bar \in BarCalls
  <2>1. (window \in Regular) \in BOOLEAN
    OBVIOUS
  <2> QED
    BY <2>1 DEF BarCalls
<1> HIDE DEF bar
<1>4. call = NoCall /\ call.op = "none"
  BY <1>1, IdleCall
<1>5. IInv'
  <2>1. Books'
    BY <1>1, <1>2, StayBooks DEF IInv
  <2>2. bars' \in 0..MaxBars
    BY <1>1, DeskAssumption DEF IInv, Round
  <2>3. Round' /\ Halt'
    BY <1>1, <1>2, <2>2 DEF IInv, Round, Halt, Halting, Idle, Active
  <2> QED
    BY <2>1, <2>3 DEF IInv
<1>6. /\ session' \in Session /\ session'.day = day /\ session'.open
      /\ session'.misFired <=> window >= SquareOff
      /\ session.day = day => session.open
  BY <1>1, ClockTicks
<1>7. \/ todo' = <<bar>> /\ session'.misFired = session.misFired
      \/ todo' \in {<<Opens, bar>>, <<Closed, Opens, bar>>} /\ ~ session'.misFired
      \/ /\ todo' \in {<<Warns, bar>>, <<Opens, Warns, bar>>, <<Closed, Opens, Warns, bar>>}
         /\ session'.misFired
  BY <1>1, <1>6, BarEvents DEF RunTypes
<1>8. RunTypes'
  <2>1. todo' \in Seq(Calls)
    <3>1. bar \in Calls /\ Opens \in Calls /\ Closed \in Calls /\ Warns \in Calls
      BY <1>3, RunCalls
    <3>2. /\ <<bar>> \in Seq(Calls) /\ <<Opens, bar>> \in Seq(Calls) /\ <<Warns, bar>> \in Seq(Calls)
          /\ <<Closed, Opens, bar>> \in Seq(Calls) /\ <<Opens, Warns, bar>> \in Seq(Calls)
      BY <3>1
    <3>3. <<Closed, Opens, Warns, bar>> \in Seq(Calls)
      BY <3>1
    <3> QED
      BY <1>7, <3>2, <3>3
  <2>2. now' \in [day : 0..MaxDays, window : Windows]
    BY <1>1
  <2> QED
    BY <1>1, <1>6, <2>1, <2>2 DEF RunTypes
<1>9. Clock'
  <2>1. now'.day = day /\ now'.window = window /\ day # 0
    BY <1>1
  <2> QED
    BY <1>6, <2>1 DEF Clock
<1>10. Due'
  <2>1. switches'.mis <=> session.misFired
    BY <1>1, <1>2 DEF Due
  <2>2. DueBefore(bar)'
    BY <1>7, <2>1 DEF DueBefore
  <2>3. todo' # <<>>
    BY <1>7, ShortTails
  <2> QED
    BY <1>3, <2>2, <2>3 DEF Due
<1>11. Pool' /\ EndDue' /\ Over'
  BY <1>1 DEF Pool, EndDue, Over
<1>12. Told' /\ BarIsLast'
  BY <1>2, <1>4 DEF Told, BarIsLast
<1> QED
  BY <1>5, <1>8, <1>9, <1>10, <1>11, <1>12 DEF RunInv
\* The first of the calls that are due: an event the risk engine hears, or the bar.
LEMMA DueStep ==
  ASSUME NEW bar \in BarCalls, DueBefore(bar), switches \in Switches, session' = session,
         todo' = Tail(todo),
         switches' = IF Head(todo).op = "event" THEN Heard(switches, Head(todo).type) ELSE switches
  PROVE  \/ Head(todo) = bar /\ todo' = <<>> /\ (switches'.mis <=> session'.misFired)
         \/ /\ Head(todo) \in {Opens, Closed, Warns} /\ todo' # <<>>
            /\ DueBefore(bar)'
<1>1. /\ bar.op = "bar" /\ Opens.op = "event" /\ Closed.op = "event" /\ Warns.op = "event"
      /\ Opens.type = "SessionStart" /\ Closed.type = "SessionEnd"
      /\ Warns.type = "MisSquareoffWarning"
  BY RunCalls
<1>2. CASE todo = <<bar>> /\ (switches.mis <=> session.misFired)
  <2>1. Head(todo) = bar /\ todo' = <<>>
    BY <1>2, ShortTails
  <2>2. switches' = switches
    BY <1>1, <2>1
  <2> QED
    BY <1>2, <2>1, <2>2
<1>3. CASE todo = <<Opens, bar>> /\ ~ session.misFired
  <2>1. Head(todo) = Opens /\ todo' = <<bar>> /\ todo' # <<>>
    BY <1>3, ShortTails
  <2>2. ~ switches'.mis
    BY <1>1, <2>1, HeardTwice DEF EventTypes
  <2>3. DueBefore(bar)'
    BY <1>3, <2>1, <2>2 DEF DueBefore
  <2> QED
    BY <2>1, <2>3
<1>4. CASE todo = <<Closed, Opens, bar>> /\ ~ session.misFired
  <2>1. Head(todo) = Closed /\ todo' = <<Opens, bar>> /\ todo' # <<>>
    BY <1>4, ShortTails
  <2>2. DueBefore(bar)'
    BY <1>4, <2>1 DEF DueBefore
  <2> QED
    BY <2>1, <2>2
<1>5. CASE todo = <<Warns, bar>> /\ session.misFired
  <2>1. Head(todo) = Warns /\ todo' = <<bar>> /\ todo' # <<>>
    BY <1>5, ShortTails
  <2>2. switches'.mis
    BY <1>1, <2>1, HeardTwice DEF EventTypes
  <2>3. DueBefore(bar)'
    BY <1>5, <2>1, <2>2 DEF DueBefore
  <2> QED
    BY <2>1, <2>3
<1>6. CASE todo = <<Opens, Warns, bar>> /\ session.misFired
  <2>1. Head(todo) = Opens /\ todo' = <<Warns, bar>> /\ todo' # <<>>
    BY <1>6, ShortTails
  <2>2. DueBefore(bar)'
    BY <1>6, <2>1 DEF DueBefore
  <2> QED
    BY <2>1, <2>2
<1>7. CASE todo = <<Closed, Opens, Warns, bar>> /\ session.misFired
  <2>1. Head(todo) = Closed /\ todo' = <<Opens, Warns, bar>> /\ todo' # <<>>
    BY <1>7, ShortTails
  <2>2. DueBefore(bar)'
    BY <1>7, <2>1 DEF DueBefore
  <2> QED
    BY <2>1, <2>2
<1> QED
  BY <1>2, <1>3, <1>4, <1>5, <1>6, <1>7 DEF DueBefore

\* The first of the calls that end the run.
LEMMA EndStep ==
  ASSUME todo \in {<<>>, <<ExitAll>>, <<Closed, ExitAll>>, <<Kills, ExitAll>>}, todo # <<>>
  PROVE  \/ Head(todo) = ExitAll /\ Tail(todo) = <<>>
         \/ Head(todo) \in {Closed, Kills} /\ Tail(todo) = <<ExitAll>> /\ Tail(todo) # <<>>
<1>1. CASE todo = <<ExitAll>>
  BY <1>1, ShortTails
<1>2. CASE todo = <<Closed, ExitAll>>
  BY <1>2, ShortTails
<1>3. CASE todo = <<Kills, ExitAll>>
  BY <1>3, ShortTails
<1> QED
  BY <1>1, <1>2, <1>3

\* A call goes out to the containers.
LEMMA MakeCallStep ==
  ASSUME RunInv, MakeCall
  PROVE  RunInv'
<1> DEFINE h == Head(todo)
<1>1. /\ IInv /\ RunTypes /\ Clock /\ Due /\ EndDue /\ todo # <<>>
      /\ Start(h) /\ todo' = Tail(todo)
      /\ switches' = IF h.op = "event" THEN Heard(switches, h.type) ELSE switches
      /\ UNCHANGED <<bars, phase, winners, share, now, session, returned>>
      /\ phase \in {"Replay", "Ending"}
  <2>1. phase \in {"Replay", "Ending"}
    BY DEF RunInv, MakeCall, Pool, Over, RunTypes
  <2> QED
    BY <2>1 DEF RunInv, MakeCall
<1>2. switches \in Switches /\ bars \in 0..MaxBars /\ todo \in Seq(Calls)
  BY <1>1 DEF IInv, Round, RunTypes
<1>3. h \in Calls /\ todo' \in Seq(Calls)
  BY <1>1, <1>2
<1>4. ASSUME phase = "Replay"
      PROVE  Due' /\ h.op \in {"event", "bar"} /\ (h.op = "bar" => todo' = <<>>)
  <2>1. PICK bar \in BarCalls : DueBefore(bar)
    BY <1>1, <1>4 DEF Due
  <2>2. \/ h = bar /\ todo' = <<>> /\ (switches'.mis <=> session'.misFired)
        \/ h \in {Opens, Closed, Warns} /\ todo' # <<>> /\ DueBefore(bar)'
    BY <1>1, <1>2, <2>1, DueStep
  <2>3. Due'
    BY <2>2 DEF Due
  <2>4. h.op \in {"event", "bar"} /\ (h.op = "bar" => todo' = <<>>)
    BY <2>2, RunCalls
  <2> QED
    BY <2>3, <2>4
<1>5. ASSUME phase = "Ending"
      PROVE  h.op \in {"event", "exitAll"} /\ todo' \in {<<>>, <<ExitAll>>} /\ (todo' = <<>> => h = ExitAll)
  <2>1. \/ h = ExitAll /\ todo' = <<>>
        \/ h \in {Closed, Kills} /\ todo' = <<ExitAll>> /\ todo' # <<>>
    BY <1>1, <1>5, EndStep DEF EndDue
  <2> QED
    BY <2>1, RunCalls
<1>6. h.op \in {"event", "bar", "exitAll"} /\ h.op # "none"
  BY <1>1, <1>4, <1>5
<1>7. h.op = "event" => h.type \in EventTypes
  BY <1>3, CallFacts
<1>8. /\ switches' \in Switches
      /\ switches'.kill \/ switches'.mis => switches.kill \/ switches.mis \/ Halts(h)
  BY <1>1, <1>2, <1>7, HeardSwitches DEF Halts
<1>9. IInv'
  <2>1. bars' \in 0..MaxBars
    BY <1>1, <1>2
  <2> QED
    BY <1>1, <1>3, <1>6, <1>8, <2>1, StartStep
<1>10. /\ queue' = {c \in ContainerIds : Kept(c)} /\ containers' = containers
       /\ call' \in {NoCall, h}
  BY <1>1 DEF Start
<1>11. RunTypes'
  BY <1>1, <1>3 DEF RunTypes
<1>12. Told'
  <2>1. ASSUME call'.op = "event"
        PROVE  Heard(switches', call'.type) = switches'
    <3>1. call' = h /\ h.op = "event"
      BY <1>10, <2>1, CallFacts
    <3> QED
      BY <1>1, <1>2, <1>7, <3>1, HeardTwice
  <2> QED
    BY <2>1 DEF Told
<1>13. BarIsLast'
  <2>1. ASSUME call'.op = "bar"
        PROVE  phase' = "Replay" /\ todo' = <<>>
    <3>1. h.op = "bar"
      BY <1>10, <2>1, CallFacts
    <3> QED
      BY <1>1, <1>4, <1>5, <3>1
  <2> QED
    BY <2>1 DEF BarIsLast
<1>14. Due'
  BY <1>1, <1>4 DEF Due
<1>15. EndDue'
  <2>1. ASSUME phase' = "Ending"
        PROVE  /\ todo' \in {<<>>, <<ExitAll>>}
               /\ todo' = <<>> => call' \in {NoCall, ExitAll}
               /\ \A c \in ContainerIds : Active(c)' => c \in queue'
    <3>1. \A c \in ContainerIds : Active(c)' => c \in queue'
      BY <1>10 DEF Active, Kept
    <3> QED
      BY <1>1, <1>5, <1>10, <2>1, <3>1
  <2> QED
    BY <2>1 DEF EndDue
<1>16. Pool' /\ Clock' /\ Over'
  BY <1>1 DEF Pool, Clock, Over
<1> QED
  BY <1>9, <1>11, <1>12, <1>13, <1>14, <1>15, <1>16 DEF RunInv

\* The tape ends, or the limit on bars is reached.
LEMMA EndReplayStep ==
  ASSUME RunInv, EndReplay
  PROVE  RunInv'
<1>1. /\ IInv /\ RunTypes /\ phase = "Replay" /\ Idle /\ phase' = "Ending"
      /\ Flush \/ ForceStop
      /\ UNCHANGED deskVars /\ UNCHANGED <<winners, share, now, returned>>
  BY DEF RunInv, EndReplay
<1>2. IInv' /\ UNCHANGED <<containers, ledger, switches, call, queue, nextId>>
  BY <1>1, DeskStays
<1>3. call = NoCall /\ call.op = "none"
  BY <1>1, IdleCall
<1>4. todo' \in {<<ExitAll>>, <<Closed, ExitAll>>, <<Kills, ExitAll>>}
  <2>1. CASE Flush
    <3>1. todo' = FlushEvents(session) \o <<ExitAll>>
      BY <2>1 DEF Flush, ExitAll
    <3>2. FlushEvents(session) \in {<<>>, <<Closed>>}
      BY DEF FlushEvents, If, Closed
    <3>3. <<>> \o <<ExitAll>> = <<ExitAll>> /\ <<Closed>> \o <<ExitAll>> = <<Closed, ExitAll>>
      BY ShortJoins
    <3> QED
      BY <3>1, <3>2, <3>3
  <2>2. CASE ForceStop
    BY <2>2 DEF ForceStop, Kills, ExitAll
  <2> QED
    BY <1>1, <2>1, <2>2
<1>5. todo' # <<>> /\ todo' \in Seq(Calls)
  <2>1. ExitAll \in Calls /\ Closed \in Calls /\ Kills \in Calls
    BY RunCalls
  <2>2. /\ <<ExitAll>> \in Seq(Calls) /\ <<Closed, ExitAll>> \in Seq(Calls)
        /\ <<Kills, ExitAll>> \in Seq(Calls)
    BY <2>1
  <2>3. <<ExitAll>> # <<>> /\ <<Closed, ExitAll>> # <<>> /\ <<Kills, ExitAll>> # <<>>
    BY ShortTails
  <2> QED
    BY <1>4, <2>2, <2>3
<1>6. session' \in Session
  <2>1. session \in Session
    BY <1>1 DEF RunTypes
  <2>2. session' = session \/ session' = [session EXCEPT !.open = FALSE]
    BY <1>1 DEF Flush, ForceStop
  <2>3. [session EXCEPT !.open = FALSE] \in Session
    BY <2>1 DEF Session
  <2> QED
    BY <2>1, <2>2, <2>3
<1>7. RunTypes'
  BY <1>1, <1>5, <1>6 DEF RunTypes
<1>8. EndDue'
  BY <1>4, <1>5 DEF EndDue
<1>9. Told' /\ BarIsLast'
  BY <1>2, <1>3 DEF Told, BarIsLast
<1>10. Pool' /\ Clock' /\ Due' /\ Over'
  BY <1>1 DEF Pool, Clock, Due, Over
<1> QED
  BY <1>2, <1>7, <1>8, <1>9, <1>10 DEF RunInv

\* The settlement is returned.
LEMMA SettleStep ==
  ASSUME RunInv, Settle
  PROVE  RunInv'
<1>1. /\ IInv /\ RunTypes /\ EndDue /\ phase = "Ending" /\ Idle /\ todo = <<>> /\ phase' = "Settled"
      /\ returned' = (Settled(ledger) /\ Settlement(ledger) >= 0)
      /\ UNCHANGED deskVars /\ UNCHANGED <<winners, share, now, session, todo>>
  BY DEF RunInv, Settle
<1>2. IInv' /\ UNCHANGED <<containers, ledger, switches, call, queue, nextId>>
  BY <1>1, DeskStays
<1>3. call = NoCall /\ call.op = "none" /\ queue = {}
  BY <1>1, IdleCall
<1>4. \A c \in ContainerIds : ~ Active(c)'
  BY <1>1, <1>2, <1>3 DEF EndDue, Active
<1>5. Over'
  <2>1. Idle' /\ todo' = <<>>
    BY <1>1, <1>2 DEF Idle
  <2>2. returned' <=> (Settled(ledger) /\ Settlement(ledger) >= 0)'
    BY <1>1, <1>2 DEF Settled, Settlement
  <2> QED
    BY <1>4, <2>1, <2>2 DEF Over
<1>6. returned' \in BOOLEAN
  BY <1>1
<1>7. RunTypes'
  BY <1>1, <1>6 DEF RunTypes
<1>8. Told' /\ BarIsLast'
  BY <1>2, <1>3 DEF Told, BarIsLast
<1>9. Pool' /\ Clock' /\ Due' /\ EndDue'
  BY <1>1 DEF Pool, Clock, Due, EndDue
<1> QED
  BY <1>2, <1>5, <1>7, <1>8, <1>9 DEF RunInv

\* What a visit does to the call, and forcing out to the container.
LEMMA VisitFacts ==
  ASSUME IInv, Told, Work
  PROVE  /\ ~ Idle /\ switches' = switches /\ call' \in {NoCall, call}
         /\ call = ExitAll => /\ queue' = queue \ {Min(queue)}
                              /\ \A c \in ContainerIds : Active(c)' => Active(c) /\ c # Min(queue)
<1> DEFINE m == Min(queue)
<1>1. ~ Idle /\ (VisitBar(m) \/ VisitEvent(m) \/ VisitExit(m))
  BY DEF Work
<1>2. m \in ContainerIds
  BY <1>1, FirstOfRound DEF IInv, Round, Idle
<1> HIDE DEF m
<1>3. ASSUME VisitBar(m)
      PROVE  call.op = "bar" /\ switches' = switches /\ call' \in {NoCall, call}
  BY <1>3 DEF VisitBar, Visit, SkipBar, OnBar, Refuse, Trade, Exit, NextIntent, Done
<1>4. ASSUME VisitEvent(m)
      PROVE  call.op = "event" /\ switches' = switches /\ call' \in {NoCall, call}
  BY <1>4 DEF VisitEvent, Visit, Done, Told
<1>5. ASSUME VisitExit(m)
      PROVE  /\ switches' = switches /\ call' \in {NoCall, call}
             /\ queue' = queue \ {Min(queue)}
             /\ \A c \in ContainerIds : Active(c)' => Active(c) /\ c # m
  <2>1. /\ Done /\ UNCHANGED <<nextId, switches, bars>>
        /\ IF Active(m) THEN Leave(m) ELSE UNCHANGED <<containers, positions, worth, index, ledger>>
    BY <1>5 DEF VisitExit
  <2>2. queue' = queue \ {Min(queue)} /\ call' \in {NoCall, call}
    BY <2>1 DEF Done
  <2>3. CASE Active(m)
    <3>1. PICK j : Becomes(m, j) /\ j.status = "Stopped"
      BY <1>2, <2>1, <2>3, LeaveBooks DEF IInv
    <3>2. \A c \in ContainerIds : Active(c)' => Active(c) /\ c # m
      BY <1>2, <3>1 DEF Becomes, Active
    <3> QED
      BY <2>1, <2>2, <3>2
  <2>4. CASE ~ Active(m)
    BY <2>1, <2>2, <2>4 DEF Active
  <2> QED
    BY <2>3, <2>4
<1> QED
  BY <1>1, <1>3, <1>4, <1>5, RunCalls DEF m

\* The containers are visited.
LEMMA DoWorkStep ==
  ASSUME RunInv, DoWork
  PROVE  RunInv'
<1>1. /\ IInv /\ RunTypes /\ Pool /\ Clock /\ Due /\ Told /\ BarIsLast /\ EndDue /\ Over /\ Work
      /\ UNCHANGED <<phase, winners, share, now, session, todo, returned>>
  BY DEF RunInv, DoWork, runVars
<1>2. /\ ~ Idle /\ switches' = switches /\ call' \in {NoCall, call}
      /\ call = ExitAll => /\ queue' = queue \ {Min(queue)}
                           /\ \A c \in ContainerIds : Active(c)' => Active(c) /\ c # Min(queue)
  BY <1>1, VisitFacts
<1>3. IInv'
  BY <1>1, NextHolds DEF DeskNext
<1>4. phase \notin {"Routing", "Settled"}
  BY <1>1, <1>2 DEF Pool, Over
<1>5. RunTypes' /\ Pool' /\ Clock' /\ Over'
  BY <1>1, <1>4 DEF RunTypes, Pool, Clock, Over
<1>6. Due'
  BY <1>1, <1>2 DEF Due, DueBefore
<1>7. Told' /\ BarIsLast'
  BY <1>1, <1>2, CallFacts DEF Told, BarIsLast
<1>8. EndDue'
  <2>1. ASSUME phase = "Ending", todo = <<>>
        PROVE  call' \in {NoCall, ExitAll} /\ \A c \in ContainerIds : Active(c)' => c \in queue'
    <3>1. call = ExitAll
      BY <1>1, <1>2, <2>1 DEF EndDue, IInv, Round, Idle
    <3> QED
      BY <1>1, <1>2, <2>1, <3>1 DEF EndDue
  <2> QED
    BY <1>1, <2>1 DEF EndDue
<1> QED
  BY <1>3, <1>5, <1>6, <1>7, <1>8 DEF RunInv
\* The whole pool is there when the run starts.
LEMMA PoolStarts ==
  ASSUME NEW pool \in Nat, NEW n \in Nat \ {0}
  PROVE  /\ (pool \div n) + (pool % n) \in Nat
         /\ pool >= ((pool \div n) + (pool % n)) + (n - 1) * (pool \div n)
<1> DEFINE q == pool \div n
           r == pool % n
<1>1. q \in Nat /\ r \in Nat
  BY DivNat
<1>2. pool = n * q + r
  OBVIOUS
<1> HIDE DEF q, r
<1>3. n * q = q + (n - 1) * q
  BY <1>1
<1>4. (n - 1) * q \in Int
  BY <1>1
<1>5. pool = (q + r) + (n - 1) * q
  BY <1>1, <1>2, <1>3, <1>4
<1> QED
  BY <1>1, <1>5 DEF q, r

\* The run starts with an idle desk and the pool undivided.
LEMMA RunInitHolds ==
  ASSUME RunInit
  PROVE  RunInv
<1>1. /\ DeskInit /\ phase = "Routing" /\ winners \in WinnerLists
      /\ share = IF winners = <<>> THEN 0
                 ELSE (Borrowed \div Len(winners)) + (Borrowed % Len(winners))
      /\ now = [day |-> 0, window |-> 0]
      /\ session = [day |-> 0, misFired |-> FALSE, open |-> FALSE]
      /\ todo = <<>> /\ returned = FALSE
  BY DEF RunInit
<1>2. IInv
  BY <1>1, InitHolds
<1>3. Idle /\ call.op = "none" /\ switches.mis = FALSE /\ nextId = 1 /\ ledger.available = Borrowed
  BY <1>1 DEF DeskInit, Idle, NoCall, SwitchesOff, NewLedger
<1>4. winners \in Seq(Keys)
  BY <1>1, RunAssumption
<1>5. ASSUME winners # <<>>
      PROVE  /\ Len(winners) \in Nat \ {0}
             /\ (Borrowed \div Len(winners)) + (Borrowed % Len(winners)) \in Nat
             /\ Borrowed >= ((Borrowed \div Len(winners)) + (Borrowed % Len(winners)))
                              + (Len(winners) - 1) * (Borrowed \div Len(winners))
  <2> DEFINE n == Len(winners)
  <2>1. n \in Nat \ {0}
    BY <1>4, <1>5
  <2> HIDE DEF n
  <2>2. /\ (Borrowed \div n) + (Borrowed % n) \in Nat
        /\ Borrowed >= ((Borrowed \div n) + (Borrowed % n)) + (n - 1) * (Borrowed \div n)
    BY <2>1, PoolStarts, DeskAssumption
  <2> QED
    BY <2>1, <2>2 DEF n
<1>6. RunTypes
  <2>1. 0 \in 0..MaxDays /\ 0 \in Windows
    BY RunAssumption DEF Windows
  <2>2. session \in Session
    BY <1>1, <2>1 DEF Session
  <2>3. share \in Nat
    BY <1>1, <1>5
  <2>4. todo \in Seq(Calls)
    BY <1>1
  <2> QED
    BY <1>1, <1>4, <2>1, <2>2, <2>3, <2>4 DEF RunTypes
<1>7. Pool
  <2>1. ASSUME winners # <<>>
        PROVE  Pays(ledger.available)
    <3>1. NextShare(Len(winners)) = Borrowed \div Len(winners)
      BY <1>3 DEF NextShare
    <3>2. share = (Borrowed \div Len(winners)) + (Borrowed % Len(winners))
      BY <1>1, <2>1
    <3> QED
      BY <1>3, <1>5, <2>1, <3>1, <3>2 DEF Pays
  <2> QED
    BY <1>1, <1>3, <2>1 DEF Pool
<1>8. Clock
  BY <1>1 DEF Clock, SquareOff
<1>9. Due
  BY <1>1, <1>3 DEF Due
<1>10. Told /\ BarIsLast /\ EndDue /\ Over
  BY <1>1, <1>3 DEF Told, BarIsLast, EndDue, Over
<1> QED
  BY <1>2, <1>6, <1>7, <1>8, <1>9, <1>10 DEF RunInv

\* Every step of the run keeps its invariant.
LEMMA RunNextHolds ==
  ASSUME RunInv, [RunNext]_vars
  PROVE  RunInv'
<1>1. ASSUME UNCHANGED vars
      PROVE  RunInv'
  <2>1. /\ UNCHANGED <<containers, nextId, ledger, positions, index, switches, call, queue, intents,
                       exiting, bars, worth>>
        /\ UNCHANGED <<phase, winners, share, now, session, todo, returned>>
    BY <1>1 DEF vars
  <2>2. IInv'
    BY <2>1, StutterHolds DEF deskVars, RunInv
  <2>3. RunTypes' /\ Pool' /\ Clock'
    BY <2>1 DEF RunInv, RunTypes, Pool, Clock, Idle, Pays, NextShare
  <2>4. Due' /\ Told' /\ BarIsLast'
    BY <2>1 DEF RunInv, Due, DueBefore, Told, BarIsLast
  <2>5. EndDue' /\ Over'
    BY <2>1 DEF RunInv, EndDue, Over, Idle, Active, Settled, Settlement
  <2> QED
    BY <2>2, <2>3, <2>4, <2>5 DEF RunInv
<1> QED
  BY <1>1, RouteStep, StartReplayStep, NextBarStep, MakeCallStep, EndReplayStep, SettleStep,
     DoWorkStep DEF RunNext

\* The invariant of the run: the desk's, and where its calls and its clock are.
THEOREM RunInvariant == RunSpec => []RunInv
<1>1. RunInv /\ [RunNext]_vars => RunInv'
  BY RunNextHolds
<1> QED
  BY RunInitHolds, <1>1, PTL DEF RunSpec

\* Every variable of the run has its type.
THEOREM RunTypeCorrect == RunSpec => []RunTypeOK
<1>1. RunInv => RunTypeOK
  BY DEF RunInv, RunTypes, RunTypeOK, IInv, Books, Types, Round, TypeOK, Idle
<1> QED
  BY <1>1, RunInvariant, PTL

\* A bar of the square-off window, and no other, finds the warning told.
THEOREM WarningCorrect == RunSpec => []WarnedInWindow
<1>1. ASSUME RunInv
      PROVE  WarnedInWindow
  <2>1. ASSUME call.op = "bar"
        PROVE  switches.mis <=> now.window >= SquareOff
    <3>1. phase = "Replay" /\ todo = <<>>
      BY <1>1, <2>1 DEF RunInv, BarIsLast
    <3>2. switches.mis <=> session.misFired
      BY <1>1, <3>1 DEF RunInv, Due
    <3>3. session.misFired <=> now.window >= SquareOff
      BY <1>1, <3>1 DEF RunInv, Clock
    <3> QED
      BY <3>2, <3>3
  <2> QED
    BY <2>1 DEF WarnedInWindow
<1>2. RunInv => WarnedInWindow
  BY <1>1
<1> QED
  BY <1>2, RunInvariant, PTL

\* When nobody runs, nobody holds shares and no allocation is left.
LEMMA NobodyRuns ==
  ASSUME IInv, \A c \in ContainerIds : ~ Active(c)
  PROVE  /\ \A c \in ContainerIds : containers[c].holding.pos = 0
         /\ \A s \in Symbols : positions[s].pos = 0
         /\ index = EmptyIndex
         /\ Settled(ledger)
<1>1. Types /\ Registry /\ Shares
  BY DEF IInv, Books
<1>2. ASSUME NEW c \in ContainerIds
      PROVE  containers[c].holding.pos = 0
  <2>1. containers[c].holding.pos \in Nat
    BY <1>1 DEF Types, Container, Holding
  <2> QED
    BY <1>1, <2>1 DEF Shares
<1>3. ASSUME NEW s \in Symbols
      PROVE  positions[s].pos = 0
  <2>1. [c \in ContainerIds |-> IF containers[c].symbol = s THEN containers[c].holding.pos ELSE 0]
          = [c \in ContainerIds |-> 0]
    BY <1>2
  <2>2. SharesOf(s) = 0
    BY <2>1, NothingSums DEF SharesOf
  <2> QED
    BY <1>1, <2>2 DEF Shares, LedgerHasTheShares
<1>4. index = EmptyIndex
  <2>1. index \in Index
    BY <1>1 DEF Types
  <2>2. \A c \in ContainerIds : index.byId[c] = NoKey
    BY <1>1 DEF Registry, RunningIsKnown
  <2>3. ASSUME NEW key \in Keys
        PROVE  index.byKey[key] = 0
    <3>1. index.byKey[key] \in {0} \cup ContainerIds
      BY <2>1 DEF Index
    <3> QED
      BY <1>1, <3>1 DEF Registry
  <2>4. /\ index.byKey = [k \in Keys |-> 0] /\ index.byId = [c \in ContainerIds |-> NoKey]
        /\ index = [byKey |-> index.byKey, byId |-> index.byId]
    BY <2>1, <2>2, <2>3 DEF Index
  <2> QED
    BY <2>4 DEF EmptyIndex
<1>5. Settled(ledger)
  <2>1. LedgerOK(ledger)
    BY <1>1 DEF Types
  <2>2. \A c \in ContainerIds : ledger.allocs[c] = NoAllocation
    BY <1>1, <2>1 DEF Registry, RunningIsKnown, LedgerOK, ClaimsWellFormed
  <2>3. /\ RealPrincipal(ledger) = [c \in ContainerIds |-> 0]
        /\ PaperPrincipal(ledger) = [c \in ContainerIds |-> 0]
    BY <2>2 DEF RealPrincipal, PaperPrincipal, NoAllocation
  <2> QED
    BY <2>1, <2>3, NothingSums DEF LedgerOK, CountersMatch, Settled
<1> QED
  BY <1>2, <1>3, <1>4, <1>5

\* A run has real containers only, which is what its ledger says of them.
AllReal ==
  /\ PaperResults = 0
  /\ \A c \in ContainerIds : ledger.allocs[c].held => ledger.allocs[c].real

\* What the steps of a run book, of which only the router's is an allocation.
LEMMA RunBooked ==
  ASSUME RunInv, [RunNext]_vars
  PROVE  \/ Released \/ Unbooked
         \/ nextId \in ContainerIds /\ Account!Allocate(nextId, share, "Real")
<1>1. IInv /\ RunTypes
  BY DEF RunInv
<1>2. CASE Route
  <2>1. /\ Create(Head(winners)[1], Head(winners)[2], share, "Real") /\ winners # <<>>
        /\ share \in Int /\ "Real" \in Modes
    BY <1>1, <1>2 DEF Route, RunTypes, Modes
  <2>2. Head(winners)[1] \in Symbols /\ Head(winners)[2] \in Strategies
    BY <1>1, <2>1, FirstWinner DEF RunTypes
  <2>3. Books /\ Steady
    BY <1>1, <2>1, <2>2, CreateStep DEF IInv
  <2> QED
    BY <2>1, <2>3, CreateBooked
<1>3. CASE DoWork
  BY <1>1, <1>3, NextHolds, WorkBooked DEF DoWork, DeskNext
<1>4. ASSUME ~ Route, ~ DoWork
      PROVE  UNCHANGED <<containers, ledger>>
  BY <1>4 DEF RunNext, StartReplay, NextBar, MakeCall, Start, EndReplay, Settle, vars, deskVars
<1> QED
  BY <1>2, <1>3, <1>4, NothingBooked

\* No paper money is ever reserved.
LEMMA RealStays ==
  ASSUME RunInv, AllReal, [RunNext]_vars
  PROVE  AllReal'
<1>1. LedgerOK(ledger) /\ share \in Int
  BY DEF RunInv, IInv, Books, Types, RunTypes
<1>2. CASE Unbooked
  BY <1>2 DEF AllReal, Unbooked
<1>3. CASE Released
  <2>1. PICK c \in ContainerIds, value \in Int : Account!Release(c, value)
    BY <1>3 DEF Released
  <2>2. /\ ledger.allocs[c].held /\ ledger' = GiveBack(ledger, c, value)
        /\ ledger.allocs[c].real => PaperResults' = PaperResults
    BY <2>1 DEF Account!Release, Account!GiveBackOk, Account!GiveBack, GiveBack,
                Account!NoAllocation, NoAllocation
  <2>3. /\ ledger'.allocs[c] = NoAllocation
        /\ \A d \in ContainerIds \ {c} : ledger'.allocs[d] = ledger.allocs[d]
    BY <1>1, <2>2, GivesBack
  <2> QED
    BY <2>2, <2>3 DEF AllReal, NoAllocation
<1>4. CASE nextId \in ContainerIds /\ Account!Allocate(nextId, share, "Real")
  <2>1. ledger' = Take(ledger, nextId, share, "Real") /\ PaperResults' = PaperResults
    BY <1>4 DEF Account!Allocate, Account!Take, Take
  <2>2. "Real" \in Modes
    BY DEF Modes
  <2>3. /\ ledger'.allocs[nextId].real
        /\ \A d \in ContainerIds \ {nextId} : ledger'.allocs[d] = ledger.allocs[d]
    BY <1>1, <1>4, <2>1, <2>2, Takes
  <2> QED
    BY <1>4, <2>1, <2>3 DEF AllReal
<1> QED
  BY <1>2, <1>3, <1>4, RunBooked

\* A run uses its ledger as its desk does.
THEOREM RunUsesLedger == RunSpec => Account!Spec
<1>1. ASSUME RunInv, [RunNext]_vars
      PROVE  [Account!Next]_(Account!vars)
  <2>1. Released => Account!Next
    BY SameIds DEF Released, Account!Next
  <2>2. nextId \in ContainerIds /\ Account!Allocate(nextId, share, "Real") => Account!Next
    <3>1. share \in Int /\ "Real" \in Modes
      BY <1>1 DEF RunInv, RunTypes, Modes
    <3> QED
      BY <3>1, SameIds DEF Account!Next
  <2>3. Unbooked => UNCHANGED Account!vars
    BY DEF Unbooked, Account!vars
  <2> QED
    BY <1>1, <2>1, <2>2, <2>3, RunBooked
<1>2. RunInit => Account!Init
  BY InitBooked DEF RunInit
<1> QED
  BY <1>1, <1>2, RunInvariant, PTL DEF RunSpec, Account!Spec

\* A run only ever has real money.
LEMMA RunIsReal == RunSpec => []AllReal
<1>1. RunInit => AllReal
  <2> SUFFICES ASSUME RunInit PROVE AllReal
    OBVIOUS
  <2>1. DeskInit /\ PaperResults = 0
    BY InitBooked DEF RunInit, Account!Init
  <2>2. \A c \in ContainerIds : ~ ledger.allocs[c].held
    BY <2>1 DEF DeskInit, NewLedger, NoAllocation
  <2> QED
    BY <2>1, <2>2 DEF AllReal
<1>2. RunInv /\ AllReal /\ [RunNext]_vars => AllReal'
  BY RealStays
<1> QED
  BY <1>1, <1>2, RunInvariant, PTL DEF RunSpec

\* A settled run leaves nothing behind, and what it settles is its money.
THEOREM EndCorrect == RunSpec => []RunEndsClean
<1>1. ASSUME RunInv, AllReal, Account!SettlementIsTheMoney
      PROVE  RunEndsClean
  <2>1. ASSUME phase = "Settled"
        PROVE  /\ \A c \in ContainerIds : ~ Active(c) /\ containers[c].holding.pos = 0
               /\ \A s \in Symbols : positions[s].pos = 0
               /\ index = EmptyIndex
               /\ Settled(ledger) /\ Settlement(ledger) = ledger.available
               /\ returned <=> Settlement(ledger) >= 0
    <3>1. IInv /\ \A c \in ContainerIds : ~ Active(c)
      BY <1>1, <2>1 DEF RunInv, Over
    <3>2. returned <=> Settled(ledger) /\ Settlement(ledger) >= 0
      BY <1>1, <2>1 DEF RunInv, Over
    <3>3. /\ \A c \in ContainerIds : containers[c].holding.pos = 0
          /\ \A s \in Symbols : positions[s].pos = 0
          /\ index = EmptyIndex /\ Settled(ledger)
      BY <3>1, NobodyRuns
    <3>4. Settlement(ledger) = ledger.available + ledger.allocated + 0
      BY <1>1 DEF AllReal, Account!SettlementIsTheMoney, Account!Settlement, Settlement
    <3>5. ledger.available \in Int /\ ledger.allocated = 0
      BY <3>1, <3>3 DEF IInv, Books, Types, LedgerOK, LedgerState, Settled
    <3>6. Settlement(ledger) = ledger.available
      BY <3>4, <3>5
    <3> QED
      BY <3>1, <3>2, <3>3, <3>6
  <2> QED
    BY <2>1 DEF RunEndsClean
<1>2. RunInv /\ AllReal /\ Account!SettlementIsTheMoney => RunEndsClean
  BY <1>1
<1> QED
  BY <1>2, RunInvariant, RunIsReal, RunUsesLedger, AccountSettles, PTL

\* A day that reached the square-off window is left with no shares.
LEMMA DayLeft ==
  ASSUME RunInv, [RunNext]_vars, session.day # session'.day, session.misFired, NEW c \in ContainerIds
  PROVE  containers[c].holding.pos = 0
<1>1. \E symbol \in Symbols, close \in Closes, day \in 1..MaxDays, window \in Windows :
        NextBar(symbol, close, day, window)
  <2>1. ASSUME EndReplay
        PROVE  session'.day = session.day
    <3>1. session \in Session
      BY DEF RunInv, RunTypes
    <3> QED
      BY <2>1, <3>1 DEF EndReplay, Flush, ForceStop, Session
  <2> QED
    BY <2>1 DEF RunNext, vars, Route, StartReplay, MakeCall, Settle, DoWork, runVars
<1>2. phase = "Replay" /\ Idle /\ todo = <<>>
  BY <1>1 DEF NextBar
<1>3. switches.mis
  BY <1>2 DEF RunInv, Due
<1>4. ~ Halting
  BY <1>2, IdleCall DEF RunInv, Halting
<1> QED
  BY <1>3, <1>4 DEF RunInv, IInv, Halt

\* The square-off of a day is not undone by a later bar of it.
THEOREM SquareOffCorrect == RunSpec => WindowSquaresOff
<1> DEFINE Flat == session.day # session'.day /\ session.misFired
                     => \A c \in ContainerIds : containers[c].holding.pos = 0
<1>1. RunInv /\ [RunNext]_vars => Flat
  BY DayLeft
<1>2. RunInv /\ [RunNext]_vars => [Flat]_vars
  BY <1>1
<1> HIDE DEF Flat
<1>3. []RunInv /\ [][RunNext]_vars => [][Flat]_vars
  BY <1>2, PTL
<1> QED
  BY <1>3, RunInvariant DEF RunSpec, WindowSquaresOff, Flat

\* A winner with a share is refused only when its symbol and strategy are taken.
LEMMA WinnerStarts ==
  ASSUME RunInv, Route
  PROVE  \/ containers'[nextId].status = "Active"
         \/ share = 0
         \/ \E c \in ContainerIds : Active(c) /\ KeyOf(containers[c]) = Head(winners)
<1> DEFINE h == Head(winners)
           key == <<h[1], h[2]>>
<1>1. /\ IInv /\ RunTypes /\ phase = "Routing" /\ winners # <<>> /\ Idle
      /\ Pays(ledger.available) /\ Create(h[1], h[2], share, "Real")
  BY DEF RunInv, Route, Pool
<1>2. h[1] \in Symbols /\ h[2] \in Strategies /\ h \in Keys /\ h = key /\ Len(winners) \in Nat \ {0}
  BY <1>1, FirstWinner
<1>3. share \in Nat /\ NextShare(Len(winners)) \in Nat
  BY <1>1, <1>2, NextShareNat DEF RunTypes
<1>4. nextId \in ContainerIds /\ LedgerOK(ledger) /\ index \in Index
  BY <1>1, MaxContainersAssumption DEF Create, IInv, Books, Types, ContainerIds
<1>5. ledger.available \in Int /\ ledger.available >= share
  <2>1. ledger.available \in Int
    BY <1>4 DEF LedgerOK, LedgerState
  <2>2. ledger.available >= share + (Len(winners) - 1) * NextShare(Len(winners))
    BY <1>1 DEF Pays
  <2> QED
    BY <1>2, <1>3, <2>1, <2>2, PoolPays
<1>6. CASE CreateStarted(nextId, h[1], h[2], share, "Real")
  <2>1. containers' = [containers EXCEPT ![nextId] = NewContainer(h[1], h[2], share, "Real")]
    BY <1>6 DEF CreateStarted
  <2>2. NewContainer(h[1], h[2], share, "Real").status = "Active"
    BY DEF NewContainer, NoContainer
  <2>3. containers \in [ContainerIds -> Container]
    BY <1>1 DEF IInv, Books, Types
  <2> QED
    BY <1>4, <2>1, <2>2, <2>3
<1>7. CASE Occupied(index, key, nextId)
  <2>1. index.byKey[h] # 0 /\ index.byKey[h] \in ContainerIds
    BY <1>2, <1>4, <1>7 DEF Occupied, Index
  <2> QED
    BY <1>1, <1>2, <2>1 DEF IInv, Books, Registry
<1>8. CASE ~ TakeOk(ledger, nextId, share, "Real")
  <2>1. ~ ledger.allocs[nextId].held
    <3>1. ~ Kept(nextId)
      BY <1>1, <1>4 DEF IInv, Books, Registry, ContainerIds
    <3> QED
      BY <1>1, <1>4, <3>1 DEF IInv, Books, Registry, RunningIsKnown, Kept, Active
  <2>2. ~ (share > 0)
    BY <1>5, <1>8, <2>1 DEF TakeOk
  <2> QED
    BY <1>3, <2>2
<1> QED
  BY <1>1, <1>6, <1>7, <1>8 DEF Create, CreateRefused

\* The router starts every winner it can.
THEOREM WinnersCorrect == RunSpec => WinnersAreStarted
<1> DEFINE Started == Route => \/ containers'[nextId].status = "Active"
                               \/ share = 0
                               \/ \E c \in ContainerIds : Active(c) /\ KeyOf(containers[c]) = Head(winners)
<1>1. RunInv /\ [RunNext]_vars => [Started]_vars
  BY WinnerStarts
<1> HIDE DEF Started
<1>2. []RunInv /\ [][RunNext]_vars => [][Started]_vars
  BY <1>1, PTL
<1> QED
  BY <1>2, RunInvariant DEF RunSpec, WinnersAreStarted, Started
===============================================================================
