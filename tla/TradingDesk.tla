------------------------------ MODULE TradingDesk ------------------------------
(***************************************************************************)
(* ContainerManager: the containers of one workbook, each a strategy that  *)
(* trades one symbol on an allocation of the ledger, under the risk engine *)
(* and on the simulated exchange.  Its client may call it in any order:    *)
(* create, kill, upgrade, and the calls that go round all containers, one  *)
(* container and one order intent at a time.                               *)
(*                                                                         *)
(* What a strategy decides (its intents, should_exit) is left open.        *)
(***************************************************************************)
EXTENDS Risk, Sequences, FiniteSetsExt

CONSTANTS Borrowed,       \* the capital of the ledger
          Allocations,    \* allocations asked for
          Closes,         \* closing prices of bars
          Quantities,     \* order quantities
          MaxIntents,     \* order intents a strategy returns for one bar
          MaxBars         \* bound on the bars delivered

ASSUME DeskAssumption ==
  /\ Symbols # {} /\ Strategies # {}
  /\ Borrowed \in Nat
  /\ Allocations \subseteq Int
  /\ Closes \subseteq Nat
  /\ Quantities \subseteq Nat
  /\ MaxIntents \in Nat /\ MaxBars \in Nat

VARIABLES containers,  \* containers_: by id; one that was never kept has status None
          nextId,      \* next_id_
          ledger,      \* the PortfolioLedger: its money ...
          positions,   \* ... and its positions_, by symbol
          index,       \* RiskEngine::active_
          switches,    \* RiskEngine::kill_switch_, mis_squareoff_
          call,        \* the call that is going round the containers
          queue,       \* the containers it has yet to visit, in the order of their ids
          intents,     \* what is left of the intents of the first of them
          exiting,     \* its strategy has asked to exit
          bars,        \* bars delivered
          worth        \* history: what each container's trades were worth exactly

deskVars == <<containers, nextId, ledger, positions, index, switches, call, queue,
              intents, exiting, bars, worth>>

Container == [status : {"None", "Active", "Stopped"}, mode : Modes, symbol : Symbols,
              strategy : Strategies, principal : Int, cash : Int, holding : Holding,
              hasBar : BOOLEAN, last : Nat, fills : Nat]

Intent == [side : Sides, qty : Quantities]

NoCall == [op |-> "none"]

Calls == {NoCall, [op |-> "exitAll"]}
           \cup [op : {"bar"}, symbol : Symbols, close : Closes, inHours : BOOLEAN]
           \cup [op : {"event"}, type : EventTypes]

NoContainer == [status |-> "None", mode |-> "Backtest", symbol |-> CHOOSE s \in Symbols : TRUE,
                strategy |-> CHOOSE s \in Strategies : TRUE, principal |-> 0, cash |-> 0,
                holding |-> NothingHeld, hasBar |-> FALSE, last |-> 0, fills |-> 0]

Kept(c)   == containers[c].status # "None"
Active(c) == containers[c].status = "Active"
KeyOf(k)  == <<k.symbol, k.strategy>>

Idle == queue = {}

TypeOK ==
  /\ containers \in [ContainerIds -> Container]
  /\ nextId \in 1..(MaxContainers + 1)
  /\ LedgerOK(ledger)
  /\ positions \in [Symbols -> Holding]
  /\ index \in Index
  /\ switches \in Switches
  /\ call \in Calls
  /\ queue \subseteq ContainerIds
  /\ intents \in Seq(Intent) /\ Len(intents) <= MaxIntents
  /\ exiting \in BOOLEAN
  /\ bars \in 0..MaxBars
  /\ worth \in [ContainerIds -> Int]
  /\ Idle <=> call = NoCall
  /\ Idle => intents = <<>> /\ ~ exiting

DeskInit ==
  /\ containers = [c \in ContainerIds |-> NoContainer]
  /\ nextId = 1
  /\ ledger = NewLedger(Borrowed)
  /\ positions = [s \in Symbols |-> NothingHeld]
  /\ index = EmptyIndex
  /\ switches = SwitchesOff
  /\ call = NoCall
  /\ queue = {}
  /\ intents = <<>>
  /\ exiting = FALSE
  /\ bars = 0
  /\ worth = [c \in ContainerIds |-> 0]

-------------------------------------------------------------------------------
(* A fill reaches the container and the ledger.                            *)

Holds(k, fill) ==
  [k EXCEPT !.cash = @ + fill.impact, !.holding = AfterFill(@, fill), !.fills = @ + 1]

OnFill(c, fill) ==
  /\ containers' = [containers EXCEPT ![c] = Holds(@, fill)]
  /\ positions' = [positions EXCEPT ![containers[c].symbol] = AfterFill(@, fill)]
  /\ worth' = [worth EXCEPT ![c] = @ + Worth(fill)]

(* flatten: sell the whole position at the last close, past the risk rules.*)

\* A plausible bug: the risk rules are not bypassed.
FlattenOkChecked(k) ==
  /\ k.hasBar
  /\ SubmitOk("Sell", k.holding.pos, k.last, k.cash, k.holding.pos)
  /\ Approved("Sell", k.holding.pos, k.last, TRUE, k.cash, k.holding, switches)

FlattenOk(k) ==
  /\ k.hasBar
  /\ SubmitOk("Sell", k.holding.pos, k.last, k.cash, k.holding.pos)

FlattenFill(k) == Fill("Sell", k.holding.pos, k.last, k.holding.avg)

Flattened(k) == IF FlattenOk(k) THEN Holds(k, FlattenFill(k)) ELSE k

Flatten(c) ==
  IF FlattenOk(containers[c])
  THEN OnFill(c, FlattenFill(containers[c]))
  ELSE UNCHANGED <<containers, positions, worth>>

(* exit, force_exit at the last price, or stop when there is no bar yet:   *)
(* flatten, leave the index, give the cash back.                           *)

\* A plausible bug: the cash is given back before the position is sold.
CashBeforeExit(k) == k.cash

CashAtExit(k) == Flattened(k).cash

Leave(c) ==
  LET k == containers[c]
  IN  /\ containers' = [containers EXCEPT ![c] = [Flattened(k) EXCEPT !.status = "Stopped"]]
      /\ positions' = IF FlattenOk(k)
                      THEN [positions EXCEPT ![k.symbol] = AfterFill(@, FlattenFill(k))]
                      ELSE positions
      /\ worth' = IF FlattenOk(k)
                  THEN [worth EXCEPT ![c] = @ + Worth(FlattenFill(k))]
                  ELSE worth
      /\ index' = Unregistered(index, c)
      /\ ledger' = IF GiveBackOk(ledger, c) THEN GiveBack(ledger, c, CashAtExit(k)) ELSE ledger

-------------------------------------------------------------------------------
(* create: a container registers with the risk engine, then allocates; if  *)
(* either fails it is dropped, but its id is used up.                      *)

NewContainer(symbol, strategy, amount, mode) ==
  [NoContainer EXCEPT !.status = "Active", !.mode = mode, !.symbol = symbol,
                      !.strategy = strategy, !.principal = amount, !.cash = amount]

CreateRefused(c, key, amount, mode) ==
  /\ \/ Occupied(index, key, c) /\ UNCHANGED index
     \/ /\ ~ Occupied(index, key, c)
        /\ ~ TakeOk(ledger, c, amount, mode)
        /\ index' = Unregistered(Registered(index, key, c), c)
  /\ UNCHANGED <<containers, ledger>>

CreateStarted(c, symbol, strategy, amount, mode) ==
  /\ ~ Occupied(index, <<symbol, strategy>>, c)
  /\ TakeOk(ledger, c, amount, mode)
  /\ index' = Registered(index, <<symbol, strategy>>, c)
  /\ ledger' = Take(ledger, c, amount, mode)
  /\ containers' = [containers EXCEPT ![c] = NewContainer(symbol, strategy, amount, mode)]

Create(symbol, strategy, amount, mode) ==
  /\ Idle
  /\ nextId <= MaxContainers
  /\ nextId' = nextId + 1
  /\ \/ CreateRefused(nextId, <<symbol, strategy>>, amount, mode)
     \/ CreateStarted(nextId, symbol, strategy, amount, mode)
  /\ UNCHANGED <<positions, switches, call, queue, intents, exiting, bars, worth>>

(* kill                                                                    *)

Kill(c) ==
  /\ Idle
  /\ Active(c)
  /\ Leave(c)
  /\ UNCHANGED <<nextId, switches, call, queue, intents, exiting, bars>>

(* upgrade: to Paper costs nothing, to Real commits the principal.         *)

UpgradePaper(c) ==
  /\ containers[c].mode = "Backtest"
  /\ containers' = [containers EXCEPT ![c].mode = "Paper"]
  /\ UNCHANGED ledger

UpgradeReal(c) ==
  /\ containers[c].mode \in {"Backtest", "Paper"}
  /\ CommitRealOk(ledger, c)
  /\ ledger' = CommitReal(ledger, c)
  /\ containers' = [containers EXCEPT ![c].mode = "Real"]

Upgrade(c) ==
  /\ Idle
  /\ Active(c)
  /\ UpgradePaper(c) \/ UpgradeReal(c)
  /\ UNCHANGED <<nextId, positions, index, switches, call, queue, intents, exiting, bars, worth>>

-------------------------------------------------------------------------------
(* The calls that go round all containers: on_bar, on_system_event and     *)
(* force_exit_remaining.                                                   *)

Start(aCall) ==
  LET round == {c \in ContainerIds : Kept(c)}
  IN  /\ Idle
      /\ queue' = round
      /\ call' = IF round = {} THEN NoCall ELSE aCall
      /\ UNCHANGED <<containers, nextId, ledger, positions, index, intents, exiting, worth>>

CallBar(symbol, close, inHours) ==
  /\ Start([op |-> "bar", symbol |-> symbol, close |-> close, inHours |-> inHours])
  /\ bars < MaxBars
  /\ bars' = bars + 1
  /\ UNCHANGED switches

CallEvent(type) ==
  /\ Start([op |-> "event", type |-> type])
  /\ UNCHANGED <<bars, switches>>

CallExitAll ==
  /\ Start([op |-> "exitAll"])
  /\ UNCHANGED <<bars, switches>>

\* The visit of the first container in the queue is over.
Done ==
  /\ queue' = queue \ {Min(queue)}
  /\ call' = IF queue' = {} THEN NoCall ELSE call
  /\ intents' = <<>>
  /\ exiting' = FALSE

Visit(op) == ~ Idle /\ call.op = op

(* on_bar of one container: only an Active one with this symbol looks.     *)

IntentSeqs == UNION {[1..n -> Intent] : n \in 0..MaxIntents}

SkipBar(c) ==
  /\ ~ (Active(c) /\ containers[c].symbol = call.symbol)
  /\ Done
  /\ UNCHANGED <<containers, nextId, ledger, positions, index, switches, bars, worth>>

OnBar(c) ==
  /\ Active(c)
  /\ containers[c].symbol = call.symbol
  /\ intents = <<>> /\ ~ exiting
  /\ containers' = [containers EXCEPT ![c] = [@ EXCEPT !.hasBar = TRUE, !.last = call.close]]
  /\ \E decided \in IntentSeqs :
       IF decided = <<>>
       THEN Done
       ELSE intents' = decided /\ UNCHANGED <<queue, call, exiting>>
  /\ UNCHANGED <<nextId, ledger, positions, index, switches, bars, worth>>

\* The next intent, refused by the risk engine or by the exchange.
FillOk(k, i) ==
  /\ Approved(i.side, i.qty, call.close, call.inHours, k.cash, k.holding, switches)
  /\ SubmitOk(i.side, i.qty, call.close, k.cash, k.holding.pos)

\* A plausible bug: an intent stays first in line.
RetryIntent == UNCHANGED <<intents, queue, call, exiting>>

NextIntent == IF Len(intents) = 1
              THEN Done
              ELSE intents' = Tail(intents) /\ UNCHANGED <<queue, call, exiting>>

Refuse(c) ==
  /\ intents # <<>>
  /\ ~ FillOk(containers[c], Head(intents))
  /\ NextIntent
  /\ UNCHANGED <<containers, nextId, ledger, positions, index, switches, bars, worth>>

\* The next intent filled; the strategy may ask to exit, which ends the round.
Trade(c) ==
  /\ intents # <<>>
  /\ FillOk(containers[c], Head(intents))
  /\ OnFill(c, Fill(Head(intents).side, Head(intents).qty, call.close, containers[c].holding.avg))
  /\ \/ NextIntent
     \/ exiting' = TRUE /\ intents' = <<>> /\ UNCHANGED <<queue, call>>
  /\ UNCHANGED <<nextId, ledger, index, switches, bars>>

Exit(c) ==
  /\ exiting
  /\ Leave(c)
  /\ Done
  /\ UNCHANGED <<nextId, switches, bars>>

VisitBar(c) == Visit("bar") /\ (SkipBar(c) \/ OnBar(c) \/ Refuse(c) \/ Trade(c) \/ Exit(c))

(* on_system_event of one container: the risk engine hears it first, from  *)
(* every container, running or not.                                        *)

VisitEvent(c) ==
  /\ Visit("event")
  /\ switches' = Heard(switches, call.type)
  /\ \/ /\ Active(c) /\ call.type = "KillSwitch"
        /\ Leave(c)
     \/ /\ Active(c) /\ call.type = "MisSquareoffWarning"
        /\ Flatten(c)
        /\ UNCHANGED <<index, ledger>>
     \/ /\ ~ Active(c) \/ call.type \in {"SessionStart", "SessionEnd"}
        /\ UNCHANGED <<containers, positions, worth, index, ledger>>
  /\ Done
  /\ UNCHANGED <<nextId, bars>>

(* force_exit_remaining: of one container.                                 *)

\* A plausible bug: a container without a bar is not stopped.
VisitExitWithBar(c) ==
  /\ Visit("exitAll")
  /\ IF Active(c) /\ containers[c].hasBar
     THEN Leave(c)
     ELSE UNCHANGED <<containers, positions, worth, index, ledger>>
  /\ Done
  /\ UNCHANGED <<nextId, switches, bars>>

VisitExit(c) ==
  /\ Visit("exitAll")
  /\ IF Active(c)
     THEN Leave(c)
     ELSE UNCHANGED <<containers, positions, worth, index, ledger>>
  /\ Done
  /\ UNCHANGED <<nextId, switches, bars>>

\* A call runs on the thread of its caller until every container was visited.
Work == ~ Idle /\ LET c == Min(queue) IN VisitBar(c) \/ VisitEvent(c) \/ VisitExit(c)

Client ==
  \/ \E symbol \in Symbols, strategy \in Strategies, amount \in Allocations, mode \in Modes :
       Create(symbol, strategy, amount, mode)
  \/ \E c \in ContainerIds : Kill(c) \/ Upgrade(c)
  \/ \E symbol \in Symbols, close \in Closes, inHours \in BOOLEAN : CallBar(symbol, close, inHours)
  \/ \E type \in EventTypes : CallEvent(type)
  \/ CallExitAll

DeskNext == Client \/ Work

DeskSpec == DeskInit /\ [][DeskNext]_deskVars

-------------------------------------------------------------------------------
(***************************************************************************)
(* Starting and stopping a container touch the container, the risk index   *)
(* and the ledger: they never disagree on which containers run, as which   *)
(* mode, or on who has a symbol and strategy.                              *)
(***************************************************************************)
RunningIsKnown ==
  \A c \in ContainerIds :
    /\ index.byId[c] = IF Active(c) THEN KeyOf(containers[c]) ELSE NoKey
    /\ Active(c) => index.byKey[KeyOf(containers[c])] = c
    /\ ledger.allocs[c].held <=> Active(c)
    /\ Active(c) => (ledger.allocs[c].real <=> containers[c].mode = "Real")

(***************************************************************************)
(* No key of the index is left behind: a symbol and strategy nobody trades *)
(* can be started again.                                                   *)
(***************************************************************************)
NoKeyIsStuck ==
  \A key \in Keys : index.byKey[key] # 0 => Active(index.byKey[key])

(***************************************************************************)
(* The ledger's position of a symbol is that of all its containers,        *)
(* whichever of them traded in between.                                    *)
(***************************************************************************)
SharesOf(s) ==
  SumUpTo([c \in ContainerIds |->
             IF containers[c].symbol = s THEN containers[c].holding.pos ELSE 0], MaxContainers)

LedgerHasTheShares == \A s \in Symbols : positions[s].pos = SharesOf(s)

(***************************************************************************)
(* Once a kill switch or a square-off warning has gone round, nobody holds *)
(* shares, and nobody buys any until the next session starts.              *)
(***************************************************************************)
HaltedIsFlat ==
  (switches.kill \/ switches.mis) /\ call.op # "event"
    => \A c \in ContainerIds : containers[c].holding.pos = 0

(***************************************************************************)
(* A container that has stopped holds nothing and never changes again.     *)
(***************************************************************************)
StoppedIsOver ==
  [][\A c \in ContainerIds : containers[c].status = "Stopped" =>
       containers[c].holding.pos = 0 /\ containers'[c] = containers[c]]_deskVars

(***************************************************************************)
(* What containers that have stopped made or lost is what the ledger       *)
(* realized: nothing they earned on the way out is missing.  And the       *)
(* settlement is the money there is, free or allocated, plus the results   *)
(* of the containers that stopped without ever having had any.             *)
(***************************************************************************)
ResultsOf(modes) ==
  SumUpTo([c \in ContainerIds |->
             IF containers[c].status = "Stopped" /\ containers[c].mode \in modes
             THEN containers[c].cash - containers[c].principal
             ELSE 0], MaxContainers)

ResultIsSettled ==
  /\ ledger.realized = ResultsOf(Modes)
  /\ Settlement(ledger) = ledger.available + ledger.allocated + ResultsOf({"Backtest", "Paper"})

(***************************************************************************)
(* A container without shares has its allocation plus what its trades were *)
(* worth, but for the paise that truncated margins and average prices made *)
(* or lost on the way.                                                     *)
(***************************************************************************)
Distance(a, b) == IF a >= b THEN a - b ELSE b - a

RoundingIsSmall ==
  \A c \in ContainerIds :
    LET k == containers[c]
    IN  Kept(c) /\ k.holding.pos = 0
          => Distance(k.cash, k.principal + worth[c]) <= k.fills * MaxPosition
===============================================================================
