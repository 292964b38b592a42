# A verification development for AlgoCraft

AlgoCraft is a C++ engine for intraday trading on the NSE: it lends the capital
of a workbook to a run, lets strategies trade it in containers on a replayed
tape of one-minute bars, and returns what is left. This directory holds TLA+
models of it, the TLC configurations that check them, and proofs that TLAPS
checks. `PROJECT.json` says for every definition which lines of the source it
models; this file says what the whole of it means.

## 1. The system

| Component | State it keeps | Operations | Talks to |
|---|---|---|---|
| Workbook manager (`workbook/`) | per workbook: main, available and borrowed capital, deleted; per borrow: workbook, amount, returned, its ledger; the event log | create, add_capital, borrow_capital, return_capital, soft_delete | gives each run the ledger of its borrow |
| Portfolio ledger, capital manager (`portfolio/`) | borrowed, available, allocated, paper, realized; an allocation per container; positions per symbol | take, commit_real, give_back, apply_fill, settlement, settled | called by containers |
| Risk engine (`risk/`) | kill switch, square-off switch, index of the active containers by id and by key | evaluate, register, unregister, on_system_event | asked before every order; hears events before the containers |
| Simulated exchange, costs (`execution/`) | none but counters | submit: margin, slippage, fees, refusal | called by containers |
| Trading container (`container/`) | status, mode, cash, holding, last bar, principal | start, upgrade, on_bar, on_fill, on_system_event, flatten, exit, force_exit, stop | strategy, risk, exchange, ledger |
| Container manager (`container/`) | the containers in order, next id | create, kill, upgrade, on_bar, on_system_event, force_exit_remaining | visits the containers one by one |
| Session scheduler (`scheduler/`) | day, session open, square-off warned | on_bar, flush | emits SessionStart, SessionEnd and the warning from the time stamps of bars |
| Default router (`routing/`) | none | evaluate_all, start | a backtest per pair; divides the pool, creates containers |
| Run manager (`engine/run_manager.cpp`) | a run | execute: borrow, route, replay, end, settle | everything above |
| Data fetch service (`market_data/`, `persistence/`) | a blob per session day in RocksDB, one coverage row in SQLite | ensure_data_available, load_bars and the steps they consist of | vendor, both stores |
| Phase 0 runtime (`engine/phase0_runtime.cpp`) | nine SPSC rings, five threads, two stop flags, counters | start, stop, the five loops | the smoke run of the binary, its default command |
| Strategies, indicators (`strategies/`, `indicators/`) | opening range, clip, averages | on_bar, on_fill | called by containers and backtests |
| Backtest runner (`backtest/`) | a book, daily snapshots, an equity curve | run | strategy, exchange; called by the router |
| Activity repository, migrations, database (`persistence/`) | the tables of one SQLite file | persist_run, the lists, apply | one transaction each; the server and the command line share the file |
| HTTP server, authentication (`api/`, `auth/`) | workbooks in memory, the next id, signed tokens | one request after the other | all of the above |

How they interact. Everything that trades runs on one thread: `RunManager::execute`
borrows, lets the router create the containers, then takes bar after bar, asks
the scheduler for system events, dispatches each to the risk engine and then to
the containers in their order, then gives the bar to the containers on its
symbol. A container asks its strategy, sends each intent through risk and
exchange, tells the strategy about fills, and may leave in the middle. When the
tape ends, or the bound on bars is reached, what still runs is forced out and
the borrow is settled.

What is hard here is therefore mostly not locking but **shared state across many
calls**: one ledger, one index, two switches and the positions of a symbol are
changed by several containers in every order, in the middle of rounds, and must
still agree when money goes back. Three things do cross a thread or a process: the
bar cache, which writes two stores and can be cut off between any two writes; the
Phase 0 rings; and the database, which the server and the command line open,
migrate and write, each of them killed or failing at any statement, while the
server forgets at every restart which ids it has given out.

What makes each component correct:

* ledger: its counters are the sums of its allocations, settlement is the money;
* workbook: the two levels lose and create nothing, borrows come back, the log replays;
* container, manager, risk engine: they agree on who runs as what; halts leave nobody
  with shares; stopped is final; results add up to the paisa but for truncation;
* scheduler and run: each day that reaches 15:15 is squared off; every run ends and
  leaves nothing behind;
* bar cache: no hole in the covered range, closed days are final, nothing is asked twice;
* strategies, backtest: a strategy knows what it holds and what it tried; the book is what a live
  container would have, the days add up to the result;
* runtime: only a full ring loses an event, what persistence is given is persisted when stop returns,
  and it returns;
* persistence: a schema is whole or not there, a run is stored with all of its rows or with none, and
  what a client was shown stays.

## 2. The modules

| Module | Models | Kind |
|---|---|---|
| `Sums` | the totals the other modules speak of | operators, as recursive functions |
| `Ledger` | `PortfolioLedger` | operators on a record |
| `PortfolioLedger` | one ledger in use by several containers | state machine |
| `CapitalClaims` | what a ledger and a workbook promise: a pot and claims on it | abstract specification |
| `Workbook` | `WorkbookManager`, the ledgers of its borrows, `settle` | state machine over `Ledger` |
| `Exchange` | `SimulatedExchange`, `CostCalculator`, average price of a holding | operators |
| `Risk` | `RiskEngine` | operators on the index and the switches |
| `TradingDesk` | `ContainerManager` with its `TradingContainer`s | state machine over the three above |
| `TradingRun` | `SessionScheduler`, the part of the router that creates, `RunManager::execute` | state machine over `TradingDesk` |
| `DataFetch` | `DataFetchService` with both of its stores | state machine |
| `Runtime` | `Phase0Runtime`: threads, rings, start and stop | state machine |
| `Strategies` | the four strategies with EMA and VWAP | operators on the state of a strategy |
| `Backtest` | `BacktestRunner::run` | state machine over `Strategies` and `Exchange` |
| `ActivityDb` | the statements of `ActivityRepository` and `AuthService` | operators on the tables |
| `Database` | SQLite transactions, `MigrationRunner`, starting and dying processes | state machine over `ActivityDb` |
| `Server` | the handlers of the API server, the run of the command line, `persist_run` | state machine over `Database` |
| `Ledger_proofs` | | lemmas on sums, quotients and the operators of a ledger |
| `PortfolioLedger_proofs`, `Workbook_proofs`, `TradingDesk_proofs`, `DataFetch_proofs`, `Runtime_proofs`, `Backtest_proofs`, `Server_proofs` | | theorems on the state machines; those on `TradingRun` are in `TradingDesk_proofs` |
| `MC...` | | constants for TLC |

A component that several modules own (`Ledger`, `Risk`, `Exchange`) is a module of
operators over one record, so that the modules that compose them hold the variable
and the same definitions are checked, composed and proved about. Every operation of
the code returns an `OpResult` and changes nothing when it fails: `TakeOk` is the
condition, `Take` the new state. A definition whose comment says *A plausible bug*
is not part of the model: it is the mutated form that `PROJECT.json` names to show
that a property depends on the code it is about.

### State and code

* **Ledger.** `ledger` is the record of counters of `PortfolioLedger` with its map of
  allocations, total over the ids (`NoAllocation` is an id that is not in the map).
  `set_unrealized` has no caller and is left out. In `PortfolioLedger`, `paperPnl` is a
  history variable: the part of `realized` that came from paper containers.
* **Workbook.** `books`, `borrows`, `ledgers`, `log` are the three maps and the events of
  the manager; `ended` are the runs that have called `settle`. A run holds its borrow's
  ledger until it settles, so the ledgers change between any two calls on workbooks.
* **TradingDesk.** `call`, `queue`, `intents` and `exiting` are where the current call to
  the manager stands: one container of the round per step, one intent per step, so that
  an event or a bar meets the containers in every intermediate state the code goes
  through. `queue` is the set of containers still to be visited, taken in the order of their
  ids, which is the order in which the manager kept them. A strategy's decisions are left open: any sequence of intents, up to
  `MaxIntents`, after any bar, and a wish to exit after any fill. That covers every
  strategy in the repository. `worth` is a history variable, what the trades of a container were
  worth without truncation. A container that has stopped still records the last bar in the
  code; nobody reads it and the model leaves it out. `warmup`, `add_rule` and
  `set_mis_squareoff` are only called by tests.
* **TradingRun.** A time stamp is its day and the window of the day it falls in: before
  the open, regular hours, square-off, after the close. `todo` are the calls the loop
  has still to make for the bar it took. The ring between tape and loop is filled and
  emptied by one thread, one bar at a time, and is a queue that is never full.
  `evaluate_all` is represented by the list of winners it selects.
* **DataFetch.** `store` and `row` are what is durable; `req`, `todo` and `chunk` are the
  stack of the request under way, whose every write is a step of its own. `Abort` drops
  them at any moment: a vendor or a store that throws, or a process that dies. Puts are
  synchronous and in order (`WriteOptions::sync`). The clock may move to the next day
  between any two steps. Requests are served one at a time by the accept loop, and a
  blob is empty, partial (fetched while its day lasted) or full. `torn` is a history variable:
  whether a request has put days into the range that nobody stored.
* **Runtime.** `ring` is the number of events in each of the nine rings, `pc` where each thread is
  in its loop: every push and every pop is a step. A push on a full ring is refused and ignored, as
  the code ignores it, and only the history variable `lost` knows. `Start`, `Stop` and the two joins
  are the owner, one thread that offers bars in between. `api` does nothing but wait for its flag.
  Memory is sequentially consistent. The code reads its stop flags with relaxed loads: what a drain
  could miss where loads are reordered is not in the model.
* **Strategies, Backtest.** `bt` is the whole of the run that `submit_and_apply`, `flatten` and
  `close_day` change; one action is one bar, because nothing can come in between. The averages are
  exact: VWAP compares products instead of a quotient, an EMA is an integer in units of 1/`Scale`,
  which holds the binary fractions of the periods used here. `orders` (the log of fills and refusals,
  with what was held before each), `live` and `buyFees` are history. As in the code, the drawdown is not looked at again after the final sale.
* **ActivityDb, Database, Server.** `db` is what is committed, `txn` the copy of the process in whose
  transaction it works, `writer` who holds SQLite's write lock, `at` how far a process has come with
  its start, `job` what it does. Each file of a migration and each stage of `persist_run`
  is a step, and `Throws` and `Killed` may come before any of them. What is read back are sets of rows
  with their ids; the order in which a list shows them is left out. Two processes can migrate at
  the same time; only one gets past the lock of the bar store, which RocksDB gives to one process.
  Tokens outlive a server; its memory, the next id of a workbook included, does not. Some behaviours
  are in the model because the code has them: `POST /workbooks` answers 201 although its `INSERT`
  failed on an id from before the restart; every run is stored under workbook 1, whichever it was
  asked for (finding 4); a run that could not borrow stores nothing and is answered with the id of an earlier
  one. `asked` in the job of a run is history: the workbook of the request, which `persist_run` is not told.

## 3. What the runs check

| Run | Question | Distinct states |
|---|---|---|
| `ledger` | Do the counters of a ledger stay the sums of its allocations, is the settlement the money, and does it implement `CapitalClaims`? | 8,514 |
| `workbook` | Do workbooks and the ledgers of their borrows together keep the money, in any order of runs, returns, additions and deletion? | 794,323 |
| `desk` | Do containers, risk index, ledger and positions agree, after any calls and in the middle of them? | 1,243,061 |
| `run` | Does every run end, clean, with square-off working on every day that reaches it? | 782,748 |
| `run_overnight` | Is nothing ever held overnight? *No* (finding 1) | violation |
| `data_ranges` | With any ranges, one request of them cut off, is there no hole unless the range was torn, are closed days final and asked for once, and does every request end? | 558,614 |
| `data_holes` | Is there never a hole in the covered range? *No* (finding 2) | violation |
| `data_crash` | Are covered days always final? *No* (finding 3) | violation |
| `runtime` | Through stops and starts at any point, is every event accounted for, is persistence drained, and does stop return? | 1,058,850 |
| `backtest` | On any bars, does each strategy know what it holds, and is the book right? | 427,787 |
| `server` | With two processes killed, failing or started anew anywhere, are schema, runs and history whole? | 143,583 |
| `server_books` | Is what is done in one workbook only ever seen in that one? *No* (finding 4) | violation |

### The properties

*Ledger.* `SettledMeansEmpty`: `settled()` looks at two counters and must mean that no
container holds an allocation. `SettlementIsTheMoney`: settlement is computed from two
numbers and must be the money there is plus paper results. `OnlyLossesOverdraw`: only the
loss of a real container makes `available` negative. `ImplementsClaims`: refinement.

*Workbook.* `BorrowedIsOutstanding`, `BooksBalance`, `NeverOverdrawn`, `ReturnedIsEmpty`,
`EventsReplay`, `OnlyDebtsStayLent`: see section 5, all of them are proved. The last is the code's answer to
`ARCHITECTURE.md:512`, where every run returns what it borrowed with its result: a run that ended with less
than nothing, which leverage allows, is refused its return (`workbook_manager.cpp:78`), `settle` ignores that
(`run_manager.cpp:37`), and the borrow stays in `borrowed_capital` for good. These runs, and no others, do not return.
`DeletedOnlyWindsUp`: a deleted workbook lends nothing, but its runs can return.

*Desk.* `RunningIsKnown` and `NoKeyIsStuck`: starting and stopping touch three pieces of
state and may fail in between; they never disagree, and no symbol and strategy is left
blocked. `LedgerHasTheShares`: positions of a symbol are shared by its containers.
`HaltedIsFlat`: after a kill or a square-off went round nobody has shares and nobody buys.
`StoppedIsOver`, `ResultIsSettled`: stopping sells first, what was made on the way out is
in the ledger, and the settlement is the money plus what paper containers made. `RoundingIsSmall`: cash and the worth of the trades differ by at most
`MaxPosition` paise per fill, whatever margins and average prices truncate to.

*Run.* `RunEnds`, `WinnersAreStarted`; `RunEndsClean`: nothing is left behind, and what settles is all
money, because winners are started in real mode; `WarnedInWindow` and
`WindowSquaresOff` relate the scheduler's own flags, the risk engine's switch and the
containers over several days.

*Bar cache.* `CoveredUnlessTorn` and `AnswerHasEveryDay` relate the row to the keys, after any cuts:
there are exactly three ways to a hole, which `torn` names: a request that jumps over sessions, a chunk
left of the range that is skipped after one that was kept, and a cut in the middle of an extension to
the left.
`UncutSealedIsFinal`: without cuts no closed day keeps what was fetched while it lasted,
although midnight may come in the middle of a request. `NothingFetchedTwice` and `RequestsEnd`
(the notes say "Do not loop" of the left extension).

*Runtime.* `EveryEventCounted` relates the counters to the rings, the hands of the threads and the
refusals: nothing is taken twice or dropped on the way. `StoppedIsPersisted` needs the order of
the joins. `FewBarsFit` says what the smoke run and its test rely on: rings that have room for the
events of all bars refuse none. `StopEnds` is liveness.

*Backtest.* `BookIsLive` compares the book with the account that `Exchange` keeps of a live container;
`DaysMatchTheLog` and `EndsSquare` relate the snapshots, the log and the money; what a run ends with is
what it began with and its result to the paisa, unless a buy added to a position: then the average price
is truncated, and `Rounding` bounds what that can move. `ClipKnowsItsEntry`
and `OneBreakoutADay` are about what strategies remember over sessions and refusals; the first holds
only because a backtest sells at the end of each day.

*Server.* `SchemaIsWhole`, `RunsAreWhole` and `HistoryStays` are about what every kill, failure and
restart leaves behind, and about the ids and rows it meets again. `RunsAreWhole`: every run the API shows
has all of its fills, each in a container of that run, nothing stored is left out, and the capital events are
those of the runs, in their order. It does not say which workbook a run is listed under: what the notes say of
that is `BooksAreIsolated`, which the code breaks (finding 4). `HistoryStays`: what a client was shown stays,
and new runs get ids after the old. It is about what was shown: a workbook that was answered 201 and never
stored was not, so that no property here catches its loss.

The type invariants are in no cfg: those of the ledger, the workbook, the desk, the run, the bar cache and
the runtime are proved, the others state the types for the reader.

### Bounds, and why they are enough

* `ledger`: three containers on a borrow that funds some of them but not all; asked
  amounts 0 to 2, values that come back -1, 0 and 3: refusals, losses beyond the principal and
  gains all occur. `Results` bounds what may add up. The theorems of section 5 have no such bounds.
* `workbook`: two workbooks and two borrows are what it takes for two runs to share a workbook or
  to use one each; one container per borrow, returning a gain or a debt. Proved without bounds.
* `desk`: two containers on one symbol is where positions are shared and keys collide, two
  strategies is where they do not. Prices 3 and 8 gap by more than the margin, so accounts go
  negative; the loss limit is reached by one bad trade; stamp and transaction rates are raised so that
  fees round at these prices. `MaxBars` counts the calls of `on_bar`, `MaxIntents` the intents of one bar.
* `run`: two days, four bars, so that each day can have a bar before and one in the
  window, or lack one; winner lists with none, one, two, and the same pair twice.
* `data_*`: six days with one that is no session, so that a gap, a weekend and a left extension
  fit; chunks of two days, so that requests have several chunks; a vendor whose history
  starts late, and one with an empty day in the middle; one cut, at any step of any request.
* `runtime`: the rings between threads hold two events and the log one, so that each can be full
  while another is not; `MaxCalls` = 3 bars and starts together are two bars in one life, or one bar
  after a second start. The theorems of section 5 have no such bounds.
* `backtest`: seven bars over three days, with closes that stop out, dip, recover and reach the target;
  bars are flat, so that highs and lows add nothing; a day begins in the morning; the capital is short
  enough for an order to be refused.
* `server`: two users with one password; two workbooks per life of the server, so that a restart
  gives an id again; two runs, by either process: without containers, with two, and with a debt. With
  three runs (602,172 states) the properties hold as well. The users are symmetric, and no liveness
  is checked.

`CHECK_DEADLOCK FALSE` is used where the system stops: a run that settled, workbooks whose
bounded ids are all in use, a backtest that is over, a runtime that nobody starts again.

### Fairness

`RunEnds` assumes weak fairness of the run's own next step: `execute` is one thread that
never waits for anybody, and the tape, bounded by `MaxBars`, is finite in the code too.
`RequestsEnd` assumes weak fairness of the steps of a request, for the same reason; nothing is
assumed of new requests, of the calendar, or of cuts. `StopEnds` assumes weak fairness of each
thread on its own, and of the owner's joins: the system schedules threads that spin and yield. Nobody
has to start, stop or offer a bar.

## 4. Findings

Each is a run that TLC must find violated; the text it is measured against is quoted in
`PROJECT.json`.

1. `run_overnight`, `scheduler/session_scheduler.hpp:37`. The square-off warning comes with a bar
   at or after 15:15, not with a timer: a day without such a bar has no square-off and the MIS position is
   held overnight. `WindowSquaresOff` says that days with one are squared off.
2. `data_holes`, `market_data/data_fetch_service.cpp:205`. A request that starts past
   `last_date` fetches its own days and stretches the range over the gap. The days in between count as
   covered and are never fetched. `CoveredUnlessTorn` says in which cases alone that happens.
3. `data_crash`, `market_data/data_fetch_service.cpp:275`. `refresh_today` puts today into the
   closed range and takes it out again with a second upsert. A crash in between leaves half a day in
   the closed range for good. `UncutSealedIsFinal` says a cut is needed.
4. `server_books`, `api/http_server.cpp:665`. A run from the API is executed on a `WorkbookManager` of its own,
   whose workbook always has the id 1, and is stored under that id: a run asked for in workbook 2 is listed under
   workbook 1, whoever owns it, and sets its capital, and workbook 2 shows nothing of it. `RunsAreWhole` says
   that wherever the run is listed, it is all there; `HistoryStays` that workbook 1 keeps its owner and name.

## 5. What is proved

The theorems hold for every number of containers, workbooks, borrows, bars and processes, every amount,
price, fee, capacity and bound. What is assumed of the constants are the named assumptions of the modules
(`MaxContainersAssumption`, `LedgerAssumption`, `WorkbookAssumption`, `ExchangeAssumption`,
`RiskAssumption`, `DeskAssumption`, `RunAssumption`, `CalendarAssumption`, `RuntimeAssumption`,
`StrategiesAssumption`, `BacktestAssumption`, `DatabaseAssumption`, `ServerAssumption`): counts, prices and
bounds are naturals, amounts and values integers, leverages and capacities positive, sets of symbols and
strategies not empty; winners are keys and fit the ids; a vendor has bars on sessions only; a fill or a note
of a run is in one of its containers, and a run without containers made nothing. TLC evaluates each of them
in a run.

`Ledger_proofs`. Sums are recursive functions on an interval, so that modules with theorems declare
no recursive operator. What is needed of them is that a sum of integers is an
integer, that changing one entry changes the sum by the difference, that a sum of non-negative
entries that is 0 has only zeros, and what appending does. The library's induction theorems take an operator as a
parameter, which the provers cannot instantiate; induction is done over the set of the numbers for which
the statement holds, which has a least number outside it if it is not all of them (`SetInduction`). Quotients are bounded by
the two inequations that define them, which the section on quotients states once.

Each operation of a ledger keeps `LedgerOK`: entries are well formed (a
positive claim, or nothing) and the two counters are the sums of the claims of their
kind. That is the inductive part of everything about money: `settled()` reads the
counters, and only well formed entries make 0 mean empty.

`PortfolioLedger_proofs`. `TypeOK` is inductive with that lemma; `SettlementIsTheMoney` is inductive
on top of it. `SettledCorrect`, `OverdraftCorrect` and `LedgerImplementsClaims` follow; for the
refinement the free part of the pot is the ledger's `available`, which is `SettlementIsTheMoney`
and `CountersMatch` together. The desk below uses the module by `INSTANCE`, with sets of
amounts, values and results that are all the integers.

`Workbook_proofs`. The invariant is `IInv == TypeOK /\ BorrowsOK /\ BlankBooks /\ BooksOK /\
OnlyDebtsStayLent`. `BooksOK` holds the equations between workbooks, borrows, ledgers and the log;
`BorrowsOK` says that a ledger's `borrowed` is what its borrow lent, that a borrow belongs to a workbook
there is, and that the run of a returned borrow has ended with its ledger settled, so that it changes
no more: without that a return would not keep `BooksBalance`; `BlankBooks` says that ids not handed out yet have
no money and no events. From it follow `TypeCorrect`,
`BorrowedCorrect`, `BalanceCorrect`, `OverdraftCorrect`, `ReturnedCorrect`, `DebtsCorrect` and
`EventsCorrect`. `DeletedCorrect`, about steps, needs besides that what was lent is positive.

`WorkbookImplementsClaims`: a workbook is the same abstract pot one level up. The pot is what is available and
lent, and a borrow that is out is a firm claim on it, so that what is free is `available` by `BooksOK`.
`CapitalClaims` has a second specification for it, `OpenSpec`, whose owner may put money in, because
`create` and `add_capital` do. A ledger takes no deposits and implements the closed one; a workbook gives no
claim that is not firm. The theorem is for each workbook: a call on one is a stutter of all others.

`TradingDesk_proofs`. The invariant is `IInv == Books /\ Round /\ Halt`. `Books` is what containers,
index, ledger and positions have in common: `RunningIsKnown` with the converse of the index (a key leads
to a container that has this key), allocations that are the principals, and shares only with containers
that run and have a price. The last is what makes a flatten succeed, and so what makes a container that
stops end without shares and a halt leave nobody with any. `Round` says that the intents under way are
those of a container that runs and has heard its bar, so that a fill is never booked on another. `Halt`
says whom a kill switch or a square-off has already reached while it goes round: everyone outside the
queue is flat, because those visited have sold and those never in it do not run. There is one lemma per
action; a lemma for what a fill does (`FillBooks`) and one for what leaving does (`LeaveBooks`) carry the
sums. Prices are any, so results and cash may be negative.

`RoundingCorrect` needs an invariant of its own (`Rounded`): the cash of a container lags the worth of its
trades by the loan `Owed` on what it holds, and `Drift`, the rest, grows by at most a paisa per share and
fill. A sell that leaves shares releases the margin of an average that no buy paid, so the margin of the part
sold and of the part kept are compared with that of the whole (`OwedSplits`). That shares held have a positive average, which the bound
needs, comes from the risk rule that refuses a price of 0.

`DeskUsesLedger` and `RunUsesLedger`: what containers and runs do to their ledger are steps of
`PortfolioLedger`. They call its operators directly, but `PortfolioLedger` allows more and less than any one
caller does, and what must be shown is that the caller passes sound arguments, books at
most once in a step, and keeps the account of paper results, which there is a variable and here the
sum `PaperResults` over stopped containers that never were real. Only stopping gives a result, so the
sum changes in the step that gives the money back, by what the ledger realizes, and an upgrade, which
changes the mode of a running container, leaves it alone. The theorems of the ledger are then cited for the desk
through the instance: `ResultCorrect` gets its second half from `SettlementCorrect`, `DeskKeepsClaims`
is `LedgerImplementsClaims` and `OverdraftCorrect`, and `EndCorrect` uses that a run has real containers
only. The refinement itself is not run by TLC, whose instance would need sets that are not finite; its
consequences are, as `ResultIsSettled` and `RunEndsClean`.

The same module goes on with `TradingRun`, with the invariant `RunInv`: `Pool` (what the pool has left
pays for the winners that are left, which the division into equal shares leaves true), `Clock` (the
scheduler's day and flag are those of the last bar), `Due` (the square-off switch of the risk engine is
the scheduler's flag but for the events still due before the bar: there are six sequences of those, and
each call takes the next), `Told` (the engine has heard an event that is going round), `BarIsLast`,
`EndDue` (after the tape everyone who runs is in the queue of the last round) and `Over` (a settled run has
nobody left who runs). `WarningCorrect` is `Due` when the bar comes; `SquareOffCorrect` is `Halt` of the
desk with `Due`; `EndCorrect` is `Books` where nobody runs, with the settlement from `RunUsesLedger`; `WinnersCorrect` is `Pool`.

`DataFetch_proofs`. A request keeps a stack of calls, and every reachable stack has one form:
`Pending(p, W, L, R, f)`, what is left to write of a chunk (`W`), the days to the left (`L`) and to the right
(`R`) that are still to be fetched, and the phase `p` that follows. The invariant says for the parts
what a hole is made of: `Form` and `Ranges` (where the parts lie), `Whole` (a covered session is stored, in
hand, or in `L` or `R`, and so is a closed day of the request), `Uncut` (without cuts what is stored is
final, covered, or about to be). `RowOK` relates the ends of the range in every state: no session lies
between `last` and `first`. A cut drops the parts: the
cases in which `Whole` is then false are exactly those that set `torn`.

`Runtime_proofs`. The invariant is `IInv == TypeOK /\ EveryEventCounted /\ NotesBounded /\
StopOrder /\ DrainOrder /\ FewBarsFit`. `EveryEventCounted` is inductive with the types alone: each
step moves one event. For `DrainCorrect` it takes `StopOrder`, which relates flags, joins and ended
threads (when persistence drains, all others have ended, so that no ring fills up again behind it),
and `DrainOrder`, the rings the drain has passed. For `CapacityCorrect` the refusals of a ring are bounded
by what it was given, and that by the bars offered; persistence counts the events of its
rings together, so `NotesBounded` says for each ring what it can have been given.

`Backtest_proofs`. `BookCorrect`: the book and the account that a live container would keep see the
same fills (`RunOK`), and a strategy buys or sells all it has (`OrderOK`), so that their average prices
and shares are the same after each; the results differ by the fees of buys, which the history variable
adds up. `ClipCorrect` (`ClipInv`): the clip has the price of its entry if and only if shares are held,
and its day is that of the last bar; it relies on the sale at the end of a day. `BreakoutCorrect` (`OrbInv`): the
days in the log never go back, and a buy of the last day is remembered as the try of that day.
`DaysCorrect`: while a day is `Open`, the book has made since its start the fills the log has on it; once
it is `Closed`, all is in the snapshots and none is of a later day. `SquareCorrect`: `Gap` is the difference between
what there is, the margin of the shares held included, and what the result says; only a buy that adds
moves it, by less than a paisa per share (`Rounds`). A bound by the shares held alone would not do: every buy that adds truncates
the average again, so `Rounding` adds up over the buys.

`Server_proofs`. `SchemaCorrect` from an invariant that relates where a process is in its start, what
its transaction has added (`TxnOK`) and what the log of migrations says: only the process that has the
write lock touches the database, so the steps of all others (`OthersStay`) keep what it has read.
`RunsCorrect` and `HistoryCorrect` stand on `RowsInv`: the committed rows are `Whole` (containers belong to runs,
fills to containers of their run, each run has as many as it says and is listed under a workbook there is, events are those of the
runs), and a process that stores a run has a transaction that is exactly so many stages ahead of them
(`Pending`, `Ahead`), because nobody else can commit while it has the lock. `StoredWhole` is the commit: whole rows with a
run stored are whole again and have grown (`Grows`). What `FlattenSeq` makes of the events of one
run more is `FlattenExtend`, for which the recursive function in its definition is shown to exist.

Only model-checked: liveness (`RunEnds`, `RequestsEnd`, `StopEnds`), which is out of the prover's reach as
fairness and `ENABLED` are. Every invariant and every action property of a passing run is a theorem.

## 6. What is not modelled

* What the router selects: `evaluate_all` is a list of winners in `TradingRun`, the backtest behind each
  is `Backtest`. Position sizing: quantities are any.
* Containers with a given strategy: `TradingDesk` leaves decisions open, which covers all four, so that
  what a strategy remembers is checked against the backtest only, whose days end flat. RSI has no user
  but its test.
* CNC and intraday products other than MIS: `ContainerManager` gives every container MIS.
* Overflow of paise: 64 bits, and amounts no workbook reaches.
* The statistics of a backtest: Sharpe ratio, win rate, holding time.
* Order ids, time stamps of fills, signals that are only recorded, logging, printing, JSON.
* Sockets and the parsing of requests, password hashes and the signatures of tokens: a request is one of
  the handlers, a password matches or does not, a token is valid or not.
* Inside SQLite and RocksDB: a transaction is atomic and durable, a lock is held by one process, and that is
  modelled from how the code uses it.
* Vendors, the registry of data sources and the packed form of a blob: what they return is an input
  of `DataFetch`, which tells apart what a blob holds and not its bytes.
* The orders in which weak memory could show the stores of the rings: `Runtime` is sequentially
  consistent. The memory pool is used by its test alone.

## 7. The plan

Done, in this order: the ledger and its refinement; workbooks over it; exchange, risk and
containers; a whole run; the bar cache; the proofs of the first two; the runtime and its proofs; the
strategies and the backtest; the database, the migrations and the server; proofs about deleted
workbooks, the schema, the backtest and the desk; proofs about a whole run, the bar cache, rounding, the days
and the end of a backtest, and the rows of stored runs; the use of the ledger by desk and run, and workbooks as
pots of claims.

What would tell most next: the choice of `evaluate_all` as a composition with `Backtest`; the acquire and
release of the rings as a model of their two indices.
