-------------------------------- MODULE Workbook --------------------------------
(***************************************************************************)
(* WorkbookManager: workbooks, the borrows against them and one ledger per *)
(* borrow.  The clients are the runs: a run borrows, lets its containers   *)
(* use the ledger, and ends by returning what the ledger settles to        *)
(* (RunManager::settle).  Any number of runs share a workbook; the owner   *)
(* adds capital and may delete the workbook while runs are still going.    *)
(*                                                                         *)
(* A call that returns OpResult::fail changes nothing and is not a step.   *)
(***************************************************************************)
EXTENDS Ledger, Sequences

CONSTANTS MaxBooks,     \* workbooks that are created
          MaxBorrows,   \* borrows that are made, over all workbooks
          BookAmounts,  \* initial capital and capital added
          LoanAmounts,  \* amounts borrowed, and allocated to containers
          Values,       \* cash a container may come back with
          MaxMain,      \* bound on the main capital of a workbook
          MaxPnl        \* bound on the result of a borrow, paper results with and without

ASSUME WorkbookAssumption ==
  /\ MaxBooks \in Nat /\ MaxBorrows \in Nat
  /\ BookAmounts \subseteq Int /\ LoanAmounts \subseteq Int /\ Values \subseteq Int
  /\ MaxMain \in Nat /\ MaxPnl \in Nat

BookIds   == 1..MaxBooks
BorrowIds == 1..MaxBorrows

VARIABLES books,       \* books_: the capital of each workbook
          borrows,     \* borrows_
          ledgers,     \* ledgers_: the PortfolioLedger of each borrow
          nextBook,    \* next_workbook_
          nextBorrow,  \* next_borrow_
          log,         \* the events of each workbook
          ended        \* borrows whose run has called settle

vars == <<books, borrows, ledgers, nextBook, nextBorrow, log, ended>>

Book   == [main : Int, available : Int, borrowed : Int, deleted : BOOLEAN]
Borrow == [book : BookIds \cup {0}, original : Int, returned : BOOLEAN]
Event  == [type : {"Created", "CapitalAdded", "ActivityBorrow", "ActivityReturn"}, amount : Int]

NoBook   == [main |-> 0, available |-> 0, borrowed |-> 0, deleted |-> FALSE]
NoBorrow == [book |-> 0, original |-> 0, returned |-> FALSE]

Created(id) == id < nextBook
Made(b)     == b < nextBorrow
RunHolds(b) == Made(b) /\ b \notin ended

TypeOK ==
  /\ books \in [BookIds -> Book]
  /\ borrows \in [BorrowIds -> Borrow]
  /\ \A b \in BorrowIds : LedgerOK(ledgers[b])
  /\ DOMAIN ledgers = BorrowIds
  /\ nextBook \in 1..(MaxBooks + 1)
  /\ nextBorrow \in 1..(MaxBorrows + 1)
  /\ log \in [BookIds -> Seq(Event)]
  /\ ended \subseteq BorrowIds

Init ==
  /\ books = [id \in BookIds |-> NoBook]
  /\ borrows = [b \in BorrowIds |-> NoBorrow]
  /\ ledgers = [b \in BorrowIds |-> NewLedger(0)]
  /\ nextBook = 1
  /\ nextBorrow = 1
  /\ log = [id \in BookIds |-> << >>]
  /\ ended = {}

PushEvent(id, type, amount) ==
  log' = [log EXCEPT ![id] = Append(@, [type |-> type, amount |-> amount])]

-------------------------------------------------------------------------------
(* What the calls do to the capital of a workbook.                         *)

Opened(capital) == [main |-> capital, available |-> capital, borrowed |-> 0, deleted |-> FALSE]

Funded(book, amount) == [book EXCEPT !.main = @ + amount, !.available = @ + amount]

Lent(book, amount) == [book EXCEPT !.available = @ - amount, !.borrowed = @ + amount]

\* A plausible bug: what comes back, and not what was lent, leaves borrowed.
ReturnedFinal(book, original, final) ==
  [book EXCEPT !.available = @ + final, !.borrowed = @ - final]

Returned(book, original, final) ==
  [book EXCEPT !.available = @ + final, !.borrowed = @ - original]

(* create: a negative initial capital counts as none.                      *)

\* A plausible bug: the event records what was asked for.
CreateLogsRequested(amount) ==
  LET capital == IF amount < 0 THEN 0 ELSE amount
  IN  /\ nextBook <= MaxBooks
      /\ capital <= MaxMain
      /\ books' = [books EXCEPT ![nextBook] = Opened(capital)]
      /\ nextBook' = nextBook + 1
      /\ PushEvent(nextBook, "Created", amount)
      /\ UNCHANGED <<borrows, ledgers, nextBorrow, ended>>

Create(amount) ==
  LET capital == IF amount < 0 THEN 0 ELSE amount
  IN  /\ nextBook <= MaxBooks
      /\ capital <= MaxMain
      /\ books' = [books EXCEPT ![nextBook] = Opened(capital)]
      /\ nextBook' = nextBook + 1
      /\ PushEvent(nextBook, "Created", capital)
      /\ UNCHANGED <<borrows, ledgers, nextBorrow, ended>>

(* add_capital                                                             *)

AddCapital(id, amount) ==
  /\ Created(id)
  /\ ~ books[id].deleted
  /\ amount > 0
  /\ books[id].main + amount <= MaxMain
  /\ books' = [books EXCEPT ![id] = Funded(@, amount)]
  /\ PushEvent(id, "CapitalAdded", amount)
  /\ UNCHANGED <<borrows, ledgers, nextBook, nextBorrow, ended>>

(* borrow_capital: the ledger of the borrow starts with the amount.        *)

\* A plausible bug: a deleted workbook still lends.
BorrowOkDeleted(id, amount) == Created(id) /\ amount > 0 /\ books[id].available >= amount

\* A plausible bug: the available capital is not looked at.
BorrowOkUnfunded(id, amount) == Created(id) /\ ~ books[id].deleted /\ amount > 0

BorrowOk(id, amount) ==
  /\ Created(id)
  /\ ~ books[id].deleted
  /\ amount > 0
  /\ books[id].available >= amount

BorrowCapital(id, amount) ==
  /\ BorrowOk(id, amount)
  /\ nextBorrow <= MaxBorrows
  /\ books' = [books EXCEPT ![id] = Lent(@, amount)]
  /\ borrows' = [borrows EXCEPT ![nextBorrow] = [book |-> id, original |-> amount,
                                                 returned |-> FALSE]]
  /\ ledgers' = [ledgers EXCEPT ![nextBorrow] = NewLedger(amount)]
  /\ nextBorrow' = nextBorrow + 1
  /\ PushEvent(id, "ActivityBorrow", amount)
  /\ UNCHANGED <<nextBook, ended>>

(* return_capital: note that a deleted workbook still takes returns.       *)

\* A plausible bug: a borrow is returned as often as asked for.
ReturnOkTwice(id, b, final) ==
  Made(b) /\ borrows[b].book = id /\ final >= 0 /\ Settled(ledgers[b])

\* A plausible bug: containers may still trade on it.
ReturnOkUnsettled(id, b, final) ==
  Made(b) /\ borrows[b].book = id /\ ~ borrows[b].returned /\ final >= 0

\* A plausible bug: a debt is taken back as well.
ReturnOkDebt(id, b, final) ==
  Made(b) /\ borrows[b].book = id /\ ~ borrows[b].returned /\ Settled(ledgers[b])

ReturnOk(id, b, final) ==
  /\ Made(b)
  /\ borrows[b].book = id
  /\ ~ borrows[b].returned
  /\ final >= 0
  /\ Settled(ledgers[b])

ReturnCapital(id, b, final) ==
  /\ ReturnOk(id, b, final)
  /\ books' = [books EXCEPT ![id] = Returned(@, borrows[b].original, final)]
  /\ borrows' = [borrows EXCEPT ![b] = [@ EXCEPT !.returned = TRUE]]
  /\ PushEvent(id, "ActivityReturn", final)
  /\ UNCHANGED <<ledgers, nextBook, nextBorrow>>

(* RunManager::settle returns the settlement and ignores the outcome: with *)
(* every container stopped, the run is over even if the return failed.     *)

Settle(b) ==
  \/ /\ \E id \in BookIds : ReturnCapital(id, b, Settlement(ledgers[b]))
     /\ ended' = ended \cup {b}
  \/ /\ RunHolds(b)
     /\ Settled(ledgers[b])
     /\ ~ ReturnOk(borrows[b].book, b, Settlement(ledgers[b]))
     /\ ended' = ended \cup {b}
     /\ UNCHANGED <<books, borrows, ledgers, nextBook, nextBorrow, log>>

(* soft_delete                                                             *)

SoftDelete(id) ==
  /\ Created(id)
  /\ ~ books[id].deleted
  /\ books' = [books EXCEPT ![id] = [@ EXCEPT !.deleted = TRUE]]
  /\ UNCHANGED <<borrows, ledgers, nextBook, nextBorrow, log, ended>>

-------------------------------------------------------------------------------
(* activity(b): the run that holds borrow b hands its ledger to containers *)
(* until it settles.                                                       *)

LedgerStep(b, new) ==
  /\ ledgers' = [ledgers EXCEPT ![b] = new]
  /\ UNCHANGED <<books, borrows, nextBook, nextBorrow, log, ended>>

Allocate(b, c, amount, mode) ==
  /\ RunHolds(b)
  /\ TakeOk(ledgers[b], c, amount, mode)
  /\ LedgerStep(b, Take(ledgers[b], c, amount, mode))

Upgrade(b, c) ==
  /\ RunHolds(b)
  /\ CommitRealOk(ledgers[b], c)
  /\ LedgerStep(b, CommitReal(ledgers[b], c))

Release(b, c, value) ==
  /\ RunHolds(b)
  /\ GiveBackOk(ledgers[b], c)
  /\ LedgerStep(b, GiveBack(ledgers[b], c, value))
  /\ ledgers'[b].realized \in -MaxPnl..MaxPnl
  /\ ledgers'[b].available - ledgers[b].borrowed \in -MaxPnl..MaxPnl

Owner == \/ \E amount \in BookAmounts : Create(amount)
         \/ \E id \in BookIds, amount \in BookAmounts : AddCapital(id, amount)
         \/ \E id \in BookIds : SoftDelete(id)

Run(b) == \/ Settle(b)
          \/ \E c \in ContainerIds :
               \/ \E amount \in LoanAmounts, mode \in Modes : Allocate(b, c, amount, mode)
               \/ Upgrade(b, c)
               \/ \E value \in Values : Release(b, c, value)

Next == \/ Owner
        \/ \E id \in BookIds, amount \in LoanAmounts : BorrowCapital(id, amount)
        \/ \E b \in BorrowIds : Run(b)

Spec == Init /\ [][Next]_vars

-------------------------------------------------------------------------------
LentBy(bs, id) ==
  [b \in BorrowIds |-> IF bs[b].book = id /\ ~ bs[b].returned THEN bs[b].original ELSE 0]

ResultOf(bs, ls, id) ==
  [b \in BorrowIds |-> IF bs[b].book = id /\ bs[b].returned THEN ls[b].realized ELSE 0]

Amounts(events, types) ==
  [i \in 1..Len(events) |-> IF events[i].type \in types THEN events[i].amount ELSE 0]

Logged(events, types) == SumUpTo(Amounts(events, types), Len(events))

(***************************************************************************)
(* borrowed_capital is what the unreturned borrows of this workbook lent,  *)
(* whatever they come back with and in whatever order.                     *)
(***************************************************************************)
BorrowedIsOutstanding ==
  \A id \in BookIds : books[id].borrowed = SumUpTo(LentBy(borrows, id), MaxBorrows)

(***************************************************************************)
(* The two levels together lose and create nothing: what a workbook has or *)
(* has lent is what its owner put in plus the results its runs realized.   *)
(***************************************************************************)
BooksBalance ==
  \A id \in BookIds :
    books[id].available + books[id].borrowed
      = books[id].main + SumUpTo(ResultOf(borrows, ledgers, id), MaxBorrows)

(***************************************************************************)
(* A workbook never lends what it does not have, and no return takes money *)
(* out of it.                                                              *)
(***************************************************************************)
NeverOverdrawn ==
  \A id \in BookIds : books[id].available >= 0

(***************************************************************************)
(* No container still holds money of a borrow that was returned: the same  *)
(* money would be in the workbook and in the container.                    *)
(***************************************************************************)
ReturnedIsEmpty ==
  \A b \in BorrowIds :
    borrows[b].returned => \A c \in ContainerIds : ~ ledgers[b].allocs[c].held

(***************************************************************************)
(* A run that ends gives its borrow back, unless it ends in debt: then the *)
(* return is refused and the borrow stays lent for good.                   *)
(***************************************************************************)
OnlyDebtsStayLent ==
  \A b \in ended : ~ borrows[b].returned <=> Settlement(ledgers[b]) < 0

(***************************************************************************)
(* The capital of a workbook can be recomputed from its events, which is   *)
(* what is persisted of its history.                                       *)
(***************************************************************************)
EventsReplay ==
  \A id \in BookIds :
    /\ books[id].main = Logged(log[id], {"Created", "CapitalAdded"})
    /\ books[id].available = books[id].main - Logged(log[id], {"ActivityBorrow"})
                                            + Logged(log[id], {"ActivityReturn"})

(***************************************************************************)
(* After soft_delete a workbook is only wound up: nothing is added, nothing*)
(* is lent, and it stays deleted, but the runs still going can return.     *)
(***************************************************************************)
DeletedOnlyWindsUp ==
  [][\A id \in BookIds : books[id].deleted =>
       /\ books'[id].deleted
       /\ books'[id].main = books[id].main
       /\ books'[id].borrowed <= books[id].borrowed
       /\ books'[id].available >= books[id].available]_vars
===============================================================================
