----------------------------- MODULE Workbook_proofs -----------------------------
(***************************************************************************)
(* The books of WorkbookManager balance for any number of workbooks and    *)
(* borrows, any amounts and any results, and each workbook keeps to its    *)
(* borrows what a ledger keeps to its containers.                          *)
(***************************************************************************)
EXTENDS Workbook, Ledger_proofs

BorrowMap == [BorrowIds -> Borrow]

(***************************************************************************)
(* What is summed has integer values.                                      *)
(***************************************************************************)
LEMMA LentTypes ==
  ASSUME NEW bs \in BorrowMap, NEW id
  PROVE  LentBy(bs, id) \in [1..MaxBorrows -> Int]
BY DEF BorrowMap, LentBy, BorrowIds, Borrow

(***************************************************************************)
(* The results that are summed are integers.                               *)
(***************************************************************************)
LEMMA ResultTypes ==
  ASSUME NEW bs \in BorrowMap, NEW ls, \A b \in BorrowIds : ls[b].realized \in Int, NEW id
  PROVE  ResultOf(bs, ls, id) \in [1..MaxBorrows -> Int]
BY DEF BorrowMap, ResultOf, BorrowIds, Borrow

(***************************************************************************)
(* The result of a borrow counts only once it is returned: its ledger can  *)
(* change before that.                                                     *)
(***************************************************************************)
LEMMA ResultSame ==
  ASSUME NEW bs, NEW ls, NEW ks, NEW id,
         \A b \in BorrowIds : bs[b].returned => ks[b] = ls[b]
  PROVE  ResultOf(bs, ks, id) = ResultOf(bs, ls, id)
BY DEF ResultOf

(***************************************************************************)
(* Borrow n is made, or returned, and the other borrows stay as they were. *)
(***************************************************************************)
BorrowMade(bs, cs, n, book, amount, ls, ks) ==
  /\ bs \in BorrowMap /\ cs \in BorrowMap /\ n \in BorrowIds
  /\ book \in BookIds /\ amount \in Int
  /\ bs[n] = NoBorrow
  /\ cs[n].book = book /\ cs[n].original = amount /\ cs[n].returned = FALSE
  /\ \A b \in BorrowIds \ {n} : cs[b] = bs[b]
  /\ \A b \in BorrowIds : ls[b].realized \in Int
  /\ \A b \in BorrowIds \ {n} : ks[b] = ls[b]

BorrowReturned(bs, cs, n, ls) ==
  /\ bs \in BorrowMap /\ cs \in BorrowMap /\ n \in BorrowIds
  /\ bs[n].returned = FALSE
  /\ cs[n].book = bs[n].book /\ cs[n].original = bs[n].original /\ cs[n].returned = TRUE
  /\ \A b \in BorrowIds \ {n} : cs[b] = bs[b]
  /\ \A b \in BorrowIds : ls[b].realized \in Int

(***************************************************************************)
(* A new borrow adds its amount to what its workbook has lent.             *)
(***************************************************************************)
LEMMA SumsOfNewBorrow ==
  ASSUME NEW bs, NEW cs, NEW n, NEW book, NEW amount, NEW ls, NEW ks,
         BorrowMade(bs, cs, n, book, amount, ls, ks), NEW id \in BookIds
  PROVE  /\ SumUpTo(LentBy(cs, id), MaxBorrows)
              = SumUpTo(LentBy(bs, id), MaxBorrows) + (IF id = book THEN amount ELSE 0)
         /\ ResultOf(cs, ks, id) = ResultOf(bs, ls, id)
<1> USE DEF BorrowMade
<1> DEFINE v == IF id = book THEN amount ELSE 0
<1>1. bs[n].book = 0 /\ bs[n].returned = FALSE /\ id # 0
  BY DEF NoBorrow, BookIds
<1>2. LentBy(bs, id)[n] = 0
  BY <1>1 DEF LentBy
<1>3. \A b \in 1..MaxBorrows : LentBy(cs, id)[b] = IF b = n THEN v ELSE LentBy(bs, id)[b]
  BY DEF LentBy, BorrowIds
<1>4. v \in Int /\ MaxBorrows \in Nat /\ n \in 1..MaxBorrows
  BY WorkbookAssumption DEF BorrowIds
<1> HIDE DEF v
<1>5. LentBy(bs, id) \in [1..MaxBorrows -> Int] /\ LentBy(cs, id) \in [1..MaxBorrows -> Int]
  BY LentTypes
<1>6. SumUpTo(LentBy(cs, id), MaxBorrows)
        = SumUpTo(LentBy(bs, id), MaxBorrows) - LentBy(bs, id)[n] + v
  BY <1>3, <1>4, <1>5, SumExcept, ZenonT(30)
<1>7. SumUpTo(LentBy(bs, id), MaxBorrows) \in Int
  BY <1>4, <1>5, SumType
<1>8. SumUpTo(LentBy(cs, id), MaxBorrows) = SumUpTo(LentBy(bs, id), MaxBorrows) + v
  BY <1>2, <1>4, <1>6, <1>7
<1>9. ResultOf(cs, ks, id) = ResultOf(bs, ls, id)
  BY <1>1 DEF ResultOf
<1> QED
  BY <1>8, <1>9 DEF v

(***************************************************************************)
(* A return takes the borrow out of what its workbook has lent and counts  *)
(* its result.                                                             *)
(***************************************************************************)
LEMMA SumsOfReturn ==
  ASSUME NEW bs, NEW cs, NEW n, NEW ls, BorrowReturned(bs, cs, n, ls), NEW id \in BookIds
  PROVE  /\ SumUpTo(LentBy(cs, id), MaxBorrows)
              = SumUpTo(LentBy(bs, id), MaxBorrows)
                - (IF id = bs[n].book THEN bs[n].original ELSE 0)
         /\ SumUpTo(ResultOf(cs, ls, id), MaxBorrows)
              = SumUpTo(ResultOf(bs, ls, id), MaxBorrows)
                + (IF id = bs[n].book THEN ls[n].realized ELSE 0)
<1> USE DEF BorrowReturned
<1> DEFINE out  == IF id = bs[n].book THEN bs[n].original ELSE 0
           gain == IF id = bs[n].book THEN ls[n].realized ELSE 0
<1>1. LentBy(bs, id)[n] = out /\ ResultOf(bs, ls, id)[n] = 0
  BY DEF LentBy, ResultOf
<1>2. \A b \in 1..MaxBorrows : LentBy(cs, id)[b] = IF b = n THEN 0 ELSE LentBy(bs, id)[b]
  <2>1. LentBy(cs, id)[n] = 0
    BY DEF LentBy
  <2>2. \A b \in BorrowIds \ {n} : LentBy(cs, id)[b] = LentBy(bs, id)[b]
    BY DEF LentBy
  <2> QED
    BY <2>1, <2>2 DEF BorrowIds
<1>3. \A b \in 1..MaxBorrows :
        ResultOf(cs, ls, id)[b] = IF b = n THEN gain ELSE ResultOf(bs, ls, id)[b]
  <2>1. ResultOf(cs, ls, id)[n] = gain
    BY DEF ResultOf
  <2>2. \A b \in BorrowIds \ {n} : ResultOf(cs, ls, id)[b] = ResultOf(bs, ls, id)[b]
    BY DEF ResultOf
  <2> QED
    BY <2>1, <2>2 DEF BorrowIds
<1>4. /\ out \in Int /\ gain \in Int /\ 0 \in Int
      /\ MaxBorrows \in Nat /\ n \in 1..MaxBorrows
  BY WorkbookAssumption DEF BorrowIds, BorrowMap, Borrow
<1> HIDE DEF out, gain
<1>5. /\ LentBy(bs, id) \in [1..MaxBorrows -> Int]
      /\ LentBy(cs, id) \in [1..MaxBorrows -> Int]
      /\ ResultOf(bs, ls, id) \in [1..MaxBorrows -> Int]
      /\ ResultOf(cs, ls, id) \in [1..MaxBorrows -> Int]
  BY LentTypes, ResultTypes
<1> DEFINE f == LentBy(bs, id)
           g == LentBy(cs, id)
           p == ResultOf(bs, ls, id)
           q == ResultOf(cs, ls, id)
<1>6. /\ f \in [1..MaxBorrows -> Int] /\ g \in [1..MaxBorrows -> Int]
      /\ \A b \in 1..MaxBorrows : g[b] = IF b = n THEN 0 ELSE f[b]
  BY <1>2, <1>5
<1>7. /\ p \in [1..MaxBorrows -> Int] /\ q \in [1..MaxBorrows -> Int]
      /\ \A b \in 1..MaxBorrows : q[b] = IF b = n THEN gain ELSE p[b]
  BY <1>3, <1>5
<1>8. f[n] = out /\ p[n] = 0
  BY <1>1
<1> HIDE DEF f, g, p, q
<1>9. SumUpTo(g, MaxBorrows) = SumUpTo(f, MaxBorrows) - f[n] + 0
  <2>1. PICK v \in Int : v = 0
    OBVIOUS
  <2>2. \A b \in 1..MaxBorrows : g[b] = IF b = n THEN v ELSE f[b]
    BY <1>6, <2>1
  <2>3. /\ MaxBorrows \in Nat /\ n \in 1..MaxBorrows
        /\ f \in [1..MaxBorrows -> Int] /\ g \in [1..MaxBorrows -> Int]
    BY <1>4, <1>6
  <2>4. SumUpTo(g, MaxBorrows) = SumUpTo(f, MaxBorrows) - f[n] + v
    BY <2>2, <2>3, SumExcept, ZenonT(30)
  <2> QED
    BY <2>1, <2>4
<1>10. SumUpTo(q, MaxBorrows) = SumUpTo(p, MaxBorrows) - p[n] + gain
  BY <1>4, <1>7, SumExcept, ZenonT(30)
<1>11. SumUpTo(f, MaxBorrows) \in Int /\ SumUpTo(p, MaxBorrows) \in Int
  BY <1>4, <1>6, <1>7, SumType
<1>12. /\ SumUpTo(g, MaxBorrows) = SumUpTo(f, MaxBorrows) - out
       /\ SumUpTo(q, MaxBorrows) = SumUpTo(p, MaxBorrows) + gain
  BY <1>4, <1>8, <1>9, <1>10, <1>11
<1> QED
  BY <1>12 DEF f, g, p, q, out, gain

(***************************************************************************)
(* The total of the logged amounts grows with every event.                 *)
(***************************************************************************)
LEMMA AmountsType ==
  ASSUME NEW events \in Seq(Event), NEW types
  PROVE  Amounts(events, types) \in [1..Len(events) -> Int] /\ Len(events) \in Nat
<1>1. \A i \in 1..Len(events) : events[i].amount \in Int
  <2>1. \A i \in 1..Len(events) : events[i] \in Event
    OBVIOUS
  <2> QED
    BY <2>1 DEF Event
<1> QED
  BY <1>1 DEF Amounts

(***************************************************************************)
(* The total of some types of event is an integer.                         *)
(***************************************************************************)
LEMMA LoggedType ==
  ASSUME NEW events \in Seq(Event), NEW types
  PROVE  Logged(events, types) \in Int
BY AmountsType, SumType DEF Logged

(***************************************************************************)
(* An empty log totals nothing.                                            *)
(***************************************************************************)
LEMMA LoggedNothing ==
  ASSUME NEW types
  PROVE  Logged(<< >>, types) = 0
<1> DEFINE f == Amounts(<< >>, types)
<1>1. /\ << >> \in Seq(Event) /\ Len(<< >>) = 0
      /\ f \in [1..0 -> Int] /\ \A k \in 1..0 : f[k] = 0
  BY DEF Amounts
<1> HIDE DEF f
<1>2. SumUpTo(f, 0) = 0
  BY <1>1, SumOfZeros
<1> QED
  BY <1>1, <1>2 DEF f, Logged

(***************************************************************************)
(* A new event adds its amount to the totals of its type.                  *)
(***************************************************************************)
LEMMA LoggedAppend ==
  ASSUME NEW events \in Seq(Event), NEW e \in Event, NEW types
  PROVE  Logged(Append(events, e), types)
           = Logged(events, types) + (IF e.type \in types THEN e.amount ELSE 0)
<1> DEFINE n == Len(events)
           f == Amounts(events, types)
           g == Amounts(Append(events, e), types)
<1>1. /\ Append(events, e) \in Seq(Event) /\ n \in Nat
      /\ Len(Append(events, e)) = n + 1
      /\ Append(events, e)[n + 1] = e
      /\ \A i \in 1..n : Append(events, e)[i] = events[i]
  OBVIOUS
<1>2. f \in [1..n -> Int] /\ g \in [1..(n + 1) -> Int]
  BY <1>1, AmountsType
<1>3. \A k \in 1..n : g[k] = f[k]
  BY <1>1 DEF Amounts
<1>4. g[n + 1] = IF e.type \in types THEN e.amount ELSE 0
  BY <1>1 DEF Amounts
<1> HIDE DEF f, g
<1>5. SumUpTo(g, n + 1) = SumUpTo(f, n) + g[n + 1]
  BY <1>1, <1>2, <1>3, SumExtend
<1> QED
  BY <1>1, <1>4, <1>5 DEF f, g, Logged

-------------------------------------------------------------------------------
(***************************************************************************)
(* What a call does to the capital of a workbook.                          *)
(***************************************************************************)
LEMMA OpenedBook ==
  ASSUME NEW capital \in Int
  PROVE  /\ Opened(capital) \in Book
         /\ Opened(capital).main = capital /\ Opened(capital).available = capital
         /\ Opened(capital).borrowed = 0
BY DEF Opened, Book

(***************************************************************************)
(* add_capital, field by field.                                            *)
(***************************************************************************)
LEMMA FundedBook ==
  ASSUME NEW book \in Book, NEW amount \in Int
  PROVE  /\ Funded(book, amount) \in Book
         /\ Funded(book, amount).main = book.main + amount
         /\ Funded(book, amount).available = book.available + amount
         /\ Funded(book, amount).borrowed = book.borrowed
         /\ Funded(book, amount).deleted = book.deleted
<1> DEFINE x == book.main + amount
           y == book.available + amount
<1>1. x \in Int /\ y \in Int
  BY DEF Book
<1>2. Funded(book, amount) = [book EXCEPT !.main = x, !.available = y]
  BY DEF Funded
<1> HIDE DEF x, y
<1>3. [book EXCEPT !.main = x, !.available = y] \in Book
  BY <1>1 DEF Book
<1>4. Funded(book, amount) \in Book
  BY <1>2, <1>3, Zenon
<1> QED
  BY <1>4 DEF Funded, Book

(***************************************************************************)
(* borrow_capital, field by field.                                         *)
(***************************************************************************)
LEMMA LentBook ==
  ASSUME NEW book \in Book, NEW amount \in Int
  PROVE  /\ Lent(book, amount) \in Book
         /\ Lent(book, amount).main = book.main
         /\ Lent(book, amount).available = book.available - amount
         /\ Lent(book, amount).borrowed = book.borrowed + amount
         /\ Lent(book, amount).deleted = book.deleted
<1> DEFINE x == book.available - amount
           y == book.borrowed + amount
<1>1. x \in Int /\ y \in Int
  BY DEF Book
<1>2. Lent(book, amount) = [book EXCEPT !.available = x, !.borrowed = y]
  BY DEF Lent
<1> HIDE DEF x, y
<1>3. [book EXCEPT !.available = x, !.borrowed = y] \in Book
  BY <1>1 DEF Book
<1>4. Lent(book, amount) \in Book
  BY <1>2, <1>3, Zenon
<1> QED
  BY <1>4 DEF Lent, Book

(***************************************************************************)
(* return_capital, field by field.                                         *)
(***************************************************************************)
LEMMA ReturnedBook ==
  ASSUME NEW book \in Book, NEW original \in Int, NEW final \in Int
  PROVE  /\ Returned(book, original, final) \in Book
         /\ Returned(book, original, final).main = book.main
         /\ Returned(book, original, final).available = book.available + final
         /\ Returned(book, original, final).borrowed = book.borrowed - original
         /\ Returned(book, original, final).deleted = book.deleted
<1> DEFINE x == book.available + final
           y == book.borrowed - original
<1>1. x \in Int /\ y \in Int
  BY DEF Book
<1>2. Returned(book, original, final) = [book EXCEPT !.available = x, !.borrowed = y]
  BY DEF Returned
<1> HIDE DEF x, y
<1>3. [book EXCEPT !.available = x, !.borrowed = y] \in Book
  BY <1>1 DEF Book
<1>4. Returned(book, original, final) \in Book
  BY <1>2, <1>3, Zenon
<1> QED
  BY <1>4 DEF Returned, Book

(***************************************************************************)
(* soft_delete, field by field.                                            *)
(***************************************************************************)
LEMMA DeletedBook ==
  ASSUME NEW book \in Book
  PROVE  /\ [book EXCEPT !.deleted = TRUE] \in Book
         /\ [book EXCEPT !.deleted = TRUE].main = book.main
         /\ [book EXCEPT !.deleted = TRUE].available = book.available
         /\ [book EXCEPT !.deleted = TRUE].borrowed = book.borrowed
         /\ [book EXCEPT !.deleted = TRUE].deleted = TRUE
BY DEF Book

(***************************************************************************)
(* A borrow that is returned keeps its book and its amount.                *)
(***************************************************************************)
LEMMA ReturnedBorrow ==
  ASSUME NEW borrow \in Borrow
  PROVE  /\ [borrow EXCEPT !.returned = TRUE] \in Borrow
         /\ [borrow EXCEPT !.returned = TRUE].book = borrow.book
         /\ [borrow EXCEPT !.returned = TRUE].original = borrow.original
         /\ [borrow EXCEPT !.returned = TRUE].returned = TRUE
BY DEF Borrow

-------------------------------------------------------------------------------
(***************************************************************************)
(* A workbook that agrees with what its borrows lent and realized and with *)
(* its events; every call on a workbook keeps it so.                       *)
(***************************************************************************)
OwnerEvents == {"Created", "CapitalAdded"}

BookOK(book, lent, result, events) ==
  /\ book.borrowed = lent
  /\ book.available + book.borrowed = book.main + result
  /\ book.available >= 0
  /\ book.main = Logged(events, OwnerEvents)
  /\ book.available = book.main - Logged(events, {"ActivityBorrow"})
                                + Logged(events, {"ActivityReturn"})

(***************************************************************************)
(* What push_event does to the three totals that are replayed.             *)
(***************************************************************************)
LEMMA AppendEvent ==
  ASSUME NEW events \in Seq(Event), NEW e \in Event
  PROVE  /\ Append(events, e) \in Seq(Event)
         /\ Logged(events, OwnerEvents) \in Int
         /\ Logged(events, {"ActivityBorrow"}) \in Int
         /\ Logged(events, {"ActivityReturn"}) \in Int
         /\ Logged(Append(events, e), OwnerEvents)
              = Logged(events, OwnerEvents) + (IF e.type \in OwnerEvents THEN e.amount ELSE 0)
         /\ Logged(Append(events, e), {"ActivityBorrow"})
              = Logged(events, {"ActivityBorrow"}) + (IF e.type = "ActivityBorrow" THEN e.amount ELSE 0)
         /\ Logged(Append(events, e), {"ActivityReturn"})
              = Logged(events, {"ActivityReturn"}) + (IF e.type = "ActivityReturn" THEN e.amount ELSE 0)
BY LoggedType, LoggedAppend

(***************************************************************************)
(* The capital of a workbook is integers.                                  *)
(***************************************************************************)
LEMMA BookInts ==
  ASSUME NEW book \in Book
  PROVE  book.main \in Int /\ book.available \in Int /\ book.borrowed \in Int
BY DEF Book

(***************************************************************************)
(* create opens a workbook whose books are right.                          *)
(***************************************************************************)
LEMMA OpenedOK ==
  ASSUME NEW capital \in Nat, NEW lent \in Int, NEW result \in Int,
         BookOK(NoBook, lent, result, << >>)
  PROVE  BookOK(Opened(capital), lent, result,
                Append(<< >>, [type |-> "Created", amount |-> capital]))
<1> DEFINE e == [type |-> "Created", amount |-> capital]
           events == Append(<< >>, e)
<1>1. lent = 0 /\ result = 0
  BY DEF BookOK, NoBook
<1>2. e \in Event /\ e.type = "Created" /\ e.amount = capital /\ << >> \in Seq(Event)
  BY DEF Event
<1> HIDE DEF e
<1>3. /\ Logged(events, OwnerEvents) = capital
      /\ Logged(events, {"ActivityBorrow"}) = 0
      /\ Logged(events, {"ActivityReturn"}) = 0
  <2>1. /\ Logged(<< >>, OwnerEvents) = 0
        /\ Logged(<< >>, {"ActivityBorrow"}) = 0
        /\ Logged(<< >>, {"ActivityReturn"}) = 0
    BY LoggedNothing
  <2>2. /\ Logged(events, OwnerEvents)
             = Logged(<< >>, OwnerEvents) + (IF e.type \in OwnerEvents THEN e.amount ELSE 0)
        /\ Logged(events, {"ActivityBorrow"})
             = Logged(<< >>, {"ActivityBorrow"}) + (IF e.type = "ActivityBorrow" THEN e.amount ELSE 0)
        /\ Logged(events, {"ActivityReturn"})
             = Logged(<< >>, {"ActivityReturn"}) + (IF e.type = "ActivityReturn" THEN e.amount ELSE 0)
    BY <1>2, AppendEvent
  <2> HIDE DEF events
  <2> QED
    BY <1>2, <2>1, <2>2 DEF OwnerEvents
<1> HIDE DEF events
<1>4. /\ Opened(capital).main = capital /\ Opened(capital).available = capital
      /\ Opened(capital).borrowed = 0
  BY OpenedBook
<1>5. BookOK(Opened(capital), lent, result, events)
  BY <1>1, <1>3, <1>4 DEF BookOK
<1> QED
  BY <1>5 DEF events, e

(***************************************************************************)
(* add_capital keeps the books of a workbook right.                        *)
(***************************************************************************)
LEMMA FundedOK ==
  ASSUME NEW book \in Book, NEW lent \in Int, NEW result \in Int, NEW events \in Seq(Event),
         NEW amount \in Nat, BookOK(book, lent, result, events)
  PROVE  BookOK(Funded(book, amount), lent, result,
                Append(events, [type |-> "CapitalAdded", amount |-> amount]))
<1> DEFINE e == [type |-> "CapitalAdded", amount |-> amount]
           new == Append(events, e)
<1>1. e \in Event /\ e.type = "CapitalAdded" /\ e.amount = amount
  BY DEF Event
<1> HIDE DEF e
<1>2. /\ Logged(new, OwnerEvents) = Logged(events, OwnerEvents) + amount
      /\ Logged(new, {"ActivityBorrow"}) = Logged(events, {"ActivityBorrow"})
      /\ Logged(new, {"ActivityReturn"}) = Logged(events, {"ActivityReturn"})
      /\ Logged(events, OwnerEvents) \in Int
      /\ Logged(events, {"ActivityBorrow"}) \in Int
      /\ Logged(events, {"ActivityReturn"}) \in Int
  BY <1>1, AppendEvent DEF OwnerEvents
<1> HIDE DEF new
<1>3. BookOK(Funded(book, amount), lent, result, new)
  <2> DEFINE k == Funded(book, amount)
  <2>1. amount \in Int
    OBVIOUS
  <2>2. k \in Book
    BY <2>1, FundedBook
  <2>3. /\ k.main = book.main + amount /\ k.available = book.available + amount
        /\ k.borrowed = book.borrowed
    BY <2>1, FundedBook
  <2> HIDE DEF k
  <2>4. /\ k.main \in Int /\ k.available \in Int /\ k.borrowed \in Int
        /\ book.main \in Int /\ book.available \in Int /\ book.borrowed \in Int
    BY <2>2, BookInts
  <2>5. /\ book.borrowed = lent
        /\ book.available + book.borrowed = book.main + result
        /\ book.available >= 0
    BY DEF BookOK
  <2>6. /\ book.main = Logged(events, OwnerEvents)
        /\ book.available = book.main - Logged(events, {"ActivityBorrow"})
                                      + Logged(events, {"ActivityReturn"})
    BY DEF BookOK
  <2>7. BookOK(k, lent, result, new)
    <3>1. k.borrowed = lent
      BY <2>3, <2>5
    <3>2. k.available + k.borrowed = k.main + result
      <4>1. PICK a \in Int, b \in Int, m \in Int :
              a = book.available /\ b = book.borrowed /\ m = book.main
        BY <2>4
      <4>2. a + b = m + result
        BY <2>5, <4>1
      <4>3. (a + amount) + b = (m + amount) + result
        BY <2>1, <4>2
      <4>4. k.available = a + amount /\ k.borrowed = b /\ k.main = m + amount
        BY <2>3, <4>1
      <4> QED
        BY <4>3, <4>4
    <3>3. k.available >= 0
      BY <2>1, <2>3, <2>4, <2>5
    <3>4. k.main = Logged(new, OwnerEvents)
      BY <1>2, <2>3, <2>6
    <3>5. k.available = k.main - Logged(new, {"ActivityBorrow"})
                             + Logged(new, {"ActivityReturn"})
      BY <1>2, <2>1, <2>3, <2>4, <2>6
    <3> QED
      BY <3>1, <3>2, <3>3, <3>4, <3>5 DEF BookOK
  <2> QED
    BY <2>7 DEF k
<1> QED
  BY <1>3 DEF new, e

(***************************************************************************)
(* borrow_capital keeps the books right when the money is there.           *)
(***************************************************************************)
LEMMA LentOK ==
  ASSUME NEW book \in Book, NEW lent \in Int, NEW result \in Int, NEW events \in Seq(Event),
         NEW amount \in Nat, amount <= book.available, BookOK(book, lent, result, events)
  PROVE  BookOK(Lent(book, amount), lent + amount, result,
                Append(events, [type |-> "ActivityBorrow", amount |-> amount]))
<1> DEFINE e == [type |-> "ActivityBorrow", amount |-> amount]
           new == Append(events, e)
<1>1. e \in Event /\ e.type = "ActivityBorrow" /\ e.amount = amount
  BY DEF Event
<1> HIDE DEF e
<1>2. /\ Logged(new, OwnerEvents) = Logged(events, OwnerEvents)
      /\ Logged(new, {"ActivityBorrow"}) = Logged(events, {"ActivityBorrow"}) + amount
      /\ Logged(new, {"ActivityReturn"}) = Logged(events, {"ActivityReturn"})
      /\ Logged(events, OwnerEvents) \in Int
      /\ Logged(events, {"ActivityBorrow"}) \in Int
      /\ Logged(events, {"ActivityReturn"}) \in Int
  BY <1>1, AppendEvent DEF OwnerEvents
<1> HIDE DEF new
<1>3. BookOK(Lent(book, amount), lent + amount, result, new)
  <2> DEFINE k == Lent(book, amount)
  <2>1. amount \in Int
    OBVIOUS
  <2>2. k \in Book
    BY <2>1, LentBook
  <2>3. /\ k.main = book.main /\ k.available = book.available - amount
        /\ k.borrowed = book.borrowed + amount
    BY <2>1, LentBook
  <2> HIDE DEF k
  <2>4. /\ k.main \in Int /\ k.available \in Int /\ k.borrowed \in Int
        /\ book.main \in Int /\ book.available \in Int /\ book.borrowed \in Int
    BY <2>2, BookInts
  <2>5. /\ book.borrowed = lent
        /\ book.available + book.borrowed = book.main + result
        /\ book.available >= 0
    BY DEF BookOK
  <2>6. /\ book.main = Logged(events, OwnerEvents)
        /\ book.available = book.main - Logged(events, {"ActivityBorrow"})
                                      + Logged(events, {"ActivityReturn"})
    BY DEF BookOK
  <2>7. BookOK(k, lent + amount, result, new)
    <3>1. k.borrowed = lent + amount
      BY <2>3, <2>5
    <3>2. k.available + k.borrowed = k.main + result
      <4>1. PICK a \in Int, b \in Int, m \in Int :
              a = book.available /\ b = book.borrowed /\ m = book.main
        BY <2>4
      <4>2. a + b = m + result
        BY <2>5, <4>1
      <4>3. (a - amount) + (b + amount) = m + result
        BY <2>1, <4>2
      <4>4. k.available = a - amount /\ k.borrowed = b + amount /\ k.main = m
        BY <2>3, <4>1
      <4> QED
        BY <4>3, <4>4
    <3>3. k.available >= 0
      BY <2>1, <2>3, <2>4, <2>5
    <3>4. k.main = Logged(new, OwnerEvents)
      BY <1>2, <2>3, <2>6
    <3>5. k.available = k.main - Logged(new, {"ActivityBorrow"})
                             + Logged(new, {"ActivityReturn"})
      BY <1>2, <2>1, <2>3, <2>4, <2>6
    <3> QED
      BY <3>1, <3>2, <3>3, <3>4, <3>5 DEF BookOK
  <2> QED
    BY <2>7 DEF k
<1> QED
  BY <1>3 DEF new, e

(***************************************************************************)
(* return_capital keeps the books right whatever the result of the run, as *)
(* long as it comes back with what it settles to.                          *)
(***************************************************************************)
LEMMA ReturnedOK ==
  ASSUME NEW book \in Book, NEW lent \in Int, NEW result \in Int, NEW events \in Seq(Event),
         NEW original \in Int, NEW gain \in Int, NEW final \in Nat, final = original + gain,
         BookOK(book, lent, result, events)
  PROVE  BookOK(Returned(book, original, final), lent - original, result + gain,
                Append(events, [type |-> "ActivityReturn", amount |-> final]))
<1> DEFINE e == [type |-> "ActivityReturn", amount |-> final]
           new == Append(events, e)
<1>1. e \in Event /\ e.type = "ActivityReturn" /\ e.amount = final
  BY DEF Event
<1> HIDE DEF e
<1>2. /\ Logged(new, OwnerEvents) = Logged(events, OwnerEvents)
      /\ Logged(new, {"ActivityBorrow"}) = Logged(events, {"ActivityBorrow"})
      /\ Logged(new, {"ActivityReturn"}) = Logged(events, {"ActivityReturn"}) + final
      /\ Logged(events, OwnerEvents) \in Int
      /\ Logged(events, {"ActivityBorrow"}) \in Int
      /\ Logged(events, {"ActivityReturn"}) \in Int
  BY <1>1, AppendEvent DEF OwnerEvents
<1> HIDE DEF new
<1>3. BookOK(Returned(book, original, final), lent - original, result + gain, new)
  <2> DEFINE k == Returned(book, original, final)
  <2>1. final \in Int
    OBVIOUS
  <2>2. k \in Book
    BY <2>1, ReturnedBook
  <2>3. /\ k.main = book.main /\ k.available = book.available + final
        /\ k.borrowed = book.borrowed - original
    BY <2>1, ReturnedBook
  <2> HIDE DEF k
  <2>4. /\ k.main \in Int /\ k.available \in Int /\ k.borrowed \in Int
        /\ book.main \in Int /\ book.available \in Int /\ book.borrowed \in Int
    BY <2>2, BookInts
  <2>5. /\ book.borrowed = lent
        /\ book.available + book.borrowed = book.main + result
        /\ book.available >= 0
    BY DEF BookOK
  <2>6. /\ book.main = Logged(events, OwnerEvents)
        /\ book.available = book.main - Logged(events, {"ActivityBorrow"})
                                      + Logged(events, {"ActivityReturn"})
    BY DEF BookOK
  <2>7. BookOK(k, lent - original, result + gain, new)
    <3>1. k.borrowed = lent - original
      BY <2>3, <2>5
    <3>2. k.available + k.borrowed = k.main + (result + gain)
      <4>1. PICK a \in Int, b \in Int, m \in Int :
              a = book.available /\ b = book.borrowed /\ m = book.main
        BY <2>4
      <4>2. a + b = m + result
        BY <2>5, <4>1
      <4>3. (a + final) + (b - original) = m + (result + gain)
        BY <2>1, <4>2
      <4>4. k.available = a + final /\ k.borrowed = b - original /\ k.main = m
        BY <2>3, <4>1
      <4> QED
        BY <4>3, <4>4
    <3>3. k.available >= 0
      <4>1. PICK a \in Int : a = book.available
        BY <2>4
      <4>2. a >= 0
        BY <2>5, <4>1
      <4>3. a + final >= 0
        BY <4>2
      <4> QED
        BY <2>3, <4>1, <4>3
    <3>4. k.main = Logged(new, OwnerEvents)
      BY <1>2, <2>3, <2>6
    <3>5. k.available = k.main - Logged(new, {"ActivityBorrow"})
                             + Logged(new, {"ActivityReturn"})
      BY <1>2, <2>1, <2>3, <2>4, <2>6
    <3> QED
      BY <3>1, <3>2, <3>3, <3>4, <3>5 DEF BookOK
  <2> QED
    BY <2>7 DEF k
<1> QED
  BY <1>3 DEF new, e

-------------------------------------------------------------------------------
(***************************************************************************)
(* The invariant: what is not created or made yet is blank, a ledger knows *)
(* what was borrowed, a returned borrow's run is over, its ledger empty;   *)
(* and every workbook agrees with its borrows and its events.              *)
(***************************************************************************)
BorrowsOK ==
  /\ \A b \in BorrowIds : Made(b) => /\ borrows[b].book \in BookIds
                                     /\ borrows[b].book < nextBook
                                     /\ ledgers[b].borrowed = borrows[b].original
  /\ \A b \in BorrowIds : ~ Made(b) => borrows[b] = NoBorrow /\ b \notin ended
  /\ \A b \in BorrowIds : borrows[b].returned => b \in ended /\ Settled(ledgers[b])

BlankBooks ==
  \A id \in BookIds : ~ Created(id) => books[id] = NoBook /\ log[id] = << >>

LentTo(bs, id)       == SumUpTo(LentBy(bs, id), MaxBorrows)
ResultTo(bs, ls, id) == SumUpTo(ResultOf(bs, ls, id), MaxBorrows)

BooksOK ==
  \A id \in BookIds :
    BookOK(books[id], LentTo(borrows, id), ResultTo(borrows, ledgers, id), log[id])

IInv == TypeOK /\ BorrowsOK /\ BlankBooks /\ BooksOK /\ OnlyDebtsStayLent

(***************************************************************************)
(* The sums are integers, for any borrows and ledgers of the right type.   *)
(***************************************************************************)
LEMMA SumTypes ==
  ASSUME NEW bs \in BorrowMap, NEW ls, \A b \in BorrowIds : ls[b].realized \in Int, NEW id
  PROVE  LentTo(bs, id) \in Int /\ ResultTo(bs, ls, id) \in Int
<1>1. /\ LentBy(bs, id) \in [1..MaxBorrows -> Int]
      /\ ResultOf(bs, ls, id) \in [1..MaxBorrows -> Int]
  BY LentTypes, ResultTypes
<1>2. MaxBorrows \in Nat
  BY WorkbookAssumption
<1> QED
  BY <1>1, <1>2, SumType DEF LentTo, ResultTo

(***************************************************************************)
(* The ledgers of the borrows are ledgers.                                 *)
(***************************************************************************)
LEMMA RealizedTypes ==
  TypeOK => /\ \A b \in BorrowIds : ledgers[b].realized \in Int /\ ledgers[b].borrowed \in Int
            /\ \A b \in BorrowIds : ledgers[b] \in LedgerState
BY DEF TypeOK, LedgerOK, LedgerState

(***************************************************************************)
(* With no workbook the invariant holds.                                   *)
(***************************************************************************)
LEMMA InitIInv == Init => IInv
<1> SUFFICES ASSUME Init PROVE IInv
  OBVIOUS
<1>1. TypeOK
  <2>1. books \in [BookIds -> Book]
    BY DEF Init, Book, NoBook
  <2>2. borrows \in [BorrowIds -> Borrow]
    BY DEF Init, Borrow, NoBorrow
  <2>3. \A b \in BorrowIds : LedgerOK(ledgers[b])
    BY NewLedgerOK DEF Init
  <2>4. DOMAIN ledgers = BorrowIds /\ log \in [BookIds -> Seq(Event)] /\ ended \subseteq BorrowIds
    BY DEF Init
  <2>5. nextBook \in 1..(MaxBooks + 1) /\ nextBorrow \in 1..(MaxBorrows + 1)
    BY WorkbookAssumption DEF Init
  <2> QED
    BY <2>1, <2>2, <2>3, <2>4, <2>5 DEF TypeOK
<1>2. BorrowsOK
  <2>1. \A b \in BorrowIds : ~ Made(b) /\ borrows[b] = NoBorrow /\ b \notin ended
    BY WorkbookAssumption DEF Init, Made, BorrowIds
  <2> QED
    BY <2>1 DEF BorrowsOK, NoBorrow
<1>3. BlankBooks
  BY DEF BlankBooks, Init
<1>4. BooksOK
  <2> SUFFICES ASSUME NEW id \in BookIds
               PROVE  BookOK(books[id], LentTo(borrows, id), ResultTo(borrows, ledgers, id), log[id])
    BY DEF BooksOK
  <2>1. borrows \in BorrowMap /\ \A b \in BorrowIds : ledgers[b].realized \in Int
    BY <1>1, RealizedTypes DEF BorrowMap, TypeOK
  <2>2. /\ LentBy(borrows, id) \in [1..MaxBorrows -> Int]
        /\ ResultOf(borrows, ledgers, id) \in [1..MaxBorrows -> Int]
    BY <2>1, LentTypes, ResultTypes
  <2>3. \A b \in 1..MaxBorrows : LentBy(borrows, id)[b] = 0 /\ ResultOf(borrows, ledgers, id)[b] = 0
    BY DEF Init, LentBy, ResultOf, NoBorrow, BorrowIds
  <2>4. MaxBorrows \in Nat
    BY WorkbookAssumption
  <2>5. LentTo(borrows, id) = 0 /\ ResultTo(borrows, ledgers, id) = 0
    BY <2>2, <2>3, <2>4, SumOfZeros DEF LentTo, ResultTo
  <2>6. books[id] = NoBook /\ log[id] = << >>
    BY DEF Init
  <2> HIDE DEF Init
  <2> QED
    BY <2>5, <2>6, LoggedNothing DEF BookOK, NoBook
<1>5. OnlyDebtsStayLent
  BY DEF OnlyDebtsStayLent, Init
<1> QED
  BY <1>1, <1>2, <1>3, <1>4, <1>5 DEF IInv

(***************************************************************************)
(* The containers of a run that has not ended change nothing but its       *)
(* ledger, and never what was borrowed.                                    *)
(***************************************************************************)
LEMMA OpsKeepBorrowed ==
  ASSUME NEW l \in LedgerState, NEW c \in ContainerIds, NEW amount, NEW mode, NEW value
  PROVE  /\ Take(l, c, amount, mode).borrowed = l.borrowed
         /\ CommitReal(l, c).borrowed = l.borrowed
         /\ GiveBack(l, c, value).borrowed = l.borrowed
<1>1. Take(l, c, amount, mode).borrowed = l.borrowed
  BY DEF Take, LedgerState
<1>2. CommitReal(l, c).borrowed = l.borrowed
  BY DEF CommitReal, LedgerState
<1>3. GiveBack(l, c, value).borrowed = l.borrowed
  BY DEF GiveBack, LedgerState
<1> QED
  BY <1>1, <1>2, <1>3

(***************************************************************************)
(* A ledger that is still with its run may change in any way that keeps it *)
(* a ledger of the same borrow.                                            *)
(***************************************************************************)
LEMMA LedgerStepIInv ==
  ASSUME IInv, NEW b \in BorrowIds, RunHolds(b), NEW new, LedgerOK(new),
         new.borrowed = ledgers[b].borrowed, LedgerStep(b, new)
  PROVE  IInv'
<1>1. /\ books' = books /\ borrows' = borrows /\ nextBook' = nextBook
      /\ nextBorrow' = nextBorrow /\ log' = log /\ ended' = ended
      /\ ledgers' = [ledgers EXCEPT ![b] = new]
  BY DEF LedgerStep
<1>2. /\ TypeOK /\ BorrowsOK /\ BlankBooks /\ BooksOK /\ OnlyDebtsStayLent
      /\ Made(b) /\ b \notin ended
  BY DEF IInv, RunHolds
<1>3. /\ DOMAIN ledgers' = BorrowIds
      /\ ledgers'[b] = new
      /\ \A a \in BorrowIds \ {b} : ledgers'[a] = ledgers[a]
  BY <1>1, <1>2 DEF TypeOK
<1>4. ~ borrows[b].returned
  BY <1>2 DEF BorrowsOK
<1>5. TypeOK'
  <2>1. \A a \in BorrowIds : LedgerOK(ledgers'[a])
    BY <1>2, <1>3 DEF TypeOK
  <2> QED
    BY <1>1, <1>2, <1>3, <2>1 DEF TypeOK
<1>6. BorrowsOK'
  <2>1. \A a \in BorrowIds : Made(a) => ledgers'[a].borrowed = borrows[a].original
    BY <1>2, <1>3 DEF BorrowsOK
  <2>2. \A a \in BorrowIds : borrows[a].returned => Settled(ledgers'[a])
    BY <1>2, <1>3, <1>4 DEF BorrowsOK
  <2> QED
    BY <1>1, <1>2, <2>1, <2>2 DEF BorrowsOK, Made, Created
<1>7. BlankBooks'
  BY <1>1, <1>2 DEF BlankBooks, Created
<1>8. BooksOK'
  <2>1. ASSUME NEW id \in BookIds
        PROVE  ResultTo(borrows, ledgers', id) = ResultTo(borrows, ledgers, id)
    <3>1. \A a \in BorrowIds : borrows[a].returned => ledgers'[a] = ledgers[a]
      BY <1>3, <1>4
    <3>2. ResultOf(borrows, ledgers', id) = ResultOf(borrows, ledgers, id)
      BY <3>1, ResultSame
    <3> QED
      BY <3>2 DEF ResultTo
  <2> QED
    BY <1>1, <1>2, <2>1 DEF BooksOK
<1>9. OnlyDebtsStayLent'
  <2>1. \A a \in ended : ledgers'[a] = ledgers[a]
    BY <1>2, <1>3 DEF TypeOK
  <2> QED
    BY <1>1, <1>2, <2>1 DEF OnlyDebtsStayLent
<1> QED
  BY <1>5, <1>6, <1>7, <1>8, <1>9 DEF IInv

(***************************************************************************)
(* What a container does with the ledger keeps the invariant.              *)
(***************************************************************************)
LEMMA ContainersIInv ==
  ASSUME IInv, NEW b \in BorrowIds, NEW c \in ContainerIds
  PROVE  /\ \A amount \in LoanAmounts, mode \in Modes : Allocate(b, c, amount, mode) => IInv'
         /\ Upgrade(b, c) => IInv'
         /\ \A value \in Values : Release(b, c, value) => IInv'
<1>1. LedgerOK(ledgers[b]) /\ ledgers[b] \in LedgerState
  BY DEF IInv, TypeOK, LedgerOK
<1>2. ASSUME NEW amount \in LoanAmounts, NEW mode \in Modes, Allocate(b, c, amount, mode)
      PROVE  IInv'
  <2>1. amount \in Int
    BY WorkbookAssumption
  <2>2. LedgerOK(Take(ledgers[b], c, amount, mode))
    BY <1>1, <1>2, <2>1, TakeKeepsLedgerOK DEF Allocate
  <2> QED
    BY <1>1, <1>2, <2>2, OpsKeepBorrowed, LedgerStepIInv DEF Allocate
<1>3. ASSUME Upgrade(b, c) PROVE IInv'
  <2>1. LedgerOK(CommitReal(ledgers[b], c))
    BY <1>1, <1>3, CommitRealKeepsLedgerOK DEF Upgrade
  <2> QED
    BY <1>1, <1>3, <2>1, OpsKeepBorrowed, LedgerStepIInv DEF Upgrade
<1>4. ASSUME NEW value \in Values, Release(b, c, value) PROVE IInv'
  <2>1. value \in Int
    BY WorkbookAssumption
  <2>2. LedgerOK(GiveBack(ledgers[b], c, value))
    BY <1>1, <1>4, <2>1, GiveBackKeepsLedgerOK DEF Release
  <2> QED
    BY <1>1, <1>4, <2>2, OpsKeepBorrowed, LedgerStepIInv DEF Release
<1> QED
  BY <1>2, <1>3, <1>4

(***************************************************************************)
(* The owner's calls change one workbook and its events.                   *)
(***************************************************************************)
LEMMA BookStepIInv ==
  ASSUME IInv, NEW id \in BookIds, NEW book \in Book, NEW events \in Seq(Event),
         UNCHANGED <<borrows, ledgers, nextBorrow, ended>>,
         nextBook' \in 1..(MaxBooks + 1), nextBook <= nextBook', id < nextBook',
         books' = [books EXCEPT ![id] = book], log' = [log EXCEPT ![id] = events],
         BookOK(book, LentTo(borrows, id), ResultTo(borrows, ledgers, id), events)
  PROVE  IInv'
<1>1. /\ borrows' = borrows /\ ledgers' = ledgers /\ nextBorrow' = nextBorrow /\ ended' = ended
      /\ TypeOK /\ BorrowsOK /\ BlankBooks /\ BooksOK /\ OnlyDebtsStayLent
  BY DEF IInv
<1>2. /\ books'[id] = book /\ log'[id] = events
      /\ \A j \in BookIds \ {id} : books'[j] = books[j] /\ log'[j] = log[j]
  BY <1>1 DEF TypeOK
<1>3. TypeOK'
  <2>1. books' \in [BookIds -> Book] /\ log' \in [BookIds -> Seq(Event)]
    BY <1>1 DEF TypeOK
  <2> QED
    BY <1>1, <2>1 DEF TypeOK
<1>4. \A j \in BookIds : Created(j) => Created(j)'
  BY <1>1, WorkbookAssumption DEF Created, BookIds, TypeOK
<1>5. BorrowsOK'
  <2>1. \A b \in BorrowIds : Made(b) => borrows[b].book \in Int /\ borrows[b].book < nextBook'
    BY <1>1, WorkbookAssumption DEF BorrowsOK, BookIds, TypeOK
  <2> QED
    BY <1>1, <2>1 DEF BorrowsOK, Made
<1>6. BlankBooks'
  <2> SUFFICES ASSUME NEW j \in BookIds, ~ Created(j)'
               PROVE  books'[j] = NoBook /\ log'[j] = << >>
    BY DEF BlankBooks
  <2>1. j # id
    BY DEF Created
  <2>2. ~ Created(j)
    BY <1>4
  <2> QED
    BY <1>1, <1>2, <2>1, <2>2 DEF BlankBooks
<1>7. BooksOK'
  BY <1>1, <1>2 DEF BooksOK
<1>8. OnlyDebtsStayLent'
  BY <1>1 DEF OnlyDebtsStayLent
<1> QED
  BY <1>3, <1>5, <1>6, <1>7, <1>8 DEF IInv

(***************************************************************************)
(* What the invariant says of one workbook.                                *)
(***************************************************************************)
LEMMA CurrentBook ==
  ASSUME IInv, NEW id \in BookIds
  PROVE  /\ books[id] \in Book /\ log[id] \in Seq(Event)
         /\ LentTo(borrows, id) \in Int /\ ResultTo(borrows, ledgers, id) \in Int
         /\ BookOK(books[id], LentTo(borrows, id), ResultTo(borrows, ledgers, id), log[id])
         /\ nextBook \in Nat
<1>1. books[id] \in Book /\ log[id] \in Seq(Event) /\ nextBook \in Nat
  BY DEF IInv, TypeOK
<1>2. borrows \in BorrowMap /\ \A b \in BorrowIds : ledgers[b].realized \in Int
  BY RealizedTypes DEF IInv, TypeOK, BorrowMap
<1>3. LentTo(borrows, id) \in Int /\ ResultTo(borrows, ledgers, id) \in Int
  BY <1>2, SumTypes
<1> QED
  BY <1>1, <1>3 DEF IInv, BooksOK

(***************************************************************************)
(* create keeps the invariant.                                             *)
(***************************************************************************)
LEMMA CreateIInv ==
  ASSUME IInv, NEW amount \in BookAmounts, Create(amount)
  PROVE  IInv'
<1> DEFINE capital == IF amount < 0 THEN 0 ELSE amount
           id == nextBook
           events == Append(<< >>, [type |-> "Created", amount |-> capital])
<1>1. /\ nextBook <= MaxBooks /\ nextBook' = nextBook + 1
      /\ books' = [books EXCEPT ![id] = Opened(capital)]
      /\ log' = [log EXCEPT ![id] = Append(@, [type |-> "Created", amount |-> capital])]
      /\ UNCHANGED <<borrows, ledgers, nextBorrow, ended>>
  BY DEF Create, PushEvent
<1>2. capital \in Nat
  BY WorkbookAssumption
<1>3. nextBook \in 1..(MaxBooks + 1) /\ MaxBooks \in Nat
  BY WorkbookAssumption DEF IInv, TypeOK
<1>4. id \in BookIds /\ ~ Created(id)
  BY <1>1, <1>3 DEF BookIds, Created
<1>5. books[id] = NoBook /\ log[id] = << >>
  BY <1>4 DEF IInv, BlankBooks
<1>6. BookOK(NoBook, LentTo(borrows, id), ResultTo(borrows, ledgers, id), << >>)
  BY <1>4, <1>5 DEF IInv, BooksOK
<1> HIDE DEF capital
<1>7. BookOK(Opened(capital), LentTo(borrows, id), ResultTo(borrows, ledgers, id), events)
  BY <1>2, <1>4, <1>6, CurrentBook, OpenedOK
<1>8. /\ Opened(capital) \in Book
      /\ events \in Seq(Event)
  <2>1. [type |-> "Created", amount |-> capital] \in Event
    BY <1>2 DEF Event
  <2> QED
    BY <1>2, <2>1, OpenedBook
<1>9. log' = [log EXCEPT ![id] = events]
  BY <1>1, <1>5
<1>10. nextBook' \in 1..(MaxBooks + 1) /\ nextBook <= nextBook' /\ id < nextBook'
  BY <1>1, <1>3
<1> HIDE DEF events, id
<1> QED
  BY <1>1, <1>4, <1>7, <1>8, <1>9, <1>10, BookStepIInv

(***************************************************************************)
(* add_capital keeps the invariant.                                        *)
(***************************************************************************)
LEMMA AddCapitalIInv ==
  ASSUME IInv, NEW id \in BookIds, NEW amount \in BookAmounts, AddCapital(id, amount)
  PROVE  IInv'
<1> DEFINE e == [type |-> "CapitalAdded", amount |-> amount]
           book == Funded(books[id], amount)
           events == Append(log[id], e)
<1>1. /\ Created(id) /\ amount > 0 /\ nextBook' = nextBook
      /\ books' = [books EXCEPT ![id] = book]
      /\ log' = [log EXCEPT ![id] = events]
      /\ UNCHANGED <<borrows, ledgers, nextBorrow, ended>>
  BY DEF AddCapital, PushEvent
<1>2. amount \in Nat /\ amount \in Int
  BY <1>1, WorkbookAssumption
<1>3. BookOK(book, LentTo(borrows, id), ResultTo(borrows, ledgers, id), events)
  BY <1>2, CurrentBook, FundedOK
<1>4. book \in Book /\ events \in Seq(Event)
  <2>1. e \in Event
    BY <1>2 DEF Event
  <2>2. books[id] \in Book /\ log[id] \in Seq(Event)
    BY CurrentBook
  <2>3. book \in Book
    BY <1>2, <2>2, FundedBook
  <2> HIDE DEF e
  <2> QED
    BY <2>1, <2>2, <2>3
<1>5. nextBook' \in 1..(MaxBooks + 1) /\ nextBook <= nextBook' /\ id < nextBook'
  BY <1>1, CurrentBook DEF IInv, TypeOK, Created
<1> HIDE DEF book, events
<1> QED
  BY <1>1, <1>3, <1>4, <1>5, BookStepIInv

(***************************************************************************)
(* soft_delete keeps the invariant.                                        *)
(***************************************************************************)
LEMMA SoftDeleteIInv ==
  ASSUME IInv, NEW id \in BookIds, SoftDelete(id)
  PROVE  IInv'
<1> DEFINE book == [books[id] EXCEPT !.deleted = TRUE]
<1>1. /\ Created(id) /\ nextBook' = nextBook
      /\ books' = [books EXCEPT ![id] = book]
      /\ UNCHANGED <<borrows, ledgers, nextBorrow, ended>>
  BY DEF SoftDelete
<1>2. log' = [log EXCEPT ![id] = log[id]]
  BY DEF SoftDelete, IInv, TypeOK
<1>3. /\ book \in Book /\ book.main = books[id].main /\ book.available = books[id].available
      /\ book.borrowed = books[id].borrowed
  BY CurrentBook, DeletedBook
<1>4. log[id] \in Seq(Event)
  BY CurrentBook
<1> HIDE DEF book
<1>5. BookOK(book, LentTo(borrows, id), ResultTo(borrows, ledgers, id), log[id])
  BY <1>3, CurrentBook DEF BookOK
<1>6. nextBook' \in 1..(MaxBooks + 1) /\ nextBook <= nextBook' /\ id < nextBook'
  BY <1>1, CurrentBook DEF IInv, TypeOK, Created
<1> QED
  BY <1>1, <1>2, <1>3, <1>4, <1>5, <1>6, BookStepIInv

(***************************************************************************)
(* borrow_capital moves money from a workbook to a new ledger.             *)
(***************************************************************************)
LEMMA BorrowIInv ==
  ASSUME IInv, NEW id \in BookIds, NEW amount \in LoanAmounts, BorrowCapital(id, amount)
  PROVE  IInv'
<1> DEFINE n == nextBorrow
           new == [book |-> id, original |-> amount, returned |-> FALSE]
           e == [type |-> "ActivityBorrow", amount |-> amount]
           book == Lent(books[id], amount)
           events == Append(log[id], e)
<1>1. /\ Created(id) /\ amount > 0 /\ books[id].available >= amount
      /\ n <= MaxBorrows /\ nextBorrow' = n + 1 /\ nextBook' = nextBook /\ ended' = ended
  BY DEF BorrowCapital, BorrowOk
<1>0. /\ books' = [books EXCEPT ![id] = book]
      /\ borrows' = [borrows EXCEPT ![n] = new]
      /\ ledgers' = [ledgers EXCEPT ![n] = NewLedger(amount)]
      /\ log' = [log EXCEPT ![id] = events]
  BY DEF BorrowCapital, PushEvent
<1>2. amount \in Nat /\ amount \in Int /\ MaxBorrows \in Nat
  BY <1>1, WorkbookAssumption
<1>3. /\ TypeOK /\ BorrowsOK /\ BlankBooks /\ BooksOK /\ OnlyDebtsStayLent
  BY DEF IInv
<1>4. /\ n \in BorrowIds /\ ~ Made(n)
      /\ borrows[n] = NoBorrow /\ n \notin ended
  <2>1. n \in BorrowIds
    BY <1>1, <1>2, <1>3 DEF BorrowIds, TypeOK
  <2>2. ~ Made(n)
    BY <2>1, <1>2 DEF Made, BorrowIds
  <2> QED
    BY <1>3, <2>1, <2>2 DEF BorrowsOK
<1>5. /\ new \in Borrow /\ new.book = id /\ new.original = amount /\ new.returned = FALSE
  BY <1>2 DEF Borrow
<1>6. /\ borrows'[n] = new
      /\ \A b \in BorrowIds \ {n} : borrows'[b] = borrows[b]
      /\ borrows' \in BorrowMap /\ borrows \in BorrowMap
  <2>1. borrows \in BorrowMap
    BY <1>3 DEF TypeOK, BorrowMap
  <2> HIDE DEF new
  <2> QED
    BY <1>0, <1>4, <1>5, <2>1 DEF BorrowMap
<1>7. /\ DOMAIN ledgers' = BorrowIds
      /\ ledgers'[n] = NewLedger(amount)
      /\ \A b \in BorrowIds \ {n} : ledgers'[b] = ledgers[b]
  BY <1>0, <1>3, <1>4 DEF TypeOK
<1>8. /\ books[id] \in Book /\ log[id] \in Seq(Event)
      /\ book \in Book /\ e \in Event
  <2>1. books[id] \in Book /\ log[id] \in Seq(Event)
    BY CurrentBook
  <2>2. e \in Event
    BY <1>2 DEF Event
  <2>3. book \in Book
    BY <1>2, <2>1, LentBook
  <2> QED
    BY <2>1, <2>2, <2>3
<1>9. books' \in [BookIds -> Book] /\ log' \in [BookIds -> Seq(Event)]
  <2> HIDE DEF book, e
  <2> QED
    BY <1>0, <1>3, <1>8 DEF TypeOK
<1>10. /\ books'[id] = book /\ log'[id] = events
       /\ \A j \in BookIds \ {id} : books'[j] = books[j] /\ log'[j] = log[j]
  BY <1>0, <1>3 DEF TypeOK
<1> HIDE DEF n, new, e, book
<1>11. TypeOK'
  <2>1. \A b \in BorrowIds : LedgerOK(ledgers'[b])
    BY <1>2, <1>3, <1>7, NewLedgerOK DEF TypeOK
  <2>2. nextBorrow' \in 1..(MaxBorrows + 1)
    BY <1>1, <1>2, <1>4 DEF BorrowIds
  <2>3. nextBook' \in 1..(MaxBooks + 1) /\ ended' \subseteq BorrowIds
    BY <1>1, <1>3 DEF TypeOK
  <2> QED
    BY <1>6, <1>7, <1>9, <2>1, <2>2, <2>3 DEF TypeOK, BorrowMap
<1>12. \A b \in BorrowIds : Made(b)' <=> Made(b) \/ b = n
  BY <1>1, <1>4 DEF Made, BorrowIds, n
<1>13. NewLedger(amount).borrowed = amount
  BY DEF NewLedger
<1>14. BorrowsOK'
  <2>1. ASSUME NEW b \in BorrowIds, Made(b)'
        PROVE  /\ borrows'[b].book \in BookIds
               /\ borrows'[b].book < nextBook'
               /\ ledgers'[b].borrowed = borrows'[b].original
    <3>1. CASE b = n
      <4>1. borrows'[b] = new /\ ledgers'[b].borrowed = amount
        BY <1>6, <1>7, <1>13, <3>1
      <4> QED
        BY <1>1, <1>5, <4>1 DEF Created
    <3>2. CASE b # n
      <4>1. borrows'[b] = borrows[b] /\ ledgers'[b] = ledgers[b] /\ Made(b)
        BY <1>6, <1>7, <1>12, <2>1, <3>2
      <4>2. /\ borrows[b].book \in BookIds /\ borrows[b].book < nextBook
            /\ ledgers[b].borrowed = borrows[b].original
        BY <1>3, <4>1 DEF BorrowsOK
      <4> QED
        BY <1>1, <4>1, <4>2 DEF Created
    <3> QED
      BY <3>1, <3>2
  <2>2. ASSUME NEW b \in BorrowIds, ~ Made(b)'
        PROVE  borrows'[b] = NoBorrow /\ b \notin ended'
    BY <1>1, <1>3, <1>6, <1>12, <2>2 DEF BorrowsOK
  <2>3. ASSUME NEW b \in BorrowIds, borrows'[b].returned
        PROVE  b \in ended' /\ Settled(ledgers'[b])
    <3>1. b # n
      BY <1>5, <1>6, <2>3
    <3> QED
      BY <1>1, <1>3, <1>6, <1>7, <2>3, <3>1 DEF BorrowsOK
  <2>4. \A b \in BorrowIds : Made(b)' =>
          /\ borrows'[b].book \in BookIds
          /\ borrows'[b].book < nextBook'
          /\ ledgers'[b].borrowed = borrows'[b].original
    BY <2>1
  <2>5. /\ \A b \in BorrowIds : ~ Made(b)' => borrows'[b] = NoBorrow /\ b \notin ended'
        /\ \A b \in BorrowIds : borrows'[b].returned => b \in ended' /\ Settled(ledgers'[b])
    BY <2>2, <2>3
  <2> QED
    BY <2>4, <2>5 DEF BorrowsOK
<1>15. BlankBooks'
  <2> SUFFICES ASSUME NEW j \in BookIds, ~ Created(j)'
               PROVE  books'[j] = NoBook /\ log'[j] = << >>
    BY DEF BlankBooks
  <2>1. ~ Created(j) /\ j # id
    BY <1>1 DEF Created
  <2> QED
    BY <1>3, <1>10, <2>1 DEF BlankBooks
<1>16. \A b \in BorrowIds : ledgers[b].realized \in Int
  BY <1>3, RealizedTypes
<1>17. ASSUME NEW j \in BookIds
       PROVE  /\ LentTo(borrows', j) = LentTo(borrows, j) + (IF j = id THEN amount ELSE 0)
              /\ ResultTo(borrows', ledgers', j) = ResultTo(borrows, ledgers, j)
  <2>1. /\ SumUpTo(LentBy(borrows', j), MaxBorrows)
             = SumUpTo(LentBy(borrows, j), MaxBorrows) + (IF j = id THEN amount ELSE 0)
        /\ ResultOf(borrows', ledgers', j) = ResultOf(borrows, ledgers, j)
    <3>1. /\ borrows \in BorrowMap /\ borrows' \in BorrowMap /\ n \in BorrowIds /\ amount \in Int
          /\ borrows[n] = NoBorrow
          /\ borrows'[n].book = id /\ borrows'[n].original = amount
          /\ borrows'[n].returned = FALSE
      BY <1>2, <1>4, <1>5, <1>6
    <3>2. /\ \A b \in BorrowIds \ {n} : borrows'[b] = borrows[b]
          /\ \A b \in BorrowIds \ {n} : ledgers'[b] = ledgers[b]
      BY <1>6, <1>7
    <3> DEFINE bs == borrows
               cs == borrows'
               ls == ledgers
               ks == ledgers'
    <3>3. BorrowMade(bs, cs, n, id, amount, ls, ks)
      BY <3>1, <3>2, <1>16 DEF BorrowMade
    <3> HIDE DEF bs, cs, ls, ks
    <3>4. /\ SumUpTo(LentBy(cs, j), MaxBorrows)
               = SumUpTo(LentBy(bs, j), MaxBorrows) + (IF j = id THEN amount ELSE 0)
          /\ ResultOf(cs, ks, j) = ResultOf(bs, ls, j)
      BY <3>3, SumsOfNewBorrow
    <3> QED
      BY <3>4 DEF bs, cs, ls, ks
  <2> QED
    BY <2>1 DEF LentTo, ResultTo
<1>18. BooksOK'
  <2> SUFFICES ASSUME NEW j \in BookIds
               PROVE  BookOK(books'[j], LentTo(borrows', j), ResultTo(borrows', ledgers', j), log'[j])
    BY DEF BooksOK
  <2>1. /\ LentTo(borrows, j) \in Int /\ ResultTo(borrows, ledgers, j) \in Int
        /\ BookOK(books[j], LentTo(borrows, j), ResultTo(borrows, ledgers, j), log[j])
    BY CurrentBook
  <2>2. CASE j = id
    <3>1. LentTo(borrows', id) = LentTo(borrows, id) + amount
      BY <1>17, <2>2
    <3>2. BookOK(Lent(books[id], amount), LentTo(borrows, id) + amount,
                 ResultTo(borrows, ledgers, id),
                 Append(log[id], [type |-> "ActivityBorrow", amount |-> amount]))
      <4>1. amount <= books[id].available
        BY <1>1, <1>2, <1>8, BookInts
      <4> QED
        BY <1>2, <1>8, <2>1, <2>2, <4>1, LentOK
    <3>3. BookOK(book, LentTo(borrows', id), ResultTo(borrows', ledgers', id), events)
      BY <1>17, <3>1, <3>2 DEF book, e
    <3> QED
      BY <1>10, <2>2, <3>3
  <2>3. CASE j # id
    <3>1. LentTo(borrows', j) = LentTo(borrows, j)
      BY <1>17, <2>1, <2>3
    <3> QED
      BY <1>10, <1>17, <2>1, <2>3, <3>1
  <2> QED
    BY <2>2, <2>3
<1>19. OnlyDebtsStayLent'
  <2>1. \A b \in ended : borrows'[b] = borrows[b] /\ ledgers'[b] = ledgers[b]
    BY <1>3, <1>4, <1>6, <1>7 DEF TypeOK
  <2> QED
    BY <1>1, <1>3, <2>1 DEF OnlyDebtsStayLent
<1> QED
  BY <1>11, <1>14, <1>15, <1>18, <1>19 DEF IInv

(***************************************************************************)
(* return_capital moves the settlement of a ledger back to its workbook.   *)
(***************************************************************************)
LEMMA ReturnIInv ==
  ASSUME IInv, NEW b \in BorrowIds, NEW id \in BookIds,
         ReturnCapital(id, b, Settlement(ledgers[b])), ended' = ended \cup {b}
  PROVE  IInv'
<1> DEFINE final == Settlement(ledgers[b])
           original == borrows[b].original
           gain == ledgers[b].realized
           e == [type |-> "ActivityReturn", amount |-> final]
           new == [borrows[b] EXCEPT !.returned = TRUE]
           book == Returned(books[id], original, final)
           events == Append(log[id], e)
<1>0. /\ books' = [books EXCEPT ![id] = book]
      /\ borrows' = [borrows EXCEPT ![b] = new]
      /\ log' = [log EXCEPT ![id] = events]
  BY DEF ReturnCapital, PushEvent
<1>1. /\ Made(b) /\ borrows[b].book = id /\ ~ borrows[b].returned
      /\ final >= 0 /\ Settled(ledgers[b])
      /\ ledgers' = ledgers /\ nextBook' = nextBook /\ nextBorrow' = nextBorrow
  BY DEF ReturnCapital, ReturnOk
<1>2. /\ TypeOK /\ BorrowsOK /\ BlankBooks /\ BooksOK /\ OnlyDebtsStayLent
  BY DEF IInv
<1>3. /\ original = ledgers[b].borrowed /\ original \in Int /\ gain \in Int
      /\ final = original + gain /\ final \in Nat
  <2>1. original = ledgers[b].borrowed
    BY <1>1, <1>2 DEF BorrowsOK
  <2>2. ledgers[b].borrowed \in Int /\ gain \in Int
    BY <1>2, RealizedTypes
  <2>3. final = ledgers[b].borrowed + gain
    BY DEF Settlement
  <2> QED
    BY <1>1, <2>1, <2>2, <2>3
<1>4. /\ borrows[b] \in Borrow /\ new \in Borrow /\ new.book = id
      /\ new.original = original /\ new.returned = TRUE
  <2>1. borrows[b] \in Borrow
    BY <1>2 DEF TypeOK
  <2> QED
    BY <1>1, <2>1, ReturnedBorrow
<1>5. /\ books[id] \in Book /\ log[id] \in Seq(Event)
      /\ book \in Book /\ e \in Event
  <2>1. books[id] \in Book /\ log[id] \in Seq(Event)
    BY CurrentBook
  <2>2. e \in Event
    BY <1>3 DEF Event
  <2>3. final \in Int
    BY <1>3
  <2>4. book \in Book
    BY <1>3, <2>1, <2>3, ReturnedBook
  <2> QED
    BY <2>1, <2>2, <2>4
<1> HIDE DEF new, e, book, final, original, gain
<1>6. /\ borrows'[b] = new
      /\ \A a \in BorrowIds \ {b} : borrows'[a] = borrows[a]
      /\ borrows' \in BorrowMap /\ borrows \in BorrowMap
  <2>1. borrows \in BorrowMap
    BY <1>2 DEF TypeOK, BorrowMap
  <2> QED
    BY <1>0, <1>4, <2>1 DEF BorrowMap
<1>7. /\ books' \in [BookIds -> Book] /\ log' \in [BookIds -> Seq(Event)]
      /\ books'[id] = book /\ log'[id] = events
      /\ \A j \in BookIds \ {id} : books'[j] = books[j] /\ log'[j] = log[j]
  BY <1>0, <1>2, <1>5 DEF TypeOK
<1>8. TypeOK'
  <2>1. ended' \subseteq BorrowIds
    BY <1>2 DEF TypeOK
  <2> QED
    BY <1>1, <1>2, <1>6, <1>7, <2>1 DEF TypeOK, BorrowMap
<1>9. BorrowsOK'
  <2>1. \A a \in BorrowIds : /\ borrows'[a].book = borrows[a].book
                             /\ borrows'[a].original = borrows[a].original
    <3>1. borrows[b].book = id /\ borrows[b].original = original
      BY <1>1 DEF original
    <3> QED
      BY <1>4, <1>6, <3>1
  <2>2. \A a \in BorrowIds : Made(a) =>
          /\ borrows'[a].book \in BookIds
          /\ borrows'[a].book < nextBook
          /\ ledgers[a].borrowed = borrows'[a].original
    BY <1>2, <2>1 DEF BorrowsOK
  <2>3. \A a \in BorrowIds : ~ Made(a) => borrows'[a] = NoBorrow /\ a \notin ended'
    BY <1>1, <1>2, <1>6 DEF BorrowsOK
  <2>4. \A a \in BorrowIds : borrows'[a].returned => a \in ended' /\ Settled(ledgers[a])
    BY <1>1, <1>2, <1>6 DEF BorrowsOK
  <2> QED
    BY <1>1, <2>2, <2>3, <2>4 DEF BorrowsOK, Made
<1>10. BlankBooks'
  <2>1. Created(id)
    BY <1>1, <1>2 DEF BorrowsOK, Created
  <2> QED
    BY <1>1, <1>2, <1>7, <2>1 DEF BlankBooks, Created
<1>11. \A a \in BorrowIds : ledgers[a].realized \in Int
  BY <1>2, RealizedTypes
<1>12. ASSUME NEW j \in BookIds
       PROVE  /\ LentTo(borrows', j)
                   = LentTo(borrows, j) - (IF j = id THEN original ELSE 0)
              /\ ResultTo(borrows', ledgers, j)
                   = ResultTo(borrows, ledgers, j) + (IF j = id THEN gain ELSE 0)
  <2> DEFINE bs == borrows
             cs == borrows'
             ls == ledgers
  <2>1. /\ BorrowReturned(bs, cs, b, ls)
        /\ id = bs[b].book /\ original = bs[b].original /\ gain = ls[b].realized
    <3>1. borrows[b].returned = FALSE
      BY <1>1, <1>4 DEF Borrow
    <3>2. borrows[b].book = id /\ borrows[b].original = original /\ ledgers[b].realized = gain
      BY <1>1 DEF original, gain
    <3> QED
      BY <1>4, <1>6, <1>11, <3>1, <3>2 DEF BorrowReturned
  <2> HIDE DEF bs, cs, ls
  <2>2. /\ SumUpTo(LentBy(cs, j), MaxBorrows)
             = SumUpTo(LentBy(bs, j), MaxBorrows)
               - (IF j = bs[b].book THEN bs[b].original ELSE 0)
        /\ SumUpTo(ResultOf(cs, ls, j), MaxBorrows)
             = SumUpTo(ResultOf(bs, ls, j), MaxBorrows)
               + (IF j = bs[b].book THEN ls[b].realized ELSE 0)
    BY <2>1, SumsOfReturn
  <2>3. /\ SumUpTo(LentBy(cs, j), MaxBorrows)
             = SumUpTo(LentBy(bs, j), MaxBorrows) - (IF j = id THEN original ELSE 0)
        /\ SumUpTo(ResultOf(cs, ls, j), MaxBorrows)
             = SumUpTo(ResultOf(bs, ls, j), MaxBorrows) + (IF j = id THEN gain ELSE 0)
    BY <2>1, <2>2, Zenon
  <2> QED
    BY <2>3 DEF LentTo, ResultTo, bs, cs, ls
<1>13. BooksOK'
  <2> SUFFICES ASSUME NEW j \in BookIds
               PROVE  BookOK(books'[j], LentTo(borrows', j), ResultTo(borrows', ledgers, j), log'[j])
    BY <1>1 DEF BooksOK
  <2>1. /\ LentTo(borrows, j) \in Int /\ ResultTo(borrows, ledgers, j) \in Int
        /\ BookOK(books[j], LentTo(borrows, j), ResultTo(borrows, ledgers, j), log[j])
    BY CurrentBook
  <2>2. CASE j = id
    <3>1. /\ LentTo(borrows', id) = LentTo(borrows, id) - original
          /\ ResultTo(borrows', ledgers, id) = ResultTo(borrows, ledgers, id) + gain
      BY <1>12, <2>2
    <3>2. BookOK(Returned(books[id], original, final), LentTo(borrows, id) - original,
                 ResultTo(borrows, ledgers, id) + gain,
                 Append(log[id], [type |-> "ActivityReturn", amount |-> final]))
      BY <1>3, <1>5, <2>1, <2>2, ReturnedOK
    <3>3. BookOK(book, LentTo(borrows', id), ResultTo(borrows', ledgers, id), events)
      BY <3>1, <3>2 DEF book, e
    <3> QED
      BY <1>7, <2>2, <3>3
  <2>3. CASE j # id
    <3>1. /\ LentTo(borrows', j) = LentTo(borrows, j)
          /\ ResultTo(borrows', ledgers, j) = ResultTo(borrows, ledgers, j)
      BY <1>12, <2>1, <2>3
    <3> QED
      BY <1>7, <2>1, <2>3, <3>1
  <2> QED
    BY <2>2, <2>3
<1>14. OnlyDebtsStayLent'
  <2>1. ~ (Settlement(ledgers[b]) < 0)
    BY <1>3 DEF final
  <2>2. borrows'[b].returned
    BY <1>4, <1>6
  <2>3. \A a \in ended \ {b} : borrows'[a] = borrows[a]
    BY <1>2, <1>6 DEF TypeOK
  <2>4. ended' = ended \cup {b}
    OBVIOUS
  <2> QED
    BY <1>1, <1>2, <2>1, <2>2, <2>3, <2>4 DEF OnlyDebtsStayLent
<1> QED
  BY <1>8, <1>9, <1>10, <1>13, <1>14 DEF IInv

(***************************************************************************)
(* A run that ends without returning ends in debt: its borrow is made and  *)
(* not returned, and every container is out of its ledger.                 *)
(***************************************************************************)
LEMMA DebtIInv ==
  ASSUME IInv, NEW b \in BorrowIds, RunHolds(b), Settled(ledgers[b]),
         ~ ReturnOk(borrows[b].book, b, Settlement(ledgers[b])), ended' = ended \cup {b},
         UNCHANGED <<books, borrows, ledgers, nextBook, nextBorrow, log>>
  PROVE  IInv'
<1>1. /\ TypeOK /\ BorrowsOK /\ BlankBooks /\ BooksOK /\ OnlyDebtsStayLent
      /\ Made(b) /\ b \notin ended
  BY DEF IInv, RunHolds
<1>2. ~ borrows[b].returned
  BY <1>1 DEF BorrowsOK
<1>3. Settlement(ledgers[b]) < 0
  <2>1. Settlement(ledgers[b]) \in Int
    BY <1>1, RealizedTypes DEF Settlement
  <2>2. ~ (Settlement(ledgers[b]) >= 0)
    BY <1>1, <1>2 DEF ReturnOk
  <2> QED
    BY <2>1, <2>2
<1>4. TypeOK'
  BY <1>1 DEF TypeOK
<1>5. BorrowsOK'
  BY <1>1, <1>2 DEF BorrowsOK, Made
<1>6. BlankBooks' /\ BooksOK'
  BY <1>1 DEF BlankBooks, BooksOK, Created
<1>7. OnlyDebtsStayLent'
  BY <1>1, <1>2, <1>3 DEF OnlyDebtsStayLent
<1> QED
  BY <1>4, <1>5, <1>6, <1>7 DEF IInv

(***************************************************************************)
(* A run that settles keeps the invariant, whether its return is accepted  *)
(* or refused.                                                             *)
(***************************************************************************)
LEMMA SettleIInv ==
  ASSUME IInv, NEW b \in BorrowIds, Settle(b)
  PROVE  IInv'
<1>1. CASE \E id \in BookIds : /\ ReturnCapital(id, b, Settlement(ledgers[b]))
                               /\ ended' = ended \cup {b}
  BY <1>1, ReturnIInv
<1>2. CASE /\ RunHolds(b)
           /\ Settled(ledgers[b])
           /\ ~ ReturnOk(borrows[b].book, b, Settlement(ledgers[b]))
           /\ ended' = ended \cup {b}
           /\ UNCHANGED <<books, borrows, ledgers, nextBook, nextBorrow, log>>
  BY <1>2, DebtIInv
<1> QED
  BY <1>1, <1>2 DEF Settle

(***************************************************************************)
(* Every step of the owner and of the runs keeps the invariant.            *)
(***************************************************************************)
LEMMA NextIInv == IInv /\ [Next]_vars => IInv'
<1> SUFFICES ASSUME IInv, [Next]_vars PROVE IInv'
  OBVIOUS
<1>1. CASE Owner
  BY <1>1, CreateIInv, AddCapitalIInv, SoftDeleteIInv DEF Owner
<1>2. ASSUME NEW id \in BookIds, NEW amount \in LoanAmounts, BorrowCapital(id, amount)
      PROVE  IInv'
  BY <1>2, BorrowIInv
<1>3. ASSUME NEW b \in BorrowIds, Run(b)
      PROVE  IInv'
  <2>1. CASE Settle(b)
    BY <2>1, SettleIInv
  <2>2. ASSUME NEW c \in ContainerIds,
               \/ \E amount \in LoanAmounts, mode \in Modes : Allocate(b, c, amount, mode)
               \/ Upgrade(b, c)
               \/ \E value \in Values : Release(b, c, value)
        PROVE  IInv'
    BY <2>2, ContainersIInv
  <2> QED
    BY <1>3, <2>1, <2>2 DEF Run
<1>4. CASE UNCHANGED vars
  BY <1>4 DEF vars, IInv, TypeOK, BorrowsOK, BlankBooks, BooksOK, OnlyDebtsStayLent, Made, Created
<1> QED
  BY <1>1, <1>2, <1>3, <1>4 DEF Next

(***************************************************************************)
(* The workbooks, borrows, ledgers and events always have their types.     *)
(***************************************************************************)
THEOREM InvariantHolds == Spec => []IInv
BY InitIInv, NextIInv, PTL DEF Spec

(***************************************************************************)
(* Every workbook, borrow, ledger and event has its type, the two counters *)
(* of each ledger being the sums of its allocations.                       *)
(***************************************************************************)
THEOREM TypeCorrect == Spec => []TypeOK
<1>1. IInv => TypeOK
  BY DEF IInv
<1> QED
  BY <1>1, InvariantHolds, PTL

(***************************************************************************)
(* borrow_capital and return_capital keep borrowed_capital equal to what   *)
(* the unreturned borrows lent.                                            *)
(***************************************************************************)
THEOREM BorrowedCorrect == Spec => []BorrowedIsOutstanding
<1>1. IInv => BorrowedIsOutstanding
  BY DEF IInv, BooksOK, BookOK, LentTo, BorrowedIsOutstanding
<1> QED
  BY <1>1, InvariantHolds, PTL

(***************************************************************************)
(* No money is lost or made between the workbooks and the ledgers.         *)
(***************************************************************************)
THEOREM BalanceCorrect == Spec => []BooksBalance
<1>1. IInv => BooksBalance
  BY DEF IInv, BooksOK, BookOK, ResultTo, BooksBalance
<1> QED
  BY <1>1, InvariantHolds, PTL

(***************************************************************************)
(* No sequence of borrows and returns overdraws a workbook.                *)
(***************************************************************************)
THEOREM OverdraftCorrect == Spec => []NeverOverdrawn
<1>1. IInv => NeverOverdrawn
  BY DEF IInv, BooksOK, BookOK, NeverOverdrawn
<1> QED
  BY <1>1, InvariantHolds, PTL

(***************************************************************************)
(* A borrow is returned only by a run whose containers have all let go.    *)
(***************************************************************************)
THEOREM ReturnedCorrect == Spec => []ReturnedIsEmpty
<1>1. IInv => ReturnedIsEmpty
  BY SettledIffNothingHeld DEF IInv, TypeOK, BorrowsOK, ReturnedIsEmpty
<1> QED
  BY <1>1, InvariantHolds, PTL

(***************************************************************************)
(* RunManager::settle leaves a borrow lent exactly when the run lost more  *)
(* than it borrowed.                                                       *)
(***************************************************************************)
THEOREM DebtsCorrect == Spec => []OnlyDebtsStayLent
<1>1. IInv => OnlyDebtsStayLent
  BY DEF IInv
<1> QED
  BY <1>1, InvariantHolds, PTL

(***************************************************************************)
(* The events of a workbook add up to its capital.                         *)
(***************************************************************************)
THEOREM EventsCorrect == Spec => []EventsReplay
<1>1. IInv => EventsReplay
  BY DEF IInv, BooksOK, BookOK, OwnerEvents, EventsReplay
<1> QED
  BY <1>1, InvariantHolds, PTL

-------------------------------------------------------------------------------
(***************************************************************************)
(* What a workbook that is deleted may still do in a step: only returns    *)
(* touch its capital, and what they take from `borrowed` was lent, which   *)
(* is positive.                                                            *)
(***************************************************************************)
LentIsPositive ==
  \A b \in BorrowIds : borrows[b].book \in BookIds => borrows[b].original > 0

OnlyWindsUp(old, new) ==
  old.deleted => /\ new.deleted
                 /\ new.main = old.main
                 /\ new.borrowed <= old.borrowed
                 /\ new.available >= old.available

(***************************************************************************)
(* borrow_capital lends positive amounts, and no call changes them after.  *)
(***************************************************************************)
LEMMA LentStaysPositive ==
  ASSUME IInv, LentIsPositive, [Next]_vars
  PROVE  LentIsPositive'
<1>1. borrows \in [BorrowIds -> Borrow]
  BY DEF IInv, TypeOK
<1>2. ASSUME NEW id \in BookIds, NEW amount \in LoanAmounts, BorrowCapital(id, amount)
      PROVE  LentIsPositive'
  <2>1. borrows' = [borrows EXCEPT ![nextBorrow] = [book |-> id, original |-> amount,
                                                    returned |-> FALSE]]
    BY <1>2 DEF BorrowCapital
  <2>2. amount > 0
    BY <1>2 DEF BorrowCapital, BorrowOk
  <2>3. amount \in Int
    BY WorkbookAssumption
  <2> QED
    BY <1>1, <2>1, <2>2, <2>3 DEF LentIsPositive
<1>3. ASSUME NEW b \in BorrowIds, NEW id \in BookIds, ReturnCapital(id, b, Settlement(ledgers[b]))
      PROVE  LentIsPositive'
  <2>1. borrows' = [borrows EXCEPT ![b] = [@ EXCEPT !.returned = TRUE]]
    BY <1>3 DEF ReturnCapital
  <2>2. /\ [borrows[b] EXCEPT !.returned = TRUE].original = borrows[b].original
        /\ [borrows[b] EXCEPT !.returned = TRUE].book = borrows[b].book
    BY <1>1, ReturnedBorrow
  <2>3. \A a \in BorrowIds : /\ borrows'[a].original = borrows[a].original
                             /\ borrows'[a].book = borrows[a].book
    BY <1>1, <2>1, <2>2
  <2> QED
    BY <2>3 DEF LentIsPositive
<1>4. CASE UNCHANGED borrows
  BY <1>4 DEF LentIsPositive
<1> QED
  BY <1>2, <1>3, <1>4 DEF Next, Owner, Run, Settle, Create, AddCapital, SoftDelete, Allocate, Upgrade,
    Release, LedgerStep, vars

(***************************************************************************)
(* No step does more to a deleted workbook than to wind it up.             *)
(***************************************************************************)
LEMMA StepWindsUp ==
  ASSUME IInv, LentIsPositive, [Next]_vars, NEW id \in BookIds
  PROVE  OnlyWindsUp(books[id], books'[id])
<1>1. /\ books \in [BookIds -> Book] /\ borrows \in [BorrowIds -> Borrow]
      /\ books[id] \in Book
  BY DEF IInv, TypeOK
<1>2. books[id].main \in Int /\ books[id].available \in Int /\ books[id].borrowed \in Int
  BY <1>1, BookInts
<1>3. CASE books'[id] = books[id]
  BY <1>2, <1>3 DEF OnlyWindsUp
<1>4. ASSUME NEW amount \in BookAmounts, Create(amount)
      PROVE  OnlyWindsUp(books[id], books'[id])
  <2>1. PICK capital : books' = [books EXCEPT ![nextBook] = Opened(capital)]
    BY <1>4 DEF Create
  <2>2. CASE id = nextBook
    <3>1. nextBook \in Nat
      BY DEF IInv, TypeOK
    <3>2. books[id] = NoBook
      BY <2>2, <3>1 DEF IInv, BlankBooks, Created
    <3> QED
      BY <3>2 DEF OnlyWindsUp, NoBook
  <2>3. CASE id # nextBook
    BY <1>1, <1>3, <2>1, <2>3
  <2> QED
    BY <2>2, <2>3
<1>5. ASSUME NEW k \in BookIds, NEW amount, AddCapital(k, amount)
      PROVE  OnlyWindsUp(books[id], books'[id])
  <2>1. books' = [books EXCEPT ![k] = Funded(@, amount)] /\ ~ books[k].deleted
    BY <1>5 DEF AddCapital
  <2> QED
    BY <1>1, <1>3, <2>1 DEF OnlyWindsUp
<1>6. ASSUME NEW k \in BookIds, NEW amount, BorrowCapital(k, amount)
      PROVE  OnlyWindsUp(books[id], books'[id])
  <2>1. books' = [books EXCEPT ![k] = Lent(@, amount)] /\ ~ books[k].deleted
    BY <1>6 DEF BorrowCapital, BorrowOk
  <2> QED
    BY <1>1, <1>3, <2>1 DEF OnlyWindsUp
<1>7. ASSUME NEW k \in BookIds, SoftDelete(k)
      PROVE  OnlyWindsUp(books[id], books'[id])
  <2>1. books' = [books EXCEPT ![k] = [@ EXCEPT !.deleted = TRUE]] /\ ~ books[k].deleted
    BY <1>7 DEF SoftDelete
  <2> QED
    BY <1>1, <1>3, <2>1 DEF OnlyWindsUp
<1>8. ASSUME NEW b \in BorrowIds, NEW k \in BookIds, ReturnCapital(k, b, Settlement(ledgers[b]))
      PROVE  OnlyWindsUp(books[id], books'[id])
  <2> DEFINE final == Settlement(ledgers[b])
             original == borrows[b].original
  <2>1. books' = [books EXCEPT ![k] = Returned(@, original, final)] /\ final >= 0
    BY <1>8 DEF ReturnCapital, ReturnOk
  <2>2. original \in Int /\ original >= 0
    <3>1. borrows[b].book = k
      BY <1>8 DEF ReturnCapital, ReturnOk
    <3> QED
      BY <1>1, <3>1 DEF Borrow, LentIsPositive
  <2>3. final \in Int
    BY DEF IInv, TypeOK, LedgerOK, LedgerState, Settlement
  <2> HIDE DEF final, original
  <2>4. CASE id = k
    <3>1. books'[id] = Returned(books[id], original, final)
      BY <1>1, <2>1, <2>4
    <3>2. /\ Returned(books[id], original, final).main = books[id].main
          /\ Returned(books[id], original, final).available = books[id].available + final
          /\ Returned(books[id], original, final).borrowed = books[id].borrowed - original
          /\ Returned(books[id], original, final).deleted = books[id].deleted
      BY <1>1, <2>2, <2>3, ReturnedBook
    <3>3. /\ books'[id].main = books[id].main
          /\ books'[id].borrowed <= books[id].borrowed
          /\ books'[id].available >= books[id].available
      BY <1>2, <2>1, <2>2, <2>3, <3>1, <3>2
    <3>4. books'[id].deleted = books[id].deleted
      BY <3>1, <3>2, Zenon
    <3> QED
      BY <3>3, <3>4, Zenon DEF OnlyWindsUp
  <2>5. CASE id # k
    BY <1>1, <1>3, <2>1, <2>5
  <2> QED
    BY <2>4, <2>5
<1>9. CASE UNCHANGED books
  BY <1>3, <1>9
<1>10. CASE Owner
  BY <1>4, <1>5, <1>7, <1>10 DEF Owner
<1>11. ASSUME NEW b \in BorrowIds, Run(b)
       PROVE  OnlyWindsUp(books[id], books'[id])
  BY <1>8, <1>9, <1>11 DEF Run, Settle, Allocate, Upgrade, Release, LedgerStep
<1> QED
  BY <1>6, <1>9, <1>10, <1>11 DEF Next, vars

(***************************************************************************)
(* soft_delete leaves a workbook that only returns can change, and none of *)
(* them takes money out of it.                                             *)
(***************************************************************************)
THEOREM DeletedCorrect == Spec => DeletedOnlyWindsUp
<1>1. Init => LentIsPositive
  BY DEF Init, LentIsPositive, NoBorrow, BookIds
<1>2. IInv /\ LentIsPositive /\ [Next]_vars => LentIsPositive'
  BY LentStaysPositive
<1>3. IInv /\ LentIsPositive /\ [Next]_vars =>
        [\A id \in BookIds : books[id].deleted =>
           /\ books'[id].deleted
           /\ books'[id].main = books[id].main
           /\ books'[id].borrowed <= books[id].borrowed
           /\ books'[id].available >= books[id].available]_vars
  BY StepWindsUp DEF OnlyWindsUp
<1> QED
  BY <1>1, <1>2, <1>3, InvariantHolds, PTL DEF Spec, DeletedOnlyWindsUp

-------------------------------------------------------------------------------
(***************************************************************************)
(* A workbook is a pot of its own, what is available and what is lent, and *)
(* every borrow that is out is a firm claim on it.                         *)
(***************************************************************************)
Pot(book) == book.available + book.borrowed

Loan(borrow, id) ==
  IF borrow.book = id /\ ~ borrow.returned THEN [amount |-> borrow.original, firm |-> TRUE]
                                           ELSE [amount |-> 0, firm |-> FALSE]

Loans(bs, id) == [b \in BorrowIds |-> Loan(bs[b], id)]

Bank(id) == INSTANCE CapitalClaims WITH MaxClaims <- MaxBorrows, pot <- Pot(books[id]),
                                        claims <- Loans(borrows, id)

(***************************************************************************)
(* A sum is the same sum in the module of the pot.                         *)
(***************************************************************************)
LEMMA SameSum ==
  ASSUME NEW id
  PROVE  \A f, n : Bank(id)!SumUpTo(f, n) = SumUpTo(f, n)
BY Zenon DEF Bank!SumUpTo, SumUpTo, Bank!PartialSums, PartialSums

(***************************************************************************)
(* What a workbook has not lent is its available capital.                  *)
(***************************************************************************)
LEMMA FreeIsAvailable ==
  ASSUME IInv, NEW id \in BookIds
  PROVE  Bank(id)!Free = books[id].available
<1>1. Bank(id)!Firm = LentBy(borrows, id)
  BY DEF Bank!Firm, Loans, Loan, LentBy, BorrowIds
<1>2. Bank(id)!Free = Pot(books[id]) - LentTo(borrows, id)
  BY <1>1, SameSum DEF Bank!Free, LentTo
<1>3. /\ books[id].available \in Int /\ books[id].borrowed \in Int
      /\ books[id].borrowed = LentTo(borrows, id)
  BY CurrentBook, BookInts DEF BookOK
<1> QED
  BY <1>2, <1>3 DEF Pot

(***************************************************************************)
(* A workbook opens with no claims on it.                                  *)
(***************************************************************************)
LEMMA InitBanks ==
  ASSUME Init, NEW id \in BookIds
  PROVE  Bank(id)!Init
<1>1. Pot(books[id]) = 0
  BY DEF Init, NoBook, Pot
<1>2. Loans(borrows, id) = [b \in 1..MaxBorrows |-> Bank(id)!NoClaim]
  BY DEF Init, NoBorrow, Loans, Loan, Bank!NoClaim, BorrowIds, BookIds
<1> QED
  BY <1>1, <1>2 DEF Bank!Init

(***************************************************************************)
(* The owner of a workbook puts money in and never takes any out: what a   *)
(* workbook opens with is its first deposit.                               *)
(***************************************************************************)
LEMMA OwnerBanks ==
  ASSUME IInv, NEW id \in BookIds, Owner
  PROVE  Bank(id)!Deposit \/ UNCHANGED <<Pot(books[id]), Loans(borrows, id)>>
<1>1. /\ books \in [BookIds -> Book] /\ books[id] \in Book /\ nextBook \in Nat
  BY DEF IInv, TypeOK
<1>2. books[id].main \in Int /\ books[id].available \in Int /\ books[id].borrowed \in Int
  BY <1>1, BookInts
<1>3. borrows' = borrows
  BY DEF Owner, Create, AddCapital, SoftDelete
<1>4. UNCHANGED Loans(borrows, id)
  BY <1>3 DEF Loans
<1>5. CASE books'[id] = books[id]
  BY <1>4, <1>5 DEF Pot
<1>6. ASSUME NEW amount \in Int, amount >= 0,
             Pot(books'[id]) = Pot(books[id]) + amount
      PROVE  Bank(id)!Deposit
  BY <1>2, <1>4, <1>6 DEF Bank!Deposit, Pot
<1>7. ASSUME NEW amount \in BookAmounts, Create(amount)
      PROVE  Bank(id)!Deposit \/ books'[id] = books[id]
  <2> DEFINE capital == IF amount < 0 THEN 0 ELSE amount
  <2>1. books' = [books EXCEPT ![nextBook] = Opened(capital)]
    BY <1>7 DEF Create
  <2>2. capital \in Int /\ capital >= 0
    BY WorkbookAssumption
  <2> HIDE DEF capital
  <2>3. CASE id = nextBook
    <3>1. books[id] = NoBook
      BY <1>1, <2>3 DEF IInv, BlankBooks, Created
    <3>2. books'[id] = Opened(capital)
      BY <1>1, <2>1, <2>3
    <3>3. Pot(books[id]) = 0 /\ Pot(books'[id]) = capital
      BY <2>2, <3>1, <3>2, OpenedBook DEF Pot, NoBook
    <3> QED
      BY <1>6, <2>2, <3>3
  <2>4. CASE id # nextBook
    BY <1>1, <2>1, <2>4
  <2> QED
    BY <2>3, <2>4
<1>8. ASSUME NEW k \in BookIds, NEW amount \in BookAmounts, AddCapital(k, amount)
      PROVE  Bank(id)!Deposit \/ books'[id] = books[id]
  <2>1. books' = [books EXCEPT ![k] = Funded(@, amount)] /\ amount > 0 /\ amount \in Int
    BY <1>8, WorkbookAssumption DEF AddCapital
  <2>2. CASE id = k
    <3>1. books'[id] = Funded(books[id], amount)
      BY <1>1, <2>1, <2>2
    <3>2. Pot(books'[id]) = Pot(books[id]) + amount
      <4>1. /\ Funded(books[id], amount).available = books[id].available + amount
            /\ Funded(books[id], amount).borrowed = books[id].borrowed
        BY <1>1, <2>1, FundedBook
      <4> QED
        BY <1>2, <2>1, <3>1, <4>1 DEF Pot
    <3> QED
      BY <1>6, <2>1, <3>2
  <2>3. CASE id # k
    BY <1>1, <2>1, <2>3
  <2> QED
    BY <2>2, <2>3
<1>9. ASSUME NEW k \in BookIds, SoftDelete(k)
      PROVE  UNCHANGED Pot(books[id])
  <2>1. books' = [books EXCEPT ![k] = [@ EXCEPT !.deleted = TRUE]]
    BY <1>9 DEF SoftDelete
  <2>2. CASE id = k
    <3>1. books'[id] = [books[id] EXCEPT !.deleted = TRUE]
      BY <1>1, <2>1, <2>2
    <3> QED
      BY <1>1, <3>1, DeletedBook DEF Pot
  <2>3. CASE id # k
    BY <1>1, <2>1, <2>3 DEF Pot
  <2> QED
    BY <2>2, <2>3
<1> QED
  BY <1>4, <1>5, <1>7, <1>8, <1>9 DEF Owner

(***************************************************************************)
(* borrow_capital opens a firm claim on its workbook, which the available  *)
(* capital covers, and none on any other.                                  *)
(***************************************************************************)
LEMMA BorrowBanks ==
  ASSUME IInv, NEW id \in BookIds, NEW k \in BookIds, NEW amount \in LoanAmounts,
         BorrowCapital(k, amount)
  PROVE  \/ \E c \in 1..MaxBorrows : Bank(id)!Open(c)
         \/ UNCHANGED <<Pot(books[id]), Loans(borrows, id)>>
<1> DEFINE n == nextBorrow
<1>1. /\ books \in [BookIds -> Book] /\ borrows \in [BorrowIds -> Borrow]
      /\ books[id] \in Book /\ 0 \notin BookIds /\ amount \in Int
  BY WorkbookAssumption DEF IInv, TypeOK, BookIds
<1>2. /\ books' = [books EXCEPT ![k] = Lent(@, amount)]
      /\ borrows' = [borrows EXCEPT ![n] = [book |-> k, original |-> amount, returned |-> FALSE]]
      /\ amount > 0 /\ books[k].available >= amount /\ n <= MaxBorrows
  BY DEF BorrowCapital, BorrowOk
<1>3. n \in 1..MaxBorrows /\ n \in BorrowIds /\ borrows[n] = NoBorrow
  BY <1>2, WorkbookAssumption DEF IInv, TypeOK, BorrowsOK, BorrowIds, Made
<1> HIDE DEF n
<1>4. /\ Loans(borrows, id)[n] = Bank(id)!NoClaim
      /\ Loans(borrows, id)'
           = [Loans(borrows, id) EXCEPT ![n] = Loans(borrows, id)'[n]]
  <2>1. Loans(borrows, id)[n] = Bank(id)!NoClaim
    BY <1>1, <1>3 DEF Loans, Loan, NoBorrow, Bank!NoClaim
  <2>2. \A b \in BorrowIds \ {n} : borrows'[b] = borrows[b]
    BY <1>1, <1>2
  <2>3. Loans(borrows, id)'
          = [Loans(borrows, id) EXCEPT ![n] = Loans(borrows, id)'[n]]
    BY <2>2 DEF Loans
  <2> QED
    BY <2>1, <2>3
<1>5. borrows'[n] = [book |-> k, original |-> amount, returned |-> FALSE]
  BY <1>1, <1>2, <1>3
<1>6. CASE id = k
  <2>1. books'[id] = Lent(books[id], amount)
    BY <1>1, <1>2, <1>6
  <2>2. UNCHANGED Pot(books[id])
    <3>1. books[id].available \in Int /\ books[id].borrowed \in Int
      BY <1>1, BookInts
    <3>2. /\ Lent(books[id], amount).available = books[id].available - amount
          /\ Lent(books[id], amount).borrowed = books[id].borrowed + amount
      BY <1>1, LentBook
    <3> QED
      BY <1>1, <2>1, <3>1, <3>2 DEF Pot
  <2>3. Loans(borrows, id)'[n] = [amount |-> amount, firm |-> TRUE]
    <3>1. Loan(borrows'[n], id) = [amount |-> amount, firm |-> TRUE]
      BY <1>5, <1>6 DEF Loan
    <3>2. Loans(borrows, id)'[n] = Loan(borrows'[n], id)
      BY <1>3 DEF Loans, Loan
    <3> QED
      BY <3>1, <3>2, Zenon
  <2>4. /\ Loans(borrows, id)'[n].amount > 0
        /\ Loans(borrows, id)'[n].amount <= Bank(id)!Free
    <3>1. Bank(id)!Free = books[id].available /\ books[id].available \in Int
      BY <1>1, FreeIsAvailable, BookInts
    <3>2. Loans(borrows, id)'[n].amount = amount
      BY <2>3
    <3> QED
      BY <1>1, <1>2, <1>6, <3>1, <3>2
  <2> QED
    BY <1>3, <1>4, <2>2, <2>4 DEF Bank!Open, Bank!OnlyClaim
<1>7. CASE id # k
  <2>1. Loans(borrows, id)'[n] = Loans(borrows, id)[n]
    BY <1>3, <1>4, <1>5, <1>7 DEF Loans, Loan, Bank!NoClaim
  <2>2. UNCHANGED Loans(borrows, id)
    BY <1>3, <1>4, <2>1 DEF Loans
  <2>3. books'[id] = books[id]
    BY <1>1, <1>2, <1>7
  <2> QED
    BY <2>2, <2>3 DEF Pot
<1> QED
  BY <1>6, <1>7

(***************************************************************************)
(* return_capital closes the claim of the borrow: only then does the pot   *)
(* change, by what the run made or lost.                                   *)
(***************************************************************************)
LEMMA ReturnBanks ==
  ASSUME IInv, LentIsPositive, NEW id \in BookIds, NEW k \in BookIds, NEW b \in BorrowIds,
         NEW final \in Int, ReturnCapital(k, b, final)
  PROVE  \/ \E c \in 1..MaxBorrows : Bank(id)!Close(c)
         \/ UNCHANGED <<Pot(books[id]), Loans(borrows, id)>>
<1>1. /\ books \in [BookIds -> Book] /\ borrows \in [BorrowIds -> Borrow]
      /\ books[id] \in Book /\ borrows[b] \in Borrow
  BY DEF IInv, TypeOK
<1>2. /\ books' = [books EXCEPT ![k] = Returned(@, borrows[b].original, final)]
      /\ borrows' = [borrows EXCEPT ![b] = [@ EXCEPT !.returned = TRUE]]
      /\ borrows[b].book = k /\ ~ borrows[b].returned
  BY DEF ReturnCapital, ReturnOk
<1>3. borrows[b].original > 0 /\ borrows[b].original \in Int
  BY <1>1, <1>2 DEF LentIsPositive, Borrow
<1>4. /\ borrows'[b].returned = TRUE
      /\ \A a \in BorrowIds \ {b} : borrows'[a] = borrows[a]
  BY <1>1, <1>2, ReturnedBorrow
<1>5. Loans(borrows, id)' = [Loans(borrows, id) EXCEPT ![b] = Bank(id)!NoClaim]
  BY <1>4 DEF Loans, Loan, Bank!NoClaim
<1>6. CASE id = k
  <2>1. Loans(borrows, id)[b] = [amount |-> borrows[b].original, firm |-> TRUE]
    BY <1>2, <1>6 DEF Loans, Loan
  <2>2. Loans(borrows, id)[b] # Bank(id)!NoClaim /\ Loans(borrows, id)[b].firm
    BY <1>3, <2>1 DEF Bank!NoClaim
  <2>3. books'[id] = Returned(books[id], borrows[b].original, final)
    BY <1>1, <1>2, <1>6
  <2>4. Pot(books'[id]) \in Int
    BY <1>1, <1>3, <2>3, ReturnedBook, BookInts DEF Pot
  <2>5. Pot(books[id])' \in Int
    BY <2>4 DEF Pot
  <2> QED
    BY <1>5, <2>2, <2>5 DEF Bank!Close, BorrowIds
<1>7. CASE id # k
  <2>1. Loans(borrows, id)[b] = Bank(id)!NoClaim
    BY <1>2, <1>7 DEF Loans, Loan, Bank!NoClaim
  <2>2. UNCHANGED Loans(borrows, id)
    BY <1>5, <2>1 DEF Loans
  <2>3. books'[id] = books[id]
    BY <1>1, <1>2, <1>7
  <2> QED
    BY <2>2, <2>3 DEF Pot
<1> QED
  BY <1>6, <1>7

(***************************************************************************)
(* Each call is a step of the pot, or does not touch it: what containers   *)
(* do with a ledger, and a return that is refused, leave it alone.         *)
(***************************************************************************)
LEMMA NextBanks ==
  ASSUME IInv, LentIsPositive, [Next]_vars, NEW id \in BookIds
  PROVE  [Bank(id)!Next \/ Bank(id)!Deposit]_<<Pot(books[id]), Loans(borrows, id)>>
<1>1. CASE Owner
  BY <1>1, OwnerBanks
<1>2. ASSUME NEW k \in BookIds, NEW amount \in LoanAmounts, BorrowCapital(k, amount)
      PROVE  Bank(id)!Next \/ UNCHANGED <<Pot(books[id]), Loans(borrows, id)>>
  BY <1>2, BorrowBanks DEF Bank!Next
<1>3. ASSUME NEW b \in BorrowIds, NEW k \in BookIds,
             ReturnCapital(k, b, Settlement(ledgers[b]))
      PROVE  Bank(id)!Next \/ UNCHANGED <<Pot(books[id]), Loans(borrows, id)>>
  <2>1. Settlement(ledgers[b]) \in Int
    BY RealizedTypes DEF IInv, Settlement
  <2> QED
    BY <1>3, <2>1, ReturnBanks DEF Bank!Next
<1>4. CASE UNCHANGED <<books, borrows>>
  BY <1>4 DEF Pot, Loans
<1>5. ASSUME NEW b \in BorrowIds, Run(b)
      PROVE  Bank(id)!Next \/ UNCHANGED <<Pot(books[id]), Loans(borrows, id)>>
  <2>1. CASE UNCHANGED <<books, borrows>>
    BY <2>1 DEF Pot, Loans
  <2>2. CASE Settle(b)
    BY <1>3, <2>1, <2>2 DEF Settle
  <2>3. CASE ~ Settle(b)
    BY <1>5, <2>1, <2>3 DEF Run, Allocate, Upgrade, Release, LedgerStep
  <2> QED
    BY <2>2, <2>3
<1> QED
  BY <1>1, <1>2, <1>4, <1>5 DEF Next, vars

(***************************************************************************)
(* A workbook keeps the promise that the ledger of a borrow keeps to its   *)
(* containers: it lends only what it has, every borrow has a claim of its  *)
(* own on it until it is returned, and nothing but a return, whatever runs *)
(* share the workbook, and the owner's capital changes what it is worth.   *)
(***************************************************************************)
THEOREM WorkbookImplementsClaims ==
  ASSUME NEW id \in BookIds
  PROVE  Spec => Bank(id)!OpenSpec
<1>1. Init => LentIsPositive
  BY DEF Init, LentIsPositive, NoBorrow, BookIds
<1>2. IInv /\ LentIsPositive /\ [Next]_vars => LentIsPositive'
  BY LentStaysPositive
<1>3. Init => Bank(id)!Init
  BY InitBanks
<1>4. IInv /\ LentIsPositive /\ [Next]_vars
        => [Bank(id)!Next \/ Bank(id)!Deposit]_<<Pot(books[id]), Loans(borrows, id)>>
  BY NextBanks
<1> QED
  BY <1>1, <1>2, <1>3, <1>4, InvariantHolds, PTL DEF Spec, Bank!OpenSpec
===============================================================================
