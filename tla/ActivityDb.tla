------------------------------- MODULE ActivityDb -------------------------------
(***************************************************************************)
(* The rows that ActivityRepository and AuthService keep in SQLite, and    *)
(* what each of their statements makes of them.  A database is a record of *)
(* tables; the tables with AUTOINCREMENT ids are sequences, the id of a    *)
(* row being its place.  Rows are never deleted and nothing sets their     *)
(* deleted_at.                                                             *)
(*                                                                         *)
(* A run to be stored is a record                                          *)
(*   [user, name, capital, containers, fills, notes, returned]:            *)
(* how many containers it has, the container (1, 2, ...) of each fill and  *)
(* of each signal or rejection, and its settlement.  RunManager makes a    *)
(* manager of workbooks for each run (http_server.cpp:666, main.cpp:262),  *)
(* so that the workbook of a run always has the id FirstBook.              *)
(***************************************************************************)
EXTENDS Integers, Sequences, SequencesExt

CONSTANTS Unset      \* the password of a user made by ensure_user

FirstBook == 1       \* WorkbookManager::next_workbook_

EmptyDb == [tables |-> {}, record |-> {},      \* what the migrations made, and their log
            users |-> <<>>, books |-> <<>>, events |-> <<>>,
            runs |-> <<>>, containers |-> <<>>, fills |-> <<>>, notes |-> <<>>]

-------------------------------------------------------------------------------
(* users                                                                   *)

UserOf(name, password, role) == [name |-> name, password |-> password, role |-> role]

Placeholder(id) == <<"user", id>>

FindUser(d, id) == IF id \in DOMAIN d.users THEN {d.users[id]} ELSE {}

FindByName(d, name) == {id \in DOMAIN d.users : d.users[id].name = name}

\* INSERT OR IGNORE of a row with the given id.
InsertUser(d, id, user) ==
  IF id = Len(d.users) + 1 /\ FindByName(d, user.name) = {} THEN [d EXCEPT !.users = Append(@, user)] ELSE d

EnsureUser(d, id) == InsertUser(d, id, UserOf(Placeholder(id), Unset, "user"))

-------------------------------------------------------------------------------
(* workbooks and their capital events                                      *)

Book(user, name, main, available) == [user |-> user, name |-> name, main |-> main, available |-> available]

WithBook(d, id, book) == [d EXCEPT !.books = [i \in DOMAIN @ \cup {id} |-> IF i = id THEN book ELSE @[i]]]

\* INSERT: a row with the id of another is refused, and the refusal ignored.
InsertBook(d, id, book) == IF id \in DOMAIN d.books THEN d ELSE WithBook(d, id, book)

\* The workbook after its run: all of its capital was borrowed, and a debt is not returned.
AfterRun(run) ==
  Book(run.user, run.name, run.capital, IF run.returned >= 0 THEN run.returned ELSE 0)

\* A plausible bug: the conflicting row takes the owner of the new one as well.
UpsertBookTakesOver(d, run) == WithBook(d, FirstBook, AfterRun(run))

\* ON CONFLICT DO UPDATE: the row keeps its owner and its name.
UpsertBook(d, run) ==
  LET new == AfterRun(run)
  IN  IF FirstBook \notin DOMAIN d.books THEN WithBook(d, FirstBook, new)
      ELSE [d EXCEPT !.books[FirstBook].main = new.main, !.books[FirstBook].available = new.available]

Event(book, type, amount) == [book |-> book, type |-> type, amount |-> amount]

EventsOf(book, run) ==
  <<Event(book, "created", run.capital), Event(book, "borrow", run.capital)>>
    \o (IF run.returned >= 0 THEN <<Event(book, "return", run.returned)>> ELSE <<>>)

InsertEvents(d, run) == [d EXCEPT !.events = @ \o EventsOf(FirstBook, run)]

-------------------------------------------------------------------------------
(* A run and its rows.                                                     *)

InsertRun(d, run) ==
  [d EXCEPT !.runs = Append(@, [book |-> FirstBook, capital |-> run.capital,
                                fills |-> Len(run.fills), returned |-> run.returned])]

RunId(d) == Len(d.runs)     \* last_id, after insert_run_

InsertContainers(d, run) ==
  [d EXCEPT !.containers = @ \o [i \in 1 .. run.containers |-> [run |-> RunId(d)]]]

\* The rows of the containers of the last run: cmap[i] is that of its container i.
ContainerRow(d, run, i) == Len(d.containers) - run.containers + i

InsertFills(d, run) ==
  [d EXCEPT !.fills = @ \o [i \in DOMAIN run.fills |->
     [run |-> RunId(d), container |-> ContainerRow(d, run, run.fills[i])]]]

InsertNotes(d, run) ==
  [d EXCEPT !.notes = @ \o [i \in DOMAIN run.notes |->
     [run |-> RunId(d), container |-> ContainerRow(d, run, run.notes[i])]]]

InsertRows(d, run) == InsertNotes(InsertFills(InsertContainers(d, run), run), run)

(* persist_run, in stages: an error or a crash may come between any two of *)
(* its statements, but they are seen by nobody before COMMIT.              *)
Stages == <<"workbook", "run", "rows", "commit">>

Write(stage, d, run) ==
  CASE stage = "workbook" -> InsertEvents(UpsertBook(EnsureUser(d, run.user), run), run)
    [] stage = "run"      -> InsertRun(d, run)
    [] stage = "rows"     -> InsertRows(d, run)

-------------------------------------------------------------------------------
(* Read back: rows with their ids, which grow with each row stored.       *)

Rows(table) == {<<i, table[i]>> : i \in DOMAIN table}

RowsOf(table, run) == {row \in Rows(table) : row[2].run = run}

ListRuns(d, book) == {row \in Rows(d.runs) : row[2].book = book}

ListContainers(d, run) == RowsOf(d.containers, run)

ListFills(d, run) == RowsOf(d.fills, run)

CountNotes(d, run) == Cardinality(RowsOf(d.notes, run))
===============================================================================
