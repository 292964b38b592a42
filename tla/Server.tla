--------------------------------- MODULE Server ---------------------------------
(***************************************************************************)
(* The API server and the command-line run on the database they share, one *)
(* after the other.                                                        *)
(*                                                                         *)
(* The server answers one request after the other on one thread; an        *)
(* exception of a handler ends the process.  Its tokens are signed with a  *)
(* fixed secret, so that they outlive it.  It keeps workbooks in memory    *)
(* (`books_`), whose ids begin at 1 in every process.  A run is executed   *)
(* by RunManager (module TradingRun) and stored by persist_run; here it is *)
(* one of Results.                                                         *)
(***************************************************************************)
EXTENDS Database

CONSTANTS Names, Passwords,
          Capitals,     \* capital_paise of requests
          Results,      \* [containers, fills, notes, gain] of a run
          MaxBooks,     \* bound on the workbooks a server process makes
          MaxRuns       \* bound on the runs stored

ASSUME ServerAssumption ==
  /\ Capitals \subseteq Nat \ {0} /\ Unset \notin Passwords
  /\ Processes = {"server", "cli"}
  /\ \A r \in Results : /\ r.containers \in Nat /\ r.gain \in Int
                        /\ {r.fills, r.notes} \subseteq Seq(1 .. r.containers)
                        /\ r.containers = 0 => r.gain = 0

VARIABLES tokens,     \* valid tokens in the hands of clients: [user, role]
          nextBook,   \* books_: the id of the next workbook of this server process
          job         \* per process: what it is doing

serverVars == <<db, txn, writer, at, tokens, nextBook, job>>

Idle == [kind |-> "idle"]

Init ==
  /\ InitDatabase
  /\ tokens = {}
  /\ nextBook = FirstBook
  /\ job = [p \in Processes |-> Idle]

Free(p) == at[p] = Up /\ job[p] = Idle

-------------------------------------------------------------------------------
(* AuthService.                                                            *)

MakeToken(id, user) == [user |-> id, role |-> user.role]

\* register_user, with the default role, when no statement fails.
RegisterUser(name, password) ==
  /\ FindByName(db, name) = {}
  /\ LET user == UserOf(name, password, "user")
     IN  /\ db' = [db EXCEPT !.users = Append(@, user)]
         /\ tokens' = tokens \cup {MakeToken(Len(db.users) + 1, user)}

VerifyPassword(password, stored) == stored # Unset /\ password = stored

LoginUser(name, password) ==
  \E id \in FindByName(db, name) :
    /\ VerifyPassword(password, db.users[id].password)
    /\ tokens' = tokens \cup {MakeToken(id, db.users[id])}

\* A token is no longer valid after its exp.
TokenExpires == \E t \in tokens : tokens' = tokens \ {t} /\ UNCHANGED <<databaseVars, nextBook, job>>

-------------------------------------------------------------------------------
(* The handlers that write.                                                *)

Register ==
  /\ Free("server") /\ writer = Nobody
  /\ \E name \in Names, password \in Passwords : RegisterUser(name, password)
  /\ UNCHANGED <<txn, writer, at, nextBook, job>>

Login ==
  /\ Free("server")
  /\ \E name \in Names, password \in Passwords : LoginUser(name, password)
  /\ UNCHANGED <<databaseVars, nextBook, job>>

\* POST /workbooks, up to find_user: from here its transaction reads the database as it is now.
CreateBook ==
  /\ Free("server") /\ nextBook <= MaxBooks
  /\ \E t \in tokens, capital \in Capitals :
       job' = [job EXCEPT !["server"] =
                 [kind |-> "create", user |-> t.user, id |-> nextBook, capital |-> capital, seen |-> db]]
  /\ nextBook' = nextBook + 1
  /\ UNCHANGED <<databaseVars, tokens>>

\* Its two inserts and COMMIT. The answer is 201 whatever became of them: SQLite refuses
\* both if another process writes, or has written since the read.
StoreBook ==
  LET j == job["server"]
  IN  /\ j.kind = "create"
      /\ \/ /\ writer = Nobody /\ db = j.seen
            /\ db' = InsertBook(InsertUser(db, j.user, UserOf(Placeholder(j.user), Unset, "user")),
                                j.id, Book(j.user, "api", j.capital, j.capital))
         \/ (writer # Nobody \/ db # j.seen) /\ UNCHANGED db
      /\ job' = [job EXCEPT !["server"] = Idle]
      /\ UNCHANGED <<txn, writer, at, tokens, nextBook>>

RunOf(user, name, capital, r) ==
  [user |-> user, name |-> name, capital |-> capital, containers |-> r.containers,
   fills |-> r.fills, notes |-> r.notes, returned |-> capital + r.gain]

\* `asked` is history: the workbook the run is for, which persist_run is not told.
Persist(p, asked, run) ==
  job' = [job EXCEPT ![p] = [kind |-> "persist", asked |-> asked, run |-> run, stage |-> 1]]

MayRun(t, book) == book.user = t.user \/ t.role = "admin"

\* POST runs/start. A run without capital cannot borrow and stores nothing.
StartRun ==
  /\ Free("server") /\ Len(db.runs) < MaxRuns
  /\ \E t \in tokens, id \in DOMAIN db.books, r \in Results :
       LET book == db.books[id]
       IN  /\ MayRun(t, book)
           /\ \E capital \in Capitals \cup {book.available} :
                capital > 0 /\ Persist("server", id, RunOf(t.user, book.name, capital, r))
  /\ UNCHANGED <<databaseVars, tokens, nextBook>>

\* The command-line run, for the user 1 and the first workbook.
CliRun ==
  /\ Free("cli") /\ Len(db.runs) < MaxRuns
  /\ \E r \in Results, capital \in Capitals :
       Persist("cli", FirstBook, RunOf(1, "cli", capital, r))
  /\ UNCHANGED <<databaseVars, tokens, nextBook>>

-------------------------------------------------------------------------------
(* persist_run.                                                            *)

PersistStage(p) ==
  LET j == job[p]
  IN  /\ j.kind = "persist" /\ Stages[j.stage] # "commit"
      /\ WriteIn(p, Write(Stages[j.stage], View(p), j.run))
      /\ job' = [job EXCEPT ![p].stage = @ + 1]
      /\ UNCHANGED <<at, tokens, nextBook>>

\* The server answers; the command line ends.
PersistCommit(p) ==
  /\ job[p].kind = "persist" /\ Stages[job[p].stage] = "commit"
  /\ Commit(p)
  /\ job' = [job EXCEPT ![p] = Idle]
  /\ at' = (IF p = "cli" THEN [at EXCEPT ![p] = Off] ELSE at)
  /\ UNCHANGED <<tokens, nextBook>>

\* The end of a process takes its memory with it.
Ends(p) ==
  /\ Throws(p) \/ Killed(p)
  /\ job' = [job EXCEPT ![p] = Idle]
  /\ nextBook' = (IF p = "server" THEN FirstBook ELSE nextBook)
  /\ UNCHANGED tokens

Next ==
  \/ Register \/ Login \/ TokenExpires \/ CreateBook \/ StoreBook \/ StartRun \/ CliRun
  \/ \E p \in Processes :
       \/ StartUp(p) /\ UNCHANGED <<tokens, nextBook, job>>
       \/ PersistStage(p) \/ PersistCommit(p) \/ Ends(p)

Spec == Init /\ [][Next]_serverVars

-------------------------------------------------------------------------------
(* The handlers that read, for any token.                                  *)

Me(t) == FindUser(db, t.user)

GetBooks(t) == {<<id, db.books[id].name>> : id \in {i \in DOMAIN db.books : db.books[i].user = t.user}}

GetPortfolio(id) == [main |-> db.books[id].main, available |-> db.books[id].available]

GetRuns(id) == ListRuns(db, id)

GetFills(id) == UNION {ListFills(db, run[1]) : run \in GetRuns(id)}

GetContainers(id) == UNION {ListContainers(db, run[1]) : run \in GetRuns(id)}

-------------------------------------------------------------------------------
TypeOK ==
  /\ writer \in Processes \cup {Nobody}
  /\ tokens \subseteq [user : DOMAIN db.users, role : {"user", "admin"}]
  /\ nextBook \in FirstBook .. MaxBooks + 1

(* What the API shows of the runs of all workbooks adds up: every run has  *)
(* the fills it says, each in a container of its own, nothing that is      *)
(* stored is left out, and the capital events are those of the runs, in    *)
(* their order and under their workbooks, whichever process stored a run   *)
(* and whoever died meanwhile (activity_repository.cpp:321-362).  It does  *)
(* not say which workbook a run is stored under.                           *)
RunsAreWhole ==
  LET shown == UNION {GetRuns(id) : id \in DOMAIN db.books}
  IN  /\ \A run \in shown :
           /\ Cardinality(ListFills(db, run[1])) = run[2].fills
           /\ \A fill \in ListFills(db, run[1]) :
                \E c \in ListContainers(db, run[1]) : c[1] = fill[2].container
      /\ shown = Rows(db.runs)
      /\ UNION {GetFills(id) : id \in DOMAIN db.books} = Rows(db.fills)
      /\ UNION {GetContainers(id) : id \in DOMAIN db.books} = Rows(db.containers)
      /\ db.events = FlattenSeq([i \in DOMAIN db.runs |-> EventsOf(db.runs[i].book, db.runs[i])])

(* The notes: workbooks are isolated from each other, and what was done in *)
(* one is stored under it.  So the runs and the capital that the API shows *)
(* of a workbook only change when a run is stored that was asked for in it *)
(* (http_server.cpp:665-669).                                              *)
BooksAreIsolated ==
  [][\A id \in DOMAIN db.books :
       GetRuns(id)' # GetRuns(id) \/ GetPortfolio(id)' # GetPortfolio(id)
         => \E p \in Processes : job[p].kind = "persist" /\ job[p].asked = id]_serverVars

(* What a client was shown it is shown again, after any restart and with   *)
(* every process handing out its ids from 1 anew: its user, its workbooks  *)
(* by owner and name, the runs of each workbook, new ones after the old,   *)
(* and the fills of each run (http_server.cpp:430-444, 573-602, 682-730).  *)
HistoryStays ==
  [][/\ \A t \in tokens : Me(t)' = Me(t) /\ GetBooks(t) \subseteq GetBooks(t)'
     /\ \A id \in DOMAIN db.books :
          /\ GetRuns(id) \subseteq GetRuns(id)'
          /\ \A old \in GetRuns(id), new \in GetRuns(id)' \ GetRuns(id) : old[1] < new[1]
          /\ \A run \in GetRuns(id) : ListFills(db, run[1])' = ListFills(db, run[1])]_serverVars
===============================================================================
