----------------------------- MODULE Server_proofs -----------------------------
(***************************************************************************)
(* The schema is whole in every reachable state, for any number of files,  *)
(* users, workbooks and runs: whatever process is killed or fails, and     *)
(* whoever migrates at the same time.  The rows of the runs that the API   *)
(* shows belong together, and what was shown is shown again.               *)
(***************************************************************************)
EXTENDS Server, WellFoundedInduction, FiniteSetTheorems, TLAPS

Fields == {"tables", "record", "users", "books", "events", "runs", "containers", "fills", "notes"}

\* A statement on rows leaves the schema and its log alone.
SameSchema(d, e) == DOMAIN e = Fields /\ e.tables = d.tables /\ e.record = d.record

SchemaOK(d) ==
  /\ DOMAIN d = Fields
  /\ d.tables = d.record
  /\ d.record \subseteq 1 .. Files
  /\ \A file \in d.record : 1 .. file \subseteq d.record

InFile == {"exec", "record", "commit"}
Places == [step : {"off", "check", "begin", "bars", "up"} \cup InFile, file : Nat]

\* How far the log is when a process is at place a.
PlaceOK(a, d) ==
  /\ a \in Places
  /\ a.step \in {"check", "begin"} \cup InFile => 1 .. (a.file - 1) \subseteq d.record
  /\ a.step = "check" => a.file >= 1
  /\ a.step \in {"begin"} \cup InFile => a.file \in 1 .. Files
  /\ a.step \in {"bars", "up"} => d.record = 1 .. Files

\* What the transaction of a process at place a has added to the committed d.
TxnOK(a, t, d) ==
  /\ a.step \in {"up"} \cup InFile
  /\ DOMAIN t = Fields
  /\ t.tables = d.tables \cup (IF a.step \in {"record", "commit"} THEN {a.file} ELSE {})
  /\ t.record = d.record \cup (IF a.step = "commit" THEN {a.file} ELSE {})

\* Only a process that is up has a job.
JobOK(j, a) ==
  /\ j.kind # "idle" => a.step = "up"
  /\ j.kind = "persist" => DOMAIN j = {"kind", "asked", "run", "stage"} /\ j.stage \in 1 .. 4

Shape ==
  /\ DOMAIN at = Processes /\ DOMAIN txn = Processes /\ DOMAIN job = Processes
  /\ writer \in Processes \cup {Nobody}

ProcessOK(p) ==
  /\ PlaceOK(at[p], db)
  /\ JobOK(job[p], at[p])
  /\ at[p].step \in InFile => writer = p
  /\ writer = p => TxnOK(at[p], txn[p], db)

IInv == Shape /\ SchemaOK(db) /\ \A p \in Processes : ProcessOK(p)

-------------------------------------------------------------------------------
(* The statements on rows.                                                 *)

\* A row of users changes no schema.
LEMMA RowsOfUsers ==
  ASSUME NEW d, DOMAIN d = Fields, NEW id, NEW user
  PROVE  SameSchema(d, InsertUser(d, id, user))
BY DEF SameSchema, InsertUser, Fields

\* Nor does a row of workbooks.
LEMMA RowsOfBooks ==
  ASSUME NEW d, DOMAIN d = Fields, NEW id, NEW book, NEW run
  PROVE  SameSchema(d, InsertBook(d, id, book)) /\ SameSchema(d, UpsertBook(d, run))
<1>1. ASSUME NEW i, NEW b PROVE SameSchema(d, WithBook(d, i, b))
  BY DEF SameSchema, WithBook, Fields
<1>2. SameSchema(d, InsertBook(d, id, book))
  BY <1>1 DEF InsertBook, SameSchema
<1>3. ASSUME NEW x, NEW y
      PROVE  SameSchema(d, [d EXCEPT !.books[FirstBook].main = x, !.books[FirstBook].available = y])
  BY DEF SameSchema, Fields
<1>4. SameSchema(d, UpsertBook(d, run))
  BY <1>1, <1>3 DEF UpsertBook
<1> QED
  BY <1>2, <1>4

\* Nor do the rows of a run.
LEMMA RowsOfRuns ==
  ASSUME NEW d, DOMAIN d = Fields, NEW run
  PROVE  /\ SameSchema(d, InsertEvents(d, run)) /\ SameSchema(d, InsertRun(d, run))
         /\ SameSchema(d, InsertContainers(d, run)) /\ SameSchema(d, InsertFills(d, run))
         /\ SameSchema(d, InsertNotes(d, run))
BY DEF SameSchema, InsertEvents, InsertRun, InsertContainers, InsertFills, InsertNotes, Fields

\* Nor do two statements of them.
LEMMA SameSchemaTwice ==
  ASSUME NEW d, NEW e, NEW f, SameSchema(d, e), SameSchema(e, f)
  PROVE  SameSchema(d, f)
BY DEF SameSchema

\* And the database keeps its parts.
LEMMA SameSchemaDomain ==
  ASSUME NEW d, NEW e, SameSchema(d, e)
  PROVE  DOMAIN e = Fields
BY DEF SameSchema

(* Every stage of persist_run writes rows alone.                           *)
LEMMA WriteKeepsSchema ==
  ASSUME NEW d, DOMAIN d = Fields, NEW run, NEW stage \in {"workbook", "run", "rows"}
  PROVE  SameSchema(d, Write(stage, d, run))
<1>1. CASE stage = "workbook"
  <2> DEFINE d1 == EnsureUser(d, run.user)
             d2 == UpsertBook(d1, run)
             d3 == InsertEvents(d2, run)
  <2>1. SameSchema(d, d1)
    BY RowsOfUsers DEF EnsureUser
  <2> HIDE DEF d1
  <2>2. SameSchema(d1, d2)
    BY <2>1, SameSchemaDomain, RowsOfBooks
  <2> HIDE DEF d2
  <2>3. SameSchema(d2, d3)
    BY <2>2, SameSchemaDomain, RowsOfRuns
  <2> HIDE DEF d3
  <2>4. SameSchema(d, d3)
    BY <2>1, <2>2, <2>3, SameSchemaTwice
  <2> QED
    BY <1>1, <2>4 DEF Write, d1, d2, d3
<1>2. CASE stage = "run"
  BY <1>2, RowsOfRuns DEF Write
<1>3. CASE stage = "rows"
  <2> DEFINE d1 == InsertContainers(d, run)
             d2 == InsertFills(d1, run)
             d3 == InsertNotes(d2, run)
  <2>1. SameSchema(d, d1)
    BY RowsOfRuns
  <2> HIDE DEF d1
  <2>2. SameSchema(d1, d2)
    BY <2>1, SameSchemaDomain, RowsOfRuns
  <2> HIDE DEF d2
  <2>3. SameSchema(d2, d3)
    BY <2>2, SameSchemaDomain, RowsOfRuns
  <2> HIDE DEF d3
  <2>4. SameSchema(d, d3)
    BY <2>1, <2>2, <2>3, SameSchemaTwice
  <2> QED
    BY <1>3, <2>4 DEF Write, InsertRows, d1, d2, d3
<1> QED
  BY <1>1, <1>2, <1>3

LessThan == {ss \in Nat \X Nat : ss[1] < ss[2]}

\* The order of the naturals has least elements.
LEMMA LessThanWellFounded == IsWellFoundedOn(LessThan, Nat)
BY Zenon, NatLessThanWellFounded DEF OpToRel, LessThan

(* The least of some files.                                                *)
LEMMA LeastFile ==
  ASSUME NEW S \in SUBSET Nat, S # {}
  PROVE  Min(S) \in S /\ \A y \in S : Min(S) <= y
<1>1. PICK x \in S : \A y \in S : ~ (<<y, x>> \in LessThan)
  BY LessThanWellFounded, WFMin
<1>2. ASSUME NEW y \in S
      PROVE  x <= y
  <2>1. x \in Nat /\ y \in Nat
    OBVIOUS
  <2>2. ~ (<<y, x>> \in LessThan)
    BY <1>1
  <2>3. <<y, x>>[1] = y /\ <<y, x>>[2] = x
    OBVIOUS
  <2>4. ~ (y < x)
    BY <2>1, <2>2, <2>3 DEF LessThan
  <2> QED
    BY <2>1, <2>4
<1>3. \E m \in S : \A y \in S : m <= y
  BY <1>2
<1> QED
  BY <1>3 DEF Min

-------------------------------------------------------------------------------
(* What the changes of the database mean for the processes.                *)

(* A place is as good after a log that has grown.                          *)
LEMMA PlaceStays ==
  ASSUME NEW a, NEW d, NEW e, PlaceOK(a, d), SchemaOK(e), d.record \subseteq e.record
  PROVE  PlaceOK(a, e)
BY DEF PlaceOK, SchemaOK

(* A step of p alone: the others keep their place, their job and their     *)
(* part of the lock.                                                       *)
Alone(p) ==
  /\ \A q \in Processes \ {p} : at'[q] = at[q] /\ job'[q] = job[q] /\ txn'[q] = txn[q]
  /\ writer' \in {writer, p, Nobody}
  /\ writer \notin {p, Nobody} => writer' = writer /\ db' = db

\* A step of one process leaves the places of the others.
LEMMA OthersStay ==
  ASSUME IInv, NEW p \in Processes, Alone(p), SchemaOK(db'), db.record \subseteq db'.record,
         NEW q \in Processes \ {p}
  PROVE  ProcessOK(q)'
<1>1. at'[q] = at[q] /\ job'[q] = job[q] /\ txn'[q] = txn[q]
  BY DEF Alone
<1>2. ProcessOK(q)
  BY DEF IInv
<1>3. PlaceOK(at'[q], db')
  BY <1>1, <1>2, PlaceStays DEF ProcessOK
<1>4. JobOK(job'[q], at'[q])
  BY <1>1, <1>2 DEF ProcessOK
<1>5. q # Nobody /\ p # Nobody
  BY ServerAssumption DEF Nobody
<1>6. writer' = q <=> writer = q
  BY <1>5 DEF Alone, IInv, Shape
<1>7. writer = q => db' = db
  BY <1>5 DEF Alone
<1>8. at'[q].step \in InFile => writer' = q
  BY <1>1, <1>2, <1>6 DEF ProcessOK
<1>9. writer' = q => TxnOK(at'[q], txn'[q], db')
  BY <1>1, <1>2, <1>6, <1>7 DEF ProcessOK
<1> QED
  BY <1>3, <1>4, <1>8, <1>9 DEF ProcessOK

(* A step of p alone keeps the invariant if p is where it should be.       *)
LEMMA StepOfOne ==
  ASSUME IInv, NEW p \in Processes, Alone(p), Shape', SchemaOK(db'), db.record \subseteq db'.record,
         ProcessOK(p)'
  PROVE  IInv'
BY OthersStay DEF IInv

-------------------------------------------------------------------------------
(* The start of a process.                                                 *)

\* A process opens the database.
LEMMA OpenKeeps ==
  ASSUME IInv, NEW p \in Processes, Open(p), UNCHANGED job
  PROVE  IInv'
<1>1. at' = [at EXCEPT ![p] = On("check", 1)] /\ at[p].step = "off" /\ UNCHANGED <<db, txn, writer, job>>
  BY DEF Open, Off
<1>2. at'[p] = On("check", 1) /\ DOMAIN at' = Processes
      /\ \A q \in Processes \ {p} : at'[q] = at[q]
  BY <1>1 DEF IInv, Shape
<1>3. ProcessOK(p)
  BY DEF IInv
<1>4. ProcessOK(p)'
  <2>1. PlaceOK(at'[p], db')
    BY <1>2 DEF PlaceOK, Places, On, InFile
  <2>2. JobOK(job'[p], at'[p])
    BY <1>1, <1>3 DEF ProcessOK, JobOK
  <2>3. at'[p].step \notin InFile
    BY <1>2 DEF On, InFile
  <2>4. writer' # p
    BY <1>1, <1>3 DEF ProcessOK, TxnOK, InFile
  <2> QED
    BY <2>1, <2>2, <2>3, <2>4 DEF ProcessOK
<1>5. Alone(p)
  BY <1>1, <1>2 DEF Alone
<1>6. Shape' /\ SchemaOK(db') /\ db.record \subseteq db'.record
  BY <1>1, <1>2 DEF IInv, Shape
<1> QED
  BY <1>4, <1>5, <1>6, StepOfOne

\* A process looks for the next migration.
LEMMA CheckKeeps ==
  ASSUME IInv, NEW p \in Processes, CheckFile(p), UNCHANGED job
  PROVE  IInv'
<1> DEFINE left == (at[p].file .. Files) \ db.record
           there == IF left = {} THEN On("bars", 0) ELSE On("begin", Min(left))
<1>1. at' = [at EXCEPT ![p] = there] /\ at[p].step = "check" /\ UNCHANGED <<db, txn, writer, job>>
  BY DEF CheckFile
<1>2. at'[p] = there /\ DOMAIN at' = Processes /\ \A q \in Processes \ {p} : at'[q] = at[q]
  BY <1>1 DEF IInv, Shape
<1>3. ProcessOK(p) /\ SchemaOK(db)
  BY DEF IInv
<1>4. at[p].file \in Nat /\ at[p].file >= 1 /\ 1 .. (at[p].file - 1) \subseteq db.record
  BY <1>1, <1>3 DEF ProcessOK, PlaceOK, Places
<1>5. Files \in Nat /\ db.record \subseteq 1 .. Files
  BY <1>3, DatabaseAssumption DEF SchemaOK
<1>10. ASSUME NEW k \in 1 .. Files, k \notin left
       PROVE  k \in db.record
  <2>1. CASE k < at[p].file
    BY <1>4, <2>1
  <2>2. CASE ~ (k < at[p].file)
    <3>1. k \in at[p].file .. Files
      BY <1>4, <1>5, <2>2
    <3> QED
      BY <1>10, <3>1
  <2> QED
    BY <2>1, <2>2
<1>6. PlaceOK(there, db) /\ there.step \in {"bars", "begin"}
  <2>1. CASE left = {}
    <3>1. db.record = 1 .. Files
      BY <1>5, <1>10, <2>1
    <3> QED
      BY <2>1, <3>1 DEF PlaceOK, Places, On, InFile
  <2>2. CASE left # {}
    <3>1. left \in SUBSET Nat
      BY <1>4, <1>5
    <3>2. Min(left) \in left /\ \A y \in left : Min(left) <= y
      BY <2>2, <3>1, LeastFile
    <3> DEFINE m == Min(left)
    <3>3. m \in 1 .. Files
      BY <1>4, <1>5, <3>2
    <3>4. ASSUME NEW k \in 1 .. (m - 1)
          PROVE  k \in db.record
      <4>1. k \in 1 .. Files /\ ~ (m <= k)
        BY <1>5, <3>3
      <4>2. k \notin left
        BY <3>2, <4>1
      <4> QED
        BY <1>10, <4>1, <4>2
    <3>5. there = On("begin", m)
      BY <2>2
    <3> HIDE DEF m, there
    <3> QED
      BY <1>5, <3>3, <3>4, <3>5 DEF PlaceOK, Places, On, InFile
  <2> QED
    BY <2>1, <2>2
<1> HIDE DEF there
<1>7. ProcessOK(p)'
  <2>1. JobOK(job'[p], at'[p])
    BY <1>1, <1>3 DEF ProcessOK, JobOK
  <2>2. at'[p].step \notin InFile
    BY <1>2, <1>6 DEF InFile
  <2>3. writer' # p
    BY <1>1, <1>3 DEF ProcessOK, TxnOK, InFile
  <2> QED
    BY <1>1, <1>2, <1>6, <2>1, <2>2, <2>3 DEF ProcessOK
<1>8. Alone(p)
  BY <1>1, <1>2 DEF Alone
<1>9. Shape' /\ SchemaOK(db') /\ db.record \subseteq db'.record
  BY <1>1, <1>2 DEF IInv, Shape
<1> QED
  BY <1>7, <1>8, <1>9, StepOfOne

\* A process opens the bar store.
LEMMA BarsKeeps ==
  ASSUME IInv, NEW p \in Processes, OpenBars(p), UNCHANGED job
  PROVE  IInv'
<1>1. at' = [at EXCEPT ![p] = Up] /\ at[p].step = "bars" /\ UNCHANGED <<db, txn, writer, job>>
  BY DEF OpenBars
<1>2. at'[p] = Up /\ DOMAIN at' = Processes /\ \A q \in Processes \ {p} : at'[q] = at[q]
  BY <1>1 DEF IInv, Shape
<1>3. ProcessOK(p)
  BY DEF IInv
<1>4. ProcessOK(p)'
  <2>1. PlaceOK(at'[p], db')
    BY <1>1, <1>2, <1>3 DEF ProcessOK, PlaceOK, Places, Up, InFile
  <2>2. JobOK(job'[p], at'[p])
    BY <1>1, <1>3 DEF ProcessOK, JobOK
  <2>3. at'[p].step \notin InFile
    BY <1>2 DEF Up, InFile
  <2>4. writer' # p
    BY <1>1, <1>3 DEF ProcessOK, TxnOK, InFile
  <2> QED
    BY <2>1, <2>2, <2>3, <2>4 DEF ProcessOK
<1>5. Alone(p)
  BY <1>1, <1>2 DEF Alone
<1>6. Shape' /\ SchemaOK(db') /\ db.record \subseteq db'.record
  BY <1>1, <1>2 DEF IInv, Shape
<1> QED
  BY <1>4, <1>5, <1>6, StepOfOne

(* A statement of p inside its transaction, with what it makes of places.  *)
LEMMA StatementKeeps ==
  ASSUME IInv, NEW p \in Processes, NEW new, WriteIn(p, new),
         \A q \in Processes \ {p} : at'[q] = at[q] /\ job'[q] = job[q],
         DOMAIN at' = Processes, DOMAIN job' = Processes,
         PlaceOK(at'[p], db), JobOK(job'[p], at'[p]), TxnOK(at'[p], new, db)
  PROVE  IInv'
<1>1. writer' = p /\ txn' = [txn EXCEPT ![p] = new] /\ db' = db /\ writer \in {Nobody, p}
  BY DEF WriteIn, CanWrite
<1>2. txn'[p] = new /\ DOMAIN txn' = Processes /\ \A q \in Processes \ {p} : txn'[q] = txn[q]
  BY <1>1 DEF IInv, Shape
<1>3. ProcessOK(p)'
  BY <1>1, <1>2 DEF ProcessOK
<1>4. Alone(p)
  BY <1>1, <1>2 DEF Alone
<1>5. Shape' /\ SchemaOK(db') /\ db.record \subseteq db'.record
  BY <1>1, <1>2 DEF IInv, Shape
<1> QED
  BY <1>3, <1>4, <1>5, StepOfOne

(* Go changes the step of one place.                                       *)
LEMMA GoOnly ==
  ASSUME IInv, NEW p \in Processes, NEW step, Go(p, step)
  PROVE  /\ DOMAIN at' = Processes /\ \A q \in Processes \ {p} : at'[q] = at[q]
         /\ at'[p] = On(step, at[p].file)
<1>1. at[p] \in Places
  BY DEF IInv, ProcessOK, PlaceOK
<1>2. [at[p] EXCEPT !.step = step] = On(step, at[p].file)
  BY <1>1 DEF Places, On
<1> QED
  BY <1>2 DEF Go, IInv, Shape

(* The place of p inside a file, and what it sees.                         *)
LEMMA FilePlace ==
  ASSUME IInv, NEW p \in Processes, at[p].step \in {"begin"} \cup InFile,
         NEW step \in {"begin"} \cup InFile
  PROVE  /\ PlaceOK(On(step, at[p].file), db)
         /\ JobOK(job[p], On(step, at[p].file))
<1>1. ProcessOK(p)
  BY DEF IInv
<1>2. at[p].file \in Nat /\ at[p].file \in 1 .. Files /\ 1 .. (at[p].file - 1) \subseteq db.record
  BY <1>1 DEF ProcessOK, PlaceOK, Places, InFile
<1>3. On(step, at[p].file) \in Places
  BY <1>2 DEF On, Places, InFile
<1>4. PlaceOK(On(step, at[p].file), db)
  BY <1>2, <1>3 DEF PlaceOK, On, InFile
<1>5. JobOK(job[p], On(step, at[p].file))
  BY <1>1 DEF ProcessOK, JobOK, InFile
<1> QED
  BY <1>4, <1>5

\* A process begins a transaction.
LEMMA BeginKeeps ==
  ASSUME IInv, NEW p \in Processes, BeginFile(p), UNCHANGED job
  PROVE  IInv'
<1>1. at[p].step = "begin" /\ WriteIn(p, db) /\ Go(p, "exec")
  BY DEF BeginFile
<1>2. /\ DOMAIN at' = Processes /\ \A q \in Processes \ {p} : at'[q] = at[q]
      /\ at'[p] = On("exec", at[p].file)
  BY <1>1, GoOnly
<1>3. PlaceOK(at'[p], db) /\ JobOK(job'[p], at'[p])
  BY <1>1, <1>2, FilePlace DEF InFile
<1>4. TxnOK(at'[p], db, db)
  BY <1>2 DEF TxnOK, On, InFile, IInv, SchemaOK
<1>5. DOMAIN job' = Processes
  BY DEF IInv, Shape
<1> QED
  BY <1>1, <1>2, <1>3, <1>4, <1>5, StatementKeeps

\* A process runs the next statement of its transaction.
LEMMA ExecKeeps ==
  ASSUME IInv, NEW p \in Processes, ExecFile(p), UNCHANGED job
  PROVE  IInv'
<1> DEFINE new == [View(p) EXCEPT !.tables = @ \cup {at[p].file}]
<1>1. at[p].step = "exec" /\ WriteIn(p, new) /\ Go(p, "record")
  BY DEF ExecFile
<1>2. /\ DOMAIN at' = Processes /\ \A q \in Processes \ {p} : at'[q] = at[q]
      /\ at'[p] = On("record", at[p].file)
  BY <1>1, GoOnly
<1>3. PlaceOK(at'[p], db) /\ JobOK(job'[p], at'[p])
  BY <1>1, <1>2, FilePlace DEF InFile
<1>4. writer = p /\ TxnOK(at[p], txn[p], db) /\ View(p) = txn[p]
  BY <1>1 DEF IInv, ProcessOK, InFile, View
<1>5. TxnOK(at'[p], new, db)
  <2>1. DOMAIN txn[p] = Fields /\ txn[p].tables = db.tables /\ txn[p].record = db.record
    BY <1>1, <1>4 DEF TxnOK
  <2>2. DOMAIN new = Fields /\ new.tables = db.tables \cup {at[p].file} /\ new.record = db.record
    BY <1>4, <2>1 DEF Fields
  <2> HIDE DEF new
  <2> QED
    BY <1>2, <2>2 DEF TxnOK, On, InFile
<1>6. DOMAIN job' = Processes
  BY DEF IInv, Shape
<1> QED
  BY <1>1, <1>2, <1>3, <1>5, <1>6, StatementKeeps

\* A process records the migration.
LEMMA RecordKeeps ==
  ASSUME IInv, NEW p \in Processes, RecordFile(p), UNCHANGED job
  PROVE  IInv'
<1> DEFINE new == [View(p) EXCEPT !.record = @ \cup {at[p].file}]
<1>1. at[p].step = "record" /\ WriteIn(p, new) /\ Go(p, "commit")
  BY DEF RecordFile
<1>2. /\ DOMAIN at' = Processes /\ \A q \in Processes \ {p} : at'[q] = at[q]
      /\ at'[p] = On("commit", at[p].file)
  BY <1>1, GoOnly
<1>3. PlaceOK(at'[p], db) /\ JobOK(job'[p], at'[p])
  BY <1>1, <1>2, FilePlace DEF InFile
<1>4. writer = p /\ TxnOK(at[p], txn[p], db) /\ View(p) = txn[p]
  BY <1>1 DEF IInv, ProcessOK, InFile, View
<1>5. TxnOK(at'[p], new, db)
  <2>1. DOMAIN txn[p] = Fields /\ txn[p].tables = db.tables \cup {at[p].file} /\ txn[p].record = db.record
    BY <1>1, <1>4 DEF TxnOK
  <2>2. /\ DOMAIN new = Fields /\ new.tables = db.tables \cup {at[p].file}
        /\ new.record = db.record \cup {at[p].file}
    BY <1>4, <2>1 DEF Fields
  <2> HIDE DEF new
  <2> QED
    BY <1>2, <2>2 DEF TxnOK, On, InFile
<1>6. DOMAIN job' = Processes
  BY DEF IInv, Shape
<1> QED
  BY <1>1, <1>2, <1>3, <1>5, <1>6, StatementKeeps

(* The commit of p, with what becomes of its place and its job.            *)
LEMMA CommitKeeps ==
  ASSUME IInv, NEW p \in Processes, Commit(p),
         \A q \in Processes \ {p} : at'[q] = at[q] /\ job'[q] = job[q],
         DOMAIN at' = Processes, DOMAIN job' = Processes,
         PlaceOK(at'[p], txn[p]), JobOK(job'[p], at'[p]), at'[p].step \notin InFile,
         at[p].step \in {"up", "commit"}
  PROVE  IInv'
<1>1. writer = p /\ writer' = Nobody /\ db' = txn[p] /\ txn' = [txn EXCEPT ![p] = NoTxn]
  BY DEF Commit
<1>2. ProcessOK(p) /\ SchemaOK(db)
  BY DEF IInv
<1>3. TxnOK(at[p], txn[p], db)
  BY <1>1, <1>2 DEF ProcessOK
<1>4. SchemaOK(txn[p]) /\ db.record \subseteq txn[p].record
  <2>1. CASE at[p].step = "up"
    BY <1>2, <1>3, <2>1 DEF TxnOK, SchemaOK
  <2>2. CASE at[p].step = "commit"
    <3> DEFINE file == at[p].file
    <3>1. file \in 1 .. Files /\ 1 .. (file - 1) \subseteq db.record /\ Files \in Nat
      BY <1>2, <2>2, DatabaseAssumption DEF ProcessOK, PlaceOK, InFile
    <3>2. /\ DOMAIN txn[p] = Fields /\ txn[p].tables = db.tables \cup {file}
          /\ txn[p].record = db.record \cup {file}
      BY <1>3, <2>2 DEF TxnOK
    <3>3. 1 .. file \subseteq db.record \cup {file}
      BY <3>1
    <3> HIDE DEF file
    <3> QED
      BY <1>2, <3>1, <3>2, <3>3 DEF SchemaOK
  <2> QED
    BY <2>1, <2>2
<1>5. p # Nobody
  BY ServerAssumption DEF Nobody
<1>6. ProcessOK(p)'
  BY <1>1, <1>5 DEF ProcessOK
<1>7. Alone(p) /\ DOMAIN txn' = Processes
  BY <1>1 DEF Alone, IInv, Shape
<1>8. Shape'
  BY <1>1, <1>7 DEF Shape
<1> QED
  BY <1>1, <1>4, <1>6, <1>7, <1>8, StepOfOne

\* A process commits the migration.
LEMMA CommitFileKeeps ==
  ASSUME IInv, NEW p \in Processes, CommitFile(p), UNCHANGED job
  PROVE  IInv'
<1>1. at[p].step = "commit" /\ Commit(p) /\ at' = [at EXCEPT ![p] = On("check", @.file + 1)]
  BY DEF CommitFile
<1>2. /\ DOMAIN at' = Processes /\ \A q \in Processes \ {p} : at'[q] = at[q]
      /\ at'[p] = On("check", at[p].file + 1)
  BY <1>1 DEF IInv, Shape
<1>3. ProcessOK(p) /\ TxnOK(at[p], txn[p], db)
  BY <1>1 DEF IInv, ProcessOK, InFile
<1>4. PlaceOK(at'[p], txn[p])
  <2> DEFINE file == at[p].file
  <2>1. file \in Nat /\ 1 .. (file - 1) \subseteq db.record
    BY <1>1, <1>3 DEF ProcessOK, PlaceOK, Places, InFile
  <2>2. txn[p].record = db.record \cup {file}
    BY <1>1, <1>3 DEF TxnOK
  <2>3. 1 .. ((file + 1) - 1) \subseteq txn[p].record
    BY <2>1, <2>2
  <2>4. at'[p].step = "check" /\ at'[p].file = file + 1 /\ at'[p] \in Places
    BY <1>2, <2>1 DEF On, Places
  <2> HIDE DEF file
  <2> QED
    BY <2>1, <2>3, <2>4 DEF PlaceOK, InFile
<1>5. JobOK(job'[p], at'[p])
  BY <1>1, <1>3 DEF ProcessOK, JobOK
<1>6. at'[p].step \notin InFile
  BY <1>2 DEF On, InFile
<1>7. DOMAIN job' = Processes
  BY DEF IInv, Shape
<1> QED
  BY <1>1, <1>2, <1>4, <1>5, <1>6, <1>7, CommitKeeps

\* Every step of a start keeps the invariant.
LEMMA StartUpKeeps ==
  ASSUME IInv, NEW p \in Processes, StartUp(p), UNCHANGED job
  PROVE  IInv'
BY OpenKeeps, CheckKeeps, BeginKeeps, ExecKeeps, RecordKeeps, CommitFileKeeps, BarsKeeps DEF StartUp

-------------------------------------------------------------------------------
(* The end of a process, and its work.                                     *)

\* The end or the crash of a process keeps the invariant.
LEMMA EndsKeeps ==
  ASSUME IInv, NEW p \in Processes, Ends(p)
  PROVE  IInv'
<1>1. /\ writer' = (IF writer = p THEN Nobody ELSE writer)
      /\ txn' = [txn EXCEPT ![p] = NoTxn] /\ db' = db
      /\ at' = [at EXCEPT ![p] = Off] /\ job' = [job EXCEPT ![p] = Idle]
  BY DEF Ends, Throws, Killed, Rollback
<1>2. /\ DOMAIN txn' = Processes /\ DOMAIN at' = Processes /\ DOMAIN job' = Processes
      /\ at'[p] = Off /\ job'[p] = Idle
      /\ \A q \in Processes \ {p} : at'[q] = at[q] /\ job'[q] = job[q] /\ txn'[q] = txn[q]
  BY <1>1 DEF IInv, Shape
<1>3. p # Nobody
  BY ServerAssumption DEF Nobody
<1>4. ProcessOK(p)'
  BY <1>1, <1>2, <1>3 DEF ProcessOK, PlaceOK, Places, JobOK, Off, Idle, InFile
<1>5. Alone(p)
  BY <1>1, <1>2 DEF Alone
<1>6. Shape' /\ SchemaOK(db') /\ db.record \subseteq db'.record
  BY <1>1, <1>2 DEF IInv, Shape
<1> QED
  BY <1>4, <1>5, <1>6, StepOfOne

(* A statement outside of any transaction, or none, and a change of jobs.  *)
LEMMA WorkKeeps ==
  ASSUME IInv, NEW p \in Processes, UNCHANGED <<txn, writer, at>>,
         db' = db \/ (writer = Nobody /\ SameSchema(db, db')),
         \A q \in Processes \ {p} : job'[q] = job[q],
         DOMAIN job' = Processes, JobOK(job'[p], at[p])
  PROVE  IInv'
<1>1. SchemaOK(db) /\ ProcessOK(p)
  BY DEF IInv
<1>2. SchemaOK(db') /\ db.record \subseteq db'.record
  <2>1. CASE db' = db
    BY <1>1, <2>1
  <2>2. CASE SameSchema(db, db')
    BY <1>1, <2>2 DEF SchemaOK, SameSchema
  <2> QED
    BY <2>1, <2>2
<1>3. p # Nobody
  BY ServerAssumption DEF Nobody
<1>4. PlaceOK(at[p], db')
  BY <1>1, <1>2, PlaceStays DEF ProcessOK
<1>5. ProcessOK(p)'
  BY <1>1, <1>3, <1>4 DEF ProcessOK
<1>6. Alone(p)
  BY DEF Alone
<1>7. Shape'
  BY DEF IInv, Shape
<1> QED
  BY <1>2, <1>5, <1>6, <1>7, StepOfOne

(* The handlers that neither migrate nor store a run.                      *)
LEMMA HandlersKeep ==
  ASSUME IInv,
         Register \/ Login \/ TokenExpires \/ CreateBook \/ StoreBook \/ StartRun \/ CliRun
  PROVE  IInv'
<1>1. /\ {"server", "cli"} = Processes /\ DOMAIN job = Processes /\ DOMAIN db = Fields
      /\ \A p \in Processes : JobOK(job[p], at[p])
  BY ServerAssumption DEF IInv, Shape, SchemaOK, ProcessOK
<1>2. CASE Register
  <2>1. writer = Nobody /\ UNCHANGED <<txn, writer, at, job>>
    BY <1>2 DEF Register
  <2>2. PICK user : db' = [db EXCEPT !.users = Append(@, user)]
    BY <1>2 DEF Register, RegisterUser
  <2>3. SameSchema(db, db')
    BY <1>1, <2>2 DEF SameSchema, Fields
  <2> QED
    BY <1>1, <2>1, <2>3, WorkKeeps
<1>3. CASE Login \/ TokenExpires
  <2>1. UNCHANGED <<db, txn, writer, at, job>>
    BY <1>3 DEF Login, TokenExpires, databaseVars
  <2> QED
    BY <1>1, <2>1, WorkKeeps
<1>4. CASE CreateBook
  <2>1. at["server"] = Up /\ UNCHANGED <<db, txn, writer, at>>
    BY <1>4 DEF CreateBook, Free, databaseVars
  <2>2. PICK user, capital :
          job' = [job EXCEPT !["server"] = [kind |-> "create", user |-> user, id |-> nextBook,
                                            capital |-> capital, seen |-> db]]
    BY <1>4 DEF CreateBook
  <2>3. /\ DOMAIN job' = Processes /\ \A q \in Processes \ {"server"} : job'[q] = job[q]
        /\ job'["server"].kind = "create"
    BY <1>1, <2>2
  <2>4. JobOK(job'["server"], at["server"])
    BY <2>1, <2>3 DEF JobOK, Up
  <2> QED
    BY <1>1, <2>1, <2>3, <2>4, WorkKeeps
<1>5. CASE StoreBook
  <2> DEFINE j == job["server"]
             d == InsertUser(db, j.user, UserOf(Placeholder(j.user), Unset, "user"))
             e == InsertBook(d, j.id, Book(j.user, "api", j.capital, j.capital))
  <2>1. /\ UNCHANGED <<txn, writer, at>> /\ job' = [job EXCEPT !["server"] = Idle]
        /\ db' = db \/ (writer = Nobody /\ db' = e)
    BY <1>5 DEF StoreBook
  <2>2. SameSchema(db, d)
    BY <1>1, RowsOfUsers
  <2> HIDE DEF d
  <2>3. SameSchema(d, e)
    BY <2>2, SameSchemaDomain, RowsOfBooks
  <2> HIDE DEF e
  <2>4. SameSchema(db, e)
    BY <2>2, <2>3, SameSchemaTwice
  <2>5. /\ DOMAIN job' = Processes /\ \A q \in Processes \ {"server"} : job'[q] = job[q]
        /\ job'["server"] = Idle
    BY <1>1, <2>1
  <2>6. JobOK(job'["server"], at["server"])
    BY <2>5 DEF JobOK, Idle
  <2> QED
    BY <1>1, <2>1, <2>4, <2>5, <2>6, WorkKeeps
<1>6. ASSUME NEW p \in Processes, NEW asked, NEW run, Persist(p, asked, run), at[p] = Up,
             UNCHANGED databaseVars
      PROVE  IInv'
  <2>1. job' = [job EXCEPT ![p] = [kind |-> "persist", asked |-> asked, run |-> run, stage |-> 1]]
        /\ UNCHANGED <<db, txn, writer, at>>
    BY <1>6 DEF Persist, databaseVars
  <2>2. /\ DOMAIN job' = Processes /\ \A q \in Processes \ {p} : job'[q] = job[q]
        /\ job'[p] = [kind |-> "persist", asked |-> asked, run |-> run, stage |-> 1]
    BY <1>1, <2>1
  <2>3. JobOK(job'[p], at[p])
    BY <1>6, <2>2 DEF JobOK, Up
  <2> QED
    BY <2>1, <2>2, <2>3, WorkKeeps
<1>7. CASE StartRun
  <2>1. at["server"] = Up /\ UNCHANGED databaseVars /\ \E asked, run : Persist("server", asked, run)
    BY <1>7 DEF StartRun, Free
  <2> QED
    BY <1>1, <1>6, <2>1
<1>8. CASE CliRun
  <2>1. at["cli"] = Up /\ UNCHANGED databaseVars /\ \E asked, run : Persist("cli", asked, run)
    BY <1>8 DEF CliRun, Free
  <2> QED
    BY <1>1, <1>6, <2>1
<1> QED
  BY <1>2, <1>3, <1>4, <1>5, <1>7, <1>8

(* persist_run, stage by stage.                                            *)
LEMMA PersistKeeps ==
  ASSUME IInv, NEW p \in Processes, PersistStage(p) \/ PersistCommit(p)
  PROVE  IInv'
<1>1. job[p].kind = "persist" /\ ProcessOK(p) /\ DOMAIN job = Processes /\ DOMAIN at = Processes
  BY DEF PersistStage, PersistCommit, IInv, Shape
<1>2. /\ at[p].step = "up" /\ job[p].stage \in 1 .. 4
      /\ DOMAIN job[p] = {"kind", "asked", "run", "stage"} /\ PlaceOK(at[p], db)
  BY <1>1 DEF ProcessOK, JobOK
<1>3. ASSUME writer = p
      PROVE  TxnOK(at[p], txn[p], db) /\ DOMAIN txn[p] = Fields
             /\ txn[p].tables = db.tables /\ txn[p].record = db.record
  BY <1>1, <1>2, <1>3 DEF ProcessOK, TxnOK
<1>4. CASE PersistStage(p)
  <2> DEFINE stage == Stages[job[p].stage]
             new   == Write(stage, View(p), job[p].run)
  <2>1. /\ stage # "commit" /\ WriteIn(p, new)
        /\ job' = [job EXCEPT ![p].stage = @ + 1] /\ at' = at
    BY <1>4 DEF PersistStage
  <2>2. stage \in {"workbook", "run", "rows"} /\ job[p].stage \in 1 .. 3
    BY <1>2, <2>1 DEF Stages
  <2>3. DOMAIN View(p) = Fields /\ View(p).tables = db.tables /\ View(p).record = db.record
    BY <1>3 DEF View, IInv, SchemaOK
  <2>4. SameSchema(View(p), new)
    BY <2>2, <2>3, WriteKeepsSchema
  <2> HIDE DEF stage, new
  <2>5. TxnOK(at[p], new, db)
    BY <1>2, <2>3, <2>4 DEF TxnOK, SameSchema, InFile
  <2>6. /\ DOMAIN job' = Processes /\ \A q \in Processes \ {p} : job'[q] = job[q]
        /\ job'[p] = [job[p] EXCEPT !.stage = @ + 1]
    BY <1>1, <2>1
  <2>7. JobOK(job'[p], at[p])
    <3> DEFINE j == [job[p] EXCEPT !.stage = @ + 1]
    <3>1. DOMAIN j = {"kind", "asked", "run", "stage"} /\ j.stage = job[p].stage + 1 /\ j.kind = "persist"
      BY <1>1, <1>2
    <3> HIDE DEF j
    <3>2. j.stage \in 1 .. 4
      BY <2>2, <3>1
    <3>3. JobOK(j, at[p])
      BY <1>2, <3>1, <3>2 DEF JobOK
    <3> QED
      BY <2>6, <3>3 DEF j
  <2> QED
    BY <1>1, <1>2, <2>1, <2>5, <2>6, <2>7, StatementKeeps
<1>5. CASE PersistCommit(p)
  <2>1. /\ Commit(p) /\ job' = [job EXCEPT ![p] = Idle]
        /\ at' = (IF p = "cli" THEN [at EXCEPT ![p] = Off] ELSE at)
    BY <1>5 DEF PersistCommit
  <2>2. /\ DOMAIN job' = Processes /\ \A q \in Processes \ {p} : job'[q] = job[q]
        /\ job'[p] = Idle
    BY <1>1, <2>1
  <2>3. /\ DOMAIN at' = Processes /\ \A q \in Processes \ {p} : at'[q] = at[q]
        /\ at'[p] \in {at[p], Off}
    BY <1>1, <2>1
  <2>4. txn[p].record = db.record
    BY <1>3, <2>1 DEF Commit
  <2>5. PlaceOK(at'[p], txn[p]) /\ at'[p].step \notin InFile
    <3>1. CASE at'[p] = at[p]
      BY <1>2, <2>4, <3>1 DEF PlaceOK, InFile
    <3>2. CASE at'[p] = Off
      BY <3>2 DEF PlaceOK, Places, Off, InFile
    <3> QED
      BY <2>3, <3>1, <3>2
  <2>6. JobOK(job'[p], at'[p])
    BY <2>2 DEF JobOK, Idle
  <2> QED
    BY <1>2, <2>1, <2>2, <2>3, <2>5, <2>6, CommitKeeps
<1> QED
  BY <1>4, <1>5

-------------------------------------------------------------------------------
\* An empty database, no process.
LEMMA InitHolds == Init => IInv
<1> SUFFICES ASSUME Init PROVE IInv
  OBVIOUS
<1>1. /\ db = EmptyDb /\ txn = [p \in Processes |-> NoTxn] /\ writer = Nobody
      /\ at = [p \in Processes |-> Off] /\ job = [p \in Processes |-> Idle]
  BY DEF Init, InitDatabase
<1>2. SchemaOK(db)
  BY <1>1 DEF SchemaOK, EmptyDb, Fields
<1>3. Nobody \notin Processes
  BY ServerAssumption DEF Nobody
<1>4. ASSUME NEW p \in Processes PROVE ProcessOK(p)
  BY <1>1, <1>3 DEF ProcessOK, PlaceOK, Places, JobOK, Off, Idle, InFile
<1> QED
  BY <1>1, <1>2, <1>4 DEF IInv, Shape

\* Every step keeps the invariant.
LEMMA NextKeeps ==
  ASSUME IInv, [Next]_serverVars
  PROVE  IInv'
<1>1. ASSUME NEW p \in Processes, StartUp(p) /\ UNCHANGED <<tokens, nextBook, job>>
      PROVE  IInv'
  BY <1>1, StartUpKeeps
<1>2. CASE UNCHANGED serverVars
  BY <1>2 DEF serverVars, IInv, Shape, ProcessOK
<1> QED
  BY <1>1, <1>2, HandlersKeep, PersistKeeps, EndsKeeps DEF Next

(* The database, its transactions and the places of the processes fit      *)
(* together in every reachable state.                                      *)
THEOREM Inductive == Spec => []IInv
  BY InitHolds, NextKeeps, PTL DEF Spec

(* Killed, failing or migrating at the same time, the processes leave a    *)
(* schema that is what its log says, without gaps, and only work on the    *)
(* whole of it, for any number of files.                                   *)
THEOREM SchemaCorrect == Spec => []SchemaIsWhole
<1>1. IInv => SchemaIsWhole
  BY DEF IInv, SchemaOK, ProcessOK, PlaceOK, SchemaIsWhole, Up
<1> QED
  BY Inductive, <1>1, PTL
-------------------------------------------------------------------------------
(* Sequences of sequences.                                                 *)

\* A set of naturals that holds 0 and is closed under successor is Nat.
LEMMA SetInduction ==
  ASSUME NEW T \in SUBSET Nat, 0 \in T, \A k \in T : k + 1 \in T
  PROVE  T = Nat
<1>1. SUFFICES ASSUME Nat \ T # {} PROVE FALSE
  OBVIOUS
<1>2. PICK x \in Nat \ T : \A y \in Nat \ T : ~ (<<y, x>> \in LessThan)
  <2>1. Nat \ T \subseteq Nat
    OBVIOUS
  <2> QED
    BY <1>1, <2>1, LessThanWellFounded, WFMin
<1>3. x - 1 \in Nat /\ (x - 1) + 1 = x
  OBVIOUS
<1>4. <<x - 1, x>> \in LessThan
  BY <1>3 DEF LessThan
<1> QED
  BY <1>2, <1>3, <1>4

\* The parts of what is flattened: each is the one before, and one sequence more.
IsFlat(f, ss, n, S) ==
  /\ f \in [1 .. n -> Seq(S)]
  /\ \A i \in 1 .. n : f[i] = IF i = 1 THEN ss[i] ELSE f[i - 1] \o ss[i]

\* There are such parts.
LEMMA FlatExists ==
  ASSUME NEW S, NEW n \in Nat, NEW ss \in [1 .. n -> Seq(S)]
  PROVE  \E f : IsFlat(f, ss, n, S)
<1> DEFINE T == {m \in Nat : m <= n => \E f : IsFlat(f, ss, m, S)}
<1>1. 0 \in T
  <2>1. IsFlat([i \in 1 .. 0 |-> ss[i]], ss, 0, S)
    BY DEF IsFlat
  <2> QED
    BY <2>1
<1>2. ASSUME NEW m \in T PROVE m + 1 \in T
  <2>1. SUFFICES ASSUME m + 1 <= n PROVE \E f : IsFlat(f, ss, m + 1, S)
    OBVIOUS
  <2>2. PICK f : IsFlat(f, ss, m, S)
    BY <2>1
  <2> DEFINE new == IF m = 0 THEN ss[1] ELSE f[m] \o ss[m + 1]
  <2> DEFINE g == [i \in 1 .. (m + 1) |-> IF i = m + 1 THEN new ELSE f[i]]
  <2>3. new \in Seq(S)
    <3>1. m + 1 \in 1 .. n /\ ss[m + 1] \in Seq(S)
      BY <2>1
    <3>2. CASE m = 0
      BY <3>1, <3>2
    <3>3. CASE m # 0
      <4>1. m \in 1 .. m
        BY <3>3
      <4>2. f[m] \in Seq(S)
        BY <2>2, <4>1 DEF IsFlat
      <4> QED
        BY <3>1, <3>3, <4>2
    <3> QED
      BY <3>2, <3>3
  <2> HIDE DEF new
  <2>4. g[m + 1] = new /\ \A i \in 1 .. m : g[i] = f[i]
    <3>1. m \in Nat
      OBVIOUS
    <3> QED
      BY <3>1
  <2>5. g \in [1 .. (m + 1) -> Seq(S)]
    BY <2>2, <2>3 DEF IsFlat
  <2>6. ASSUME NEW i \in 1 .. (m + 1)
        PROVE  g[i] = IF i = 1 THEN ss[i] ELSE g[i - 1] \o ss[i]
    <3>1. CASE i = m + 1
      <4>1. CASE m = 0
        <5>1. g[i] = ss[1] /\ i = 1
          BY <2>4, <3>1, <4>1 DEF new
        <5> HIDE DEF g
        <5> QED
          BY <5>1
      <4>2. CASE m # 0
        <5>1. i # 1 /\ i - 1 = m /\ m \in 1 .. m
          BY <3>1, <4>2
        <5>2. g[i - 1] = f[m]
          BY <2>4, <5>1
        <5> HIDE DEF g
        <5> QED
          BY <2>4, <3>1, <4>2, <5>1, <5>2 DEF new
      <4> QED
        BY <4>1, <4>2
    <3>2. CASE i # m + 1
      <4>1. i \in 1 .. m
        BY <3>2
      <4>2. f[i] = IF i = 1 THEN ss[i] ELSE f[i - 1] \o ss[i]
        BY <2>2, <4>1 DEF IsFlat
      <4>3. i # 1 => i - 1 \in 1 .. m
        BY <4>1
      <4> HIDE DEF g
      <4> QED
        BY <2>4, <4>1, <4>2, <4>3
    <3> QED
      BY <3>1, <3>2
  <2> QED
    BY <2>5, <2>6 DEF IsFlat
<1>3. T = Nat
  <2> HIDE DEF T
  <2>1. T \in SUBSET Nat
    BY DEF T
  <2> QED
    BY <1>1, <1>2, <2>1, SetInduction
<1>4. n \in T
  BY <1>3
<1> QED
  BY <1>4

\* What is flattened is the last of its parts.
LEMMA FlattenIs ==
  ASSUME NEW S, NEW n \in Nat \ {0}, NEW ss \in [1 .. n -> Seq(S)]
  PROVE  \E f : IsFlat(f, ss, n, S) /\ FlattenSeq(ss) = f[n]
<1> DEFINE Eq(f) == f = [i \in 1 .. n |-> IF i = 1 THEN ss[i] ELSE f[i - 1] \o ss[i]]
           g == CHOOSE f : Eq(f)
<1>1. Len(ss) = n
  <2>1. ss \in Seq(Seq(S)) /\ DOMAIN ss = 1 .. n
    OBVIOUS
  <2> QED
    BY <2>1
<1>2. \E f : Eq(f)
  <2>1. PICK f : IsFlat(f, ss, n, S)
    BY FlatExists
  <2>2. Eq(f)
    BY <2>1 DEF IsFlat
  <2> QED
    BY <2>2
<1>3. Eq(g)
  BY <1>2
<1>4. FlattenSeq(ss) = g[n]
  BY <1>1 DEF FlattenSeq
<1> HIDE DEF g
<1>5. DOMAIN g = 1 .. n /\ \A i \in 1 .. n : g[i] = IF i = 1 THEN ss[i] ELSE g[i - 1] \o ss[i]
  BY <1>3
<1>6. \A i \in 1 .. n : g[i] \in Seq(S)
  <2> DEFINE T == {m \in Nat : m \in 1 .. n => g[m] \in Seq(S)}
  <2>1. 0 \in T
    OBVIOUS
  <2>2. ASSUME NEW m \in T PROVE m + 1 \in T
    <3>1. SUFFICES ASSUME m + 1 \in 1 .. n PROVE g[m + 1] \in Seq(S)
      OBVIOUS
    <3>2. ss[m + 1] \in Seq(S)
      BY <3>1
    <3>3. CASE m = 0
      BY <1>5, <3>1, <3>2, <3>3
    <3>4. CASE m # 0
      <4>1. m \in 1 .. n /\ (m + 1) - 1 = m /\ m + 1 # 1
        BY <3>1, <3>4
      <4>2. g[m] \in Seq(S) /\ g[m + 1] = g[m] \o ss[m + 1]
        BY <1>5, <3>1, <4>1
      <4> QED
        BY <3>2, <4>2
    <3> QED
      BY <3>3, <3>4
  <2>3. T = Nat
    <3> HIDE DEF T
    <3>1. T \in SUBSET Nat
      BY DEF T
    <3> QED
      BY <2>1, <2>2, <3>1, SetInduction
  <2> QED
    BY <2>3
<1>7. IsFlat(g, ss, n, S)
  <2>1. g \in [1 .. n -> Seq(S)]
    BY <1>3, <1>5, <1>6
  <2> QED
    BY <1>5, <2>1 DEF IsFlat
<1> QED
  BY <1>4, <1>7

\* One sequence more is appended to what there was.
LEMMA FlattenExtend ==
  ASSUME NEW S, NEW n \in Nat, NEW ss \in [1 .. n -> Seq(S)], NEW tt \in [1 .. (n + 1) -> Seq(S)],
         \A i \in 1 .. n : tt[i] = ss[i]
  PROVE  FlattenSeq(tt) = FlattenSeq(ss) \o tt[n + 1]
<1>1. PICK g : IsFlat(g, tt, n + 1, S) /\ FlattenSeq(tt) = g[n + 1]
  BY FlattenIs
<1>2. g[n + 1] = IF n + 1 = 1 THEN tt[n + 1] ELSE g[(n + 1) - 1] \o tt[n + 1]
  <2>1. n + 1 \in 1 .. (n + 1)
    OBVIOUS
  <2> QED
    BY Zenon, <1>1, <2>1 DEF IsFlat
<1>3. CASE n = 0
  <2>1. ss = << >>
    BY <1>3
  <2>2. Len(ss) = 0
    BY <2>1
  <2>3. FlattenSeq(ss) = << >>
    BY <2>1, <2>2 DEF FlattenSeq
  <2>4. tt[n + 1] \in Seq(S)
    BY <1>3
  <2>5. << >> \o tt[n + 1] = tt[n + 1]
    BY <2>4
  <2> QED
    BY <1>1, <1>2, <1>3, <2>3, <2>5
<1>4. CASE n # 0
  <2>1. PICK f : IsFlat(f, ss, n, S) /\ FlattenSeq(ss) = f[n]
    BY <1>4, FlattenIs
  <2> DEFINE T == {m \in Nat : m \in 1 .. n => g[m] = f[m]}
  <2>2. 0 \in T
    OBVIOUS
  <2>3. ASSUME NEW m \in T PROVE m + 1 \in T
    <3>1. SUFFICES ASSUME m + 1 \in 1 .. n PROVE g[m + 1] = f[m + 1]
      OBVIOUS
    <3>2. m + 1 \in 1 .. (n + 1) /\ (m + 1) - 1 = m /\ tt[m + 1] = ss[m + 1]
      BY <3>1
    <3>3. /\ g[m + 1] = IF m + 1 = 1 THEN tt[m + 1] ELSE g[(m + 1) - 1] \o tt[m + 1]
          /\ f[m + 1] = IF m + 1 = 1 THEN ss[m + 1] ELSE f[(m + 1) - 1] \o ss[m + 1]
      BY <1>1, <2>1, <3>1, <3>2 DEF IsFlat
    <3>4. m + 1 # 1 => g[m] = f[m]
      BY <3>1
    <3> QED
      BY <3>2, <3>3, <3>4
  <2>4. T = Nat
    <3> HIDE DEF T
    <3>1. T \in SUBSET Nat
      BY DEF T
    <3> QED
      BY <2>2, <2>3, <3>1, SetInduction
  <2>5. g[n] = f[n]
    <3>1. n \in T
      BY <2>4
    <3>2. n \in 1 .. n
      BY <1>4
    <3> QED
      BY <3>1, <3>2
  <2>6. (n + 1) - 1 = n /\ n + 1 # 1
    BY <1>4
  <2> QED
    BY <1>1, <1>2, <2>1, <2>5, <2>6
<1> QED
  BY <1>3, <1>4

-------------------------------------------------------------------------------
(* What the rows are, and how they belong together.                        *)

UserRows      == [name : Names \cup {Placeholder(n) : n \in Nat}, password : Passwords \cup {Unset}, role : {"user"}]
BookFields    == {"user", "name", "main", "available"}
Events        == [book : {FirstBook}, type : {"created", "borrow", "return"}, amount : Int]
RunRows       == [book : {FirstBook}, capital : Int, fills : Nat, returned : Int]
ContainerRows == [run : Nat]
FillRows      == [run : Nat, container : Nat]

Typed(d) ==
  /\ DOMAIN d = Fields
  /\ d.users \in Seq(UserRows) /\ d.events \in Seq(Events) /\ d.runs \in Seq(RunRows)
  /\ d.containers \in Seq(ContainerRows) /\ d.fills \in Seq(FillRows)
  /\ \A i \in DOMAIN d.books : /\ DOMAIN d.books[i] = BookFields
                               /\ d.books[i].main \in Int /\ d.books[i].available \in Int

\* Containers belong to runs, and fills to containers of their runs.
Belong(d) ==
  /\ \A i \in DOMAIN d.containers : d.containers[i].run \in DOMAIN d.runs
  /\ \A i \in DOMAIN d.fills :
       /\ d.fills[i].run \in DOMAIN d.runs /\ d.fills[i].container \in DOMAIN d.containers
       /\ d.containers[d.fills[i].container].run = d.fills[i].run

Complete(d) == \A r \in DOMAIN d.runs : Cardinality(ListFills(d, r)) = d.runs[r].fills

Told(d) == d.events = FlattenSeq([i \in DOMAIN d.runs |-> EventsOf(d.runs[i].book, d.runs[i])])

\* A run is listed under a workbook that is stored.
Listed(d) == \A i \in DOMAIN d.runs : d.runs[i].book \in DOMAIN d.books

Whole(d) == Typed(d) /\ Belong(d) /\ Complete(d) /\ Told(d) /\ Listed(d)

\* What is there stays there, and what comes belongs to what is new.
Grows(d, e) ==
  /\ \A i \in DOMAIN d.users : i \in DOMAIN e.users /\ e.users[i] = d.users[i]
  /\ \A i \in DOMAIN d.books :
       i \in DOMAIN e.books /\ e.books[i].user = d.books[i].user /\ e.books[i].name = d.books[i].name
  /\ \A i \in DOMAIN d.runs : i \in DOMAIN e.runs /\ e.runs[i] = d.runs[i]
  /\ \A i \in DOMAIN d.fills : i \in DOMAIN e.fills /\ e.fills[i] = d.fills[i]
  /\ \A i \in DOMAIN e.fills \ DOMAIN d.fills : e.fills[i].run \notin DOMAIN d.runs
  /\ \A i \in DOMAIN d.runs, j \in DOMAIN e.runs \ DOMAIN d.runs : i < j

\* A statement on the schema leaves the rows alone.
SameRows(d, e) ==
  /\ DOMAIN e = Fields
  /\ e.users = d.users /\ e.books = d.books /\ e.events = d.events /\ e.runs = d.runs
  /\ e.containers = d.containers /\ e.fills = d.fills

(* What a statement on the schema means for the rows.                      *)
LEMMA SameRowsWhole ==
  ASSUME NEW d, Whole(d), NEW e, SameRows(d, e)
  PROVE  Whole(e) /\ Grows(d, e)
<1>1. /\ e.users = d.users /\ e.books = d.books /\ e.events = d.events /\ e.runs = d.runs
      /\ e.containers = d.containers /\ e.fills = d.fills /\ DOMAIN e = Fields
  BY DEF SameRows
<1>2. Typed(e)
  BY <1>1 DEF Whole, Typed
<1>3. Belong(e) /\ Told(e) /\ Listed(e)
  BY <1>1 DEF Whole, Belong, Told, Listed
<1>4. Complete(e)
  BY <1>1 DEF Whole, Complete, ListFills
<1>5. Grows(d, e)
  BY <1>1 DEF Grows
<1> QED
  BY <1>2, <1>3, <1>4, <1>5 DEF Whole

\* A row more in users or workbooks, or a change of other workbooks than that of the runs.
MoreBooks(d, e) ==
  /\ Typed(e)
  /\ \A i \in DOMAIN d.users : i \in DOMAIN e.users /\ e.users[i] = d.users[i]
  /\ \A i \in DOMAIN d.books : i \in DOMAIN e.books /\ e.books[i] = d.books[i]
  /\ e.events = d.events /\ e.runs = d.runs /\ e.containers = d.containers /\ e.fills = d.fills

(* A row more in users or workbooks breaks no run.                         *)
LEMMA MoreBooksWhole ==
  ASSUME NEW d, Whole(d), NEW e, MoreBooks(d, e)
  PROVE  Whole(e) /\ Grows(d, e)
<1>1. /\ Typed(e) /\ e.events = d.events /\ e.runs = d.runs
      /\ e.containers = d.containers /\ e.fills = d.fills
      /\ \A i \in DOMAIN d.users : i \in DOMAIN e.users /\ e.users[i] = d.users[i]
      /\ \A i \in DOMAIN d.books : i \in DOMAIN e.books /\ e.books[i] = d.books[i]
  BY DEF MoreBooks
<1>2. Belong(e) /\ Told(e) /\ Listed(e)
  BY <1>1 DEF Whole, Belong, Told, Listed
<1>3. Complete(e)
  BY <1>1 DEF Whole, Complete, ListFills
<1>4. Grows(d, e)
  BY <1>1 DEF Grows
<1> QED
  BY <1>1, <1>2, <1>3, <1>4 DEF Whole

\* A row of users more.
LEMMA UserAdded ==
  ASSUME NEW d, Typed(d), NEW id, NEW user \in UserRows
  PROVE  MoreBooks(d, InsertUser(d, id, user)) /\ MoreBooks(d, [d EXCEPT !.users = Append(@, user)])
<1> DEFINE e == [d EXCEPT !.users = Append(@, user)]
<1>1. /\ DOMAIN e = Fields /\ e.users = Append(d.users, user) /\ e.books = d.books
      /\ e.events = d.events /\ e.runs = d.runs /\ e.containers = d.containers /\ e.fills = d.fills
  BY DEF Typed, Fields
<1> HIDE DEF e
<1>2. d.users \in Seq(UserRows)
  BY DEF Typed
<1>3. Append(d.users, user) \in Seq(UserRows)
      /\ \A i \in DOMAIN d.users : i \in DOMAIN Append(d.users, user) /\ Append(d.users, user)[i] = d.users[i]
  BY <1>2
<1>4. Typed(e)
  BY <1>1, <1>3 DEF Typed
<1>5. MoreBooks(d, e)
  BY <1>1, <1>3, <1>4 DEF MoreBooks
<1>6. MoreBooks(d, d)
  BY DEF MoreBooks
<1>7. InsertUser(d, id, user) = e \/ InsertUser(d, id, user) = d
  BY DEF InsertUser, e
<1> QED
  BY <1>5, <1>6, <1>7 DEF e

\* A workbook more, unless its id is taken.
LEMMA BookAdded ==
  ASSUME NEW d, Typed(d), NEW id, NEW book, DOMAIN book = BookFields, book.main \in Int, book.available \in Int
  PROVE  MoreBooks(d, InsertBook(d, id, book))
<1> DEFINE more == [i \in DOMAIN d.books \cup {id} |-> IF i = id THEN book ELSE d.books[i]]
           e == [d EXCEPT !.books = more]
<1>1. CASE id \in DOMAIN d.books
  BY <1>1 DEF InsertBook, MoreBooks
<1>2. CASE id \notin DOMAIN d.books
  <2>1. InsertBook(d, id, book) = e
    BY <1>2 DEF InsertBook, WithBook
  <2>2. /\ DOMAIN more = DOMAIN d.books \cup {id} /\ more[id] = book
        /\ \A i \in DOMAIN d.books : more[i] = d.books[i]
    BY <1>2
  <2> HIDE DEF more
  <2>3. /\ DOMAIN e = Fields /\ e.users = d.users /\ e.books = more
        /\ e.events = d.events /\ e.runs = d.runs /\ e.containers = d.containers /\ e.fills = d.fills
    BY DEF Typed, Fields
  <2> HIDE DEF e
  <2>4. Typed(e)
    BY <2>2, <2>3 DEF Typed
  <2>5. MoreBooks(d, e)
    BY <2>2, <2>3, <2>4 DEF MoreBooks
  <2> QED
    BY <2>1, <2>5
<1> QED
  BY <1>1, <1>2

\* Two such changes are one.
LEMMA MoreTwice ==
  ASSUME NEW d, NEW e, NEW f, MoreBooks(d, e), MoreBooks(e, f)
  PROVE  MoreBooks(d, f)
BY DEF MoreBooks

-------------------------------------------------------------------------------
(* A run is stored.                                                        *)

RunRec(run) ==
  /\ run.user \in Nat /\ run.capital \in Int /\ run.returned \in Int
  /\ run.containers \in Nat /\ run.fills \in Seq(1 .. run.containers)

BooksAfter(b, c, run) ==
  /\ DOMAIN c = DOMAIN b \cup {FirstBook}
  /\ \A i \in DOMAIN b : c[i].user = b[i].user /\ c[i].name = b[i].name

UsersGrow(d, e) == \A i \in DOMAIN d.users : i \in DOMAIN e.users /\ e.users[i] = d.users[i]

(* The events of a run are events.                                         *)
LEMMA EventsType ==
  ASSUME NEW run, run.capital \in Int, run.returned \in Int
  PROVE  EventsOf(FirstBook, run) \in Seq(Events)
<1>1. Event(FirstBook, "created", run.capital) \in Events /\ Event(FirstBook, "borrow", run.capital) \in Events
      /\ Event(FirstBook, "return", run.returned) \in Events
  BY DEF Event, Events
<1>2. <<Event(FirstBook, "created", run.capital), Event(FirstBook, "borrow", run.capital)>> \in Seq(Events)
  BY <1>1
<1>3. (IF run.returned >= 0 THEN <<Event(FirstBook, "return", run.returned)>> ELSE << >>) \in Seq(Events)
  BY <1>1
<1> QED
  BY <1>2, <1>3 DEF EventsOf

(* The workbook of a run, new or with what the run made of it.             *)
LEMMA UpsertParts ==
  ASSUME NEW d, Typed(d), NEW run, run.capital \in Int, run.returned \in Int
  PROVE  LET e == UpsertBook(d, run) IN
         /\ DOMAIN e = Fields /\ e.users = d.users /\ e.events = d.events /\ e.runs = d.runs
         /\ e.containers = d.containers /\ e.fills = d.fills
         /\ BooksAfter(d.books, e.books, run)
         /\ \A i \in DOMAIN e.books : /\ DOMAIN e.books[i] = BookFields
                                      /\ e.books[i].main \in Int /\ e.books[i].available \in Int
<1> DEFINE e   == UpsertBook(d, run)
           new == AfterRun(run)
           more == [i \in DOMAIN d.books \cup {FirstBook} |-> IF i = FirstBook THEN new ELSE d.books[i]]
           old == [d.books[FirstBook] EXCEPT !.main = new.main, !.available = new.available]
           c   == [d.books EXCEPT ![FirstBook] = old]
<1>1. DOMAIN new = BookFields /\ new.main \in Int /\ new.available \in Int
  BY DEF AfterRun, Book, BookFields
<1>2. CASE FirstBook \notin DOMAIN d.books
  <2>1. e = [d EXCEPT !.books = more]
    BY <1>2 DEF UpsertBook, WithBook
  <2>2. /\ DOMAIN more = DOMAIN d.books \cup {FirstBook} /\ more[FirstBook] = new
        /\ \A i \in DOMAIN d.books : more[i] = d.books[i]
    BY <1>2
  <2> HIDE DEF new, more
  <2>3. /\ DOMAIN e = Fields /\ e.users = d.users /\ e.events = d.events /\ e.runs = d.runs
        /\ e.containers = d.containers /\ e.fills = d.fills /\ e.books = more
    BY <2>1 DEF Typed, Fields
  <2> HIDE DEF e
  <2>4. BooksAfter(d.books, e.books, run)
    BY <1>1, <2>2, <2>3 DEF BooksAfter
  <2>5. \A i \in DOMAIN e.books : /\ DOMAIN e.books[i] = BookFields
                                  /\ e.books[i].main \in Int /\ e.books[i].available \in Int
    BY <1>1, <2>2, <2>3 DEF Typed
  <2> QED
    BY <2>3, <2>4, <2>5 DEF e
<1>3. CASE FirstBook \in DOMAIN d.books
  <2> HIDE DEF new
  <2>1. e = [d EXCEPT !.books[FirstBook].main = new.main, !.books[FirstBook].available = new.available]
    BY <1>3 DEF UpsertBook, new
  <2>2. /\ DOMAIN e = Fields /\ e.users = d.users /\ e.events = d.events /\ e.runs = d.runs
        /\ e.containers = d.containers /\ e.fills = d.fills
    BY <2>1 DEF Typed, Fields
  <2>3. DOMAIN e.books = DOMAIN d.books /\ \A i \in DOMAIN d.books : i # FirstBook => e.books[i] = d.books[i]
    BY <2>1 DEF Typed, Fields
  <2>4. /\ DOMAIN e.books[FirstBook] = BookFields
        /\ e.books[FirstBook].main = new.main /\ e.books[FirstBook].available = new.available
        /\ e.books[FirstBook].user = d.books[FirstBook].user
        /\ e.books[FirstBook].name = d.books[FirstBook].name
    BY <1>3, <2>1 DEF Typed, Fields, BookFields
  <2> HIDE DEF e
  <2>5. BooksAfter(d.books, e.books, run)
    BY <1>1, <1>3, <2>3, <2>4 DEF BooksAfter
  <2>6. \A i \in DOMAIN e.books : /\ DOMAIN e.books[i] = BookFields
                                  /\ e.books[i].main \in Int /\ e.books[i].available \in Int
    BY <1>1, <2>3, <2>4 DEF Typed
  <2> QED
    BY <2>2, <2>5, <2>6 DEF e
<1> QED
  BY <1>2, <1>3

\* What the first stage writes.
AfterWorkbook(d, e, run) ==
  /\ Typed(e) /\ UsersGrow(d, e)
  /\ BooksAfter(d.books, e.books, run) /\ e.events = d.events \o EventsOf(FirstBook, run)
  /\ e.runs = d.runs /\ e.containers = d.containers /\ e.fills = d.fills

(* The first stage: the user, the workbook and its capital events.         *)
LEMMA WorkbookStage ==
  ASSUME NEW d, Typed(d), NEW run, RunRec(run)
  PROVE  AfterWorkbook(d, Write("workbook", d, run), run)
<1> DEFINE d1 == EnsureUser(d, run.user)
           d2 == UpsertBook(d1, run)
           d3 == InsertEvents(d2, run)
<1>1. run.user \in Nat /\ run.capital \in Int /\ run.returned \in Int
  BY DEF RunRec
<1>2. MoreBooks(d, d1) /\ d1.books = d.books
  <2>1. UserOf(Placeholder(run.user), Unset, "user") \in UserRows
    BY <1>1 DEF UserOf, UserRows
  <2>2. MoreBooks(d, d1)
    BY <2>1, UserAdded DEF EnsureUser
  <2>3. d1.books = d.books
    BY DEF EnsureUser, InsertUser, Typed, Fields
  <2> QED
    BY <2>2, <2>3
<1> HIDE DEF d1
<1>3. /\ Typed(d1) /\ UsersGrow(d, d1) /\ d1.events = d.events /\ d1.runs = d.runs
      /\ d1.containers = d.containers /\ d1.fills = d.fills
  BY <1>2 DEF MoreBooks, UsersGrow
<1>4. /\ DOMAIN d2 = Fields /\ d2.users = d1.users /\ d2.events = d1.events /\ d2.runs = d1.runs
      /\ d2.containers = d1.containers /\ d2.fills = d1.fills
      /\ BooksAfter(d1.books, d2.books, run)
      /\ \A i \in DOMAIN d2.books : /\ DOMAIN d2.books[i] = BookFields
                                    /\ d2.books[i].main \in Int /\ d2.books[i].available \in Int
  BY <1>1, <1>3, UpsertParts
<1> HIDE DEF d2
<1>5. /\ DOMAIN d3 = Fields /\ d3.users = d2.users /\ d3.books = d2.books
      /\ d3.events = d2.events \o EventsOf(FirstBook, run)
      /\ d3.runs = d2.runs /\ d3.containers = d2.containers /\ d3.fills = d2.fills
  BY <1>4 DEF InsertEvents, Fields
<1> HIDE DEF d3
<1>6. EventsOf(FirstBook, run) \in Seq(Events) /\ d1.events \in Seq(Events)
  BY <1>1, <1>3, EventsType DEF Typed
<1>7. d3.events \in Seq(Events)
  BY <1>4, <1>5, <1>6
<1>8. Typed(d3)
  BY <1>3, <1>4, <1>5, <1>7 DEF Typed
<1>9. AfterWorkbook(d, d3, run)
  BY <1>2, <1>3, <1>4, <1>5, <1>8 DEF AfterWorkbook, UsersGrow
<1> QED
  BY <1>9 DEF Write, d3, d2, d1

\* The row of a run.
RunRow(run) ==
  [book |-> FirstBook, capital |-> run.capital, fills |-> Len(run.fills), returned |-> run.returned]

AfterRunRow(d, e, run) ==
  /\ Typed(e) /\ e.runs = Append(d.runs, RunRow(run))
  /\ e.users = d.users /\ e.books = d.books /\ e.events = d.events
  /\ e.containers = d.containers /\ e.fills = d.fills

(* The second stage: the row of the run.                                   *)
LEMMA RunStage ==
  ASSUME NEW d, Typed(d), NEW run, RunRec(run)
  PROVE  AfterRunRow(d, Write("run", d, run), run)
<1> DEFINE e == InsertRun(d, run)
<1>1. RunRow(run) \in RunRows
  <2>1. Len(run.fills) \in Nat
    BY DEF RunRec
  <2> QED
    BY <2>1 DEF RunRow, RunRows, RunRec
<1>2. /\ DOMAIN e = Fields /\ e.runs = Append(d.runs, RunRow(run))
      /\ e.users = d.users /\ e.books = d.books /\ e.events = d.events
      /\ e.containers = d.containers /\ e.fills = d.fills
  BY DEF InsertRun, RunRow, Typed, Fields
<1> HIDE DEF e
<1>3. Append(d.runs, RunRow(run)) \in Seq(RunRows)
  BY <1>1 DEF Typed
<1>4. Typed(e)
  BY <1>2, <1>3 DEF Typed
<1>5. AfterRunRow(d, e, run)
  BY <1>2, <1>4 DEF AfterRunRow
<1> QED
  BY <1>5 DEF Write, e

NewContainers(n, run)  == [i \in 1 .. run.containers |-> [run |-> n]]
NewFills(n, m, run) == [i \in DOMAIN run.fills |-> [run |-> n, container |-> m + run.fills[i]]]

AfterRows(d, e, run) ==
  /\ Typed(e) /\ e.users = d.users /\ e.books = d.books /\ e.events = d.events /\ e.runs = d.runs
  /\ e.containers = d.containers \o NewContainers(Len(d.runs), run)
  /\ e.fills = d.fills \o NewFills(Len(d.runs), Len(d.containers), run)

IsJoined(u, s, t) ==
  /\ Len(s) \in Nat /\ Len(t) \in Nat /\ Len(u) = Len(s) + Len(t)
  /\ DOMAIN s = 1 .. Len(s) /\ DOMAIN u = 1 .. (Len(s) + Len(t))
  /\ \A i \in 1 .. Len(s) : u[i] = s[i]
  /\ \A i \in 1 .. Len(t) : u[Len(s) + i] = t[i]

\* One sequence after the other.
LEMMA Joined ==
  ASSUME NEW S, NEW s \in Seq(S), NEW t \in Seq(S)
  PROVE  IsJoined(s \o t, s, t)
BY DEF IsJoined

\* The rows of a run have the types of rows.
LEMMA NewRowsType ==
  ASSUME NEW run, RunRec(run), NEW n \in Nat, NEW m \in Nat
  PROVE  /\ NewContainers(n, run) \in Seq(ContainerRows) /\ Len(NewContainers(n, run)) = run.containers
         /\ NewFills(n, m, run) \in Seq(FillRows) /\ Len(NewFills(n, m, run)) = Len(run.fills)
<1>1. run.containers \in Nat /\ run.fills \in Seq(1 .. run.containers)
  BY DEF RunRec
<1>2. [run |-> n] \in ContainerRows
  BY DEF ContainerRows
<1>3. NewContainers(n, run) \in [1 .. run.containers -> ContainerRows]
  BY <1>1, <1>2 DEF NewContainers
<1>4. Len(run.fills) \in Nat /\ DOMAIN run.fills = 1 .. Len(run.fills)
  BY <1>1
<1>5. ASSUME NEW i \in DOMAIN run.fills
      PROVE  [run |-> n, container |-> m + run.fills[i]] \in FillRows
  <2>1. run.fills[i] \in 1 .. run.containers
    BY <1>1
  <2>2. m + run.fills[i] \in Nat
    BY <1>1, <2>1
  <2> QED
    BY <2>2 DEF FillRows
<1>6. NewFills(n, m, run) \in [1 .. Len(run.fills) -> FillRows]
  BY <1>4, <1>5 DEF NewFills
<1>7. ASSUME NEW k \in Nat, NEW S, NEW f \in [1 .. k -> S]
      PROVE  f \in Seq(S) /\ Len(f) = k
  <2>1. f \in Seq(S) /\ DOMAIN f = 1 .. k
    BY <1>7
  <2> QED
    BY <2>1
<1> QED
  BY <1>1, <1>3, <1>4, <1>6, <1>7

(* The third stage: the rows of its containers, fills and notes.           *)
LEMMA RowsStage ==
  ASSUME NEW d, Typed(d), NEW run, RunRec(run)
  PROVE  AfterRows(d, Write("rows", d, run), run)
<1> DEFINE d1 == InsertContainers(d, run)
           d2 == InsertFills(d1, run)
           d3 == InsertNotes(d2, run)
           n  == Len(d.runs)
           m  == Len(d.containers)
<1>1. n \in Nat /\ m \in Nat /\ d.containers \in Seq(ContainerRows) /\ d.fills \in Seq(FillRows)
      /\ run.containers \in Nat /\ run.fills \in Seq(1 .. run.containers)
  BY DEF Typed, RunRec
<1>2. /\ NewContainers(n, run) \in Seq(ContainerRows) /\ Len(NewContainers(n, run)) = run.containers
      /\ NewFills(n, m, run) \in Seq(FillRows)
  BY <1>1, NewRowsType
<1>3. /\ DOMAIN d1 = Fields /\ d1.containers = d.containers \o NewContainers(n, run)
      /\ d1.users = d.users /\ d1.books = d.books /\ d1.events = d.events /\ d1.runs = d.runs
      /\ d1.fills = d.fills
  BY DEF InsertContainers, NewContainers, RunId, Typed, Fields
<1> HIDE DEF d1
<1>4. Len(d1.containers) = m + run.containers
  <2> DEFINE new == NewContainers(n, run)
  <2>1. new \in Seq(ContainerRows) /\ Len(new) = run.containers /\ d1.containers = d.containers \o new
    BY <1>2, <1>3
  <2> HIDE DEF new
  <2>2. Len(d.containers \o new) = Len(d.containers) + Len(new)
    BY <1>1, <2>1, Joined DEF IsJoined
  <2> QED
    BY <2>1, <2>2
<1>5. ASSUME NEW i \in DOMAIN run.fills
      PROVE  ContainerRow(d1, run, run.fills[i]) = m + run.fills[i]
  <2>1. run.fills[i] \in Nat
    BY <1>1
  <2> HIDE DEF n, m
  <2> QED
    BY <1>1, <1>4, <2>1 DEF ContainerRow
<1>6. [i \in DOMAIN run.fills |-> [run |-> RunId(d1), container |-> ContainerRow(d1, run, run.fills[i])]]
        = NewFills(n, m, run)
  <2>1. RunId(d1) = n
    BY <1>3 DEF RunId
  <2> HIDE DEF n, m
  <2> QED
    BY <1>5, <2>1 DEF NewFills
<1>7. /\ DOMAIN d2 = Fields /\ d2.fills = d1.fills \o NewFills(n, m, run)
      /\ d2.users = d1.users /\ d2.books = d1.books /\ d2.events = d1.events /\ d2.runs = d1.runs
      /\ d2.containers = d1.containers
  <2> HIDE DEF n, m
  <2> DEFINE new == [i \in DOMAIN run.fills |->
                      [run |-> RunId(d1), container |-> ContainerRow(d1, run, run.fills[i])]]
  <2>1. d2 = [d1 EXCEPT !.fills = @ \o new]
    BY DEF InsertFills
  <2>2. new = NewFills(n, m, run)
    BY <1>6
  <2> HIDE DEF new, d2
  <2> QED
    BY <1>3, <2>1, <2>2 DEF Fields
<1> HIDE DEF d2
<1>8. /\ DOMAIN d3 = Fields /\ d3.fills = d2.fills /\ d3.users = d2.users /\ d3.books = d2.books
      /\ d3.events = d2.events /\ d3.runs = d2.runs /\ d3.containers = d2.containers
  BY <1>7 DEF InsertNotes, Fields
<1> HIDE DEF d3
<1>9. d3.containers \in Seq(ContainerRows) /\ d3.fills \in Seq(FillRows)
  BY <1>1, <1>2, <1>3, <1>7, <1>8
<1>10. Typed(d3)
  BY <1>3, <1>7, <1>8, <1>9 DEF Typed
<1>11. AfterRows(d, d3, run)
  BY <1>3, <1>7, <1>8, <1>10 DEF AfterRows
<1> QED
  BY <1>11 DEF Write, InsertRows, d3, d2, d1

\* The database with a run stored.
Stored(d, e, run) ==
  /\ Typed(e) /\ UsersGrow(d, e)
  /\ BooksAfter(d.books, e.books, run) /\ e.events = d.events \o EventsOf(FirstBook, run)
  /\ e.runs = Append(d.runs, RunRow(run))
  /\ e.containers = d.containers \o NewContainers(Len(d.runs) + 1, run)
  /\ e.fills = d.fills \o NewFills(Len(d.runs) + 1, Len(d.containers), run)

(* The three stages one after the other.                                   *)
LEMMA StagesStore ==
  ASSUME NEW d, NEW d1, NEW d2, NEW d3, NEW run, Typed(d), RunRec(run),
         AfterWorkbook(d, d1, run), AfterRunRow(d1, d2, run), AfterRows(d2, d3, run)
  PROVE  Stored(d, d3, run)
<1>1. /\ UsersGrow(d, d1) /\ BooksAfter(d.books, d1.books, run)
      /\ d1.events = d.events \o EventsOf(FirstBook, run)
      /\ d1.runs = d.runs /\ d1.containers = d.containers /\ d1.fills = d.fills
  BY DEF AfterWorkbook
<1>2. /\ d2.runs = Append(d1.runs, RunRow(run))
      /\ d2.users = d1.users /\ d2.books = d1.books /\ d2.events = d1.events
      /\ d2.containers = d1.containers /\ d2.fills = d1.fills
  BY DEF AfterRunRow
<1>3. /\ Typed(d3) /\ d3.users = d2.users /\ d3.books = d2.books /\ d3.events = d2.events
      /\ d3.runs = d2.runs
      /\ d3.containers = d2.containers \o NewContainers(Len(d2.runs), run)
      /\ d3.fills = d2.fills \o NewFills(Len(d2.runs), Len(d2.containers), run)
  BY DEF AfterRows
<1>4. Len(d2.runs) = Len(d.runs) + 1
  <2>1. d.runs \in Seq(RunRows)
    BY DEF Typed
  <2> QED
    BY <1>1, <1>2, <2>1
<1>5. UsersGrow(d, d3)
  BY <1>1, <1>2, <1>3 DEF UsersGrow
<1> QED
  BY <1>1, <1>2, <1>3, <1>4, <1>5 DEF Stored

RowByRow(d, e, run, n, m, k) ==
  /\ n \in Nat /\ m \in Nat /\ k \in Nat
  /\ DOMAIN d.runs = 1 .. n /\ DOMAIN e.runs = 1 .. (n + 1)
  /\ \A i \in 1 .. n : e.runs[i] = d.runs[i]
  /\ e.runs[n + 1] = RunRow(run) /\ Len(e.runs) = n + 1
  /\ DOMAIN d.containers = 1 .. m /\ DOMAIN e.containers = 1 .. (m + run.containers)
  /\ \A i \in 1 .. m : e.containers[i] = d.containers[i]
  /\ \A i \in 1 .. run.containers : e.containers[m + i].run = n + 1
  /\ DOMAIN d.fills = 1 .. k /\ DOMAIN e.fills = 1 .. (k + Len(run.fills))
  /\ \A i \in 1 .. k : e.fills[i] = d.fills[i]
  /\ \A i \in 1 .. Len(run.fills) :
       e.fills[k + i].run = n + 1 /\ e.fills[k + i].container = m + run.fills[i]

\* The parts of a database with a run stored, row by row.
LEMMA StoredRows ==
  ASSUME NEW d, NEW e, NEW run, Typed(d), RunRec(run), Stored(d, e, run)
  PROVE  RowByRow(d, e, run, Len(d.runs), Len(d.containers), Len(d.fills))
<1> DEFINE n == Len(d.runs)
           m == Len(d.containers)
           k == Len(d.fills)
<1>1. d.runs \in Seq(RunRows) /\ d.containers \in Seq(ContainerRows) /\ d.fills \in Seq(FillRows)
  BY DEF Typed
<1>2. n \in Nat /\ m \in Nat /\ k \in Nat
  BY <1>1
<1>3. /\ DOMAIN d.runs = 1 .. n /\ DOMAIN e.runs = 1 .. (n + 1)
      /\ \A i \in 1 .. n : e.runs[i] = d.runs[i]
      /\ e.runs[n + 1] = RunRow(run) /\ Len(e.runs) = n + 1
  <2>1. e.runs = Append(d.runs, RunRow(run))
    BY DEF Stored
  <2> DEFINE row == RunRow(run)
  <2> HIDE DEF row
  <2> QED
    BY <1>1, <1>2, <2>1 DEF row
<1> DEFINE cs == NewContainers(n + 1, run)
           fs == NewFills(n + 1, m, run)
<1>4. /\ cs \in Seq(ContainerRows) /\ Len(cs) = run.containers
      /\ fs \in Seq(FillRows) /\ Len(fs) = Len(run.fills)
  <2>1. n + 1 \in Nat
    BY <1>2
  <2> HIDE DEF n, m
  <2> QED
    BY <1>2, <2>1, NewRowsType
<1>5. e.containers = d.containers \o cs /\ e.fills = d.fills \o fs
  BY DEF Stored
<1>6. \A i \in 1 .. run.containers : cs[i].run = n + 1
  BY DEF NewContainers
<1>7. \A i \in 1 .. Len(run.fills) : fs[i].run = n + 1 /\ fs[i].container = m + run.fills[i]
  <2>1. DOMAIN run.fills = 1 .. Len(run.fills)
    BY DEF RunRec
  <2> QED
    BY <2>1 DEF NewFills
<1> HIDE DEF cs, fs
<1>10. IsJoined(e.containers, d.containers, cs) /\ IsJoined(e.fills, d.fills, fs)
  BY <1>1, <1>4, <1>5, Joined
<1>8. /\ DOMAIN d.containers = 1 .. m /\ DOMAIN e.containers = 1 .. (m + run.containers)
      /\ \A i \in 1 .. m : e.containers[i] = d.containers[i]
      /\ \A i \in 1 .. run.containers : e.containers[m + i] = cs[i]
  BY <1>4, <1>10 DEF IsJoined
<1>9. /\ DOMAIN d.fills = 1 .. k /\ DOMAIN e.fills = 1 .. (k + Len(run.fills))
      /\ \A i \in 1 .. k : e.fills[i] = d.fills[i]
      /\ \A i \in 1 .. Len(run.fills) : e.fills[k + i] = fs[i]
  BY <1>4, <1>10 DEF IsJoined
<1> HIDE DEF n, m, k
<1>12. ASSUME NEW i \in 1 .. run.containers
       PROVE  e.containers[m + i].run = n + 1
  <2>1. e.containers[m + i] = cs[i]
    BY <1>8
  <2> QED
    BY Zenon, <1>6, <2>1
<1>13. ASSUME NEW i \in 1 .. Len(run.fills)
       PROVE  e.fills[k + i].run = n + 1 /\ e.fills[k + i].container = m + run.fills[i]
  <2>1. e.fills[k + i] = fs[i]
    BY <1>9
  <2> QED
    BY Zenon, <1>7, <2>1
<1>11. RowByRow(d, e, run, n, m, k)
  BY Zenon, <1>2, <1>3, <1>8, <1>9, <1>12, <1>13 DEF RowByRow
<1> QED
  BY <1>11 DEF n, m, k

\* The fills of a run stored are as many as it has, and no other run's change.
LEMMA StoredComplete ==
  ASSUME NEW d, NEW e, NEW run, Typed(d), Belong(d), Complete(d), RunRec(run), Stored(d, e, run)
  PROVE  Complete(e)
<1> DEFINE n == Len(d.runs)
           m == Len(d.containers)
           k == Len(d.fills)
           q == Len(run.fills)
<1>1. /\ n \in Nat /\ m \in Nat /\ k \in Nat
      /\ DOMAIN d.runs = 1 .. n /\ DOMAIN e.runs = 1 .. (n + 1)
      /\ \A i \in 1 .. n : e.runs[i] = d.runs[i]
      /\ e.runs[n + 1] = RunRow(run)
      /\ DOMAIN d.fills = 1 .. k /\ DOMAIN e.fills = 1 .. (k + q)
      /\ \A i \in 1 .. k : e.fills[i] = d.fills[i]
      /\ \A i \in 1 .. q : e.fills[k + i].run = n + 1
  <2>1. RowByRow(d, e, run, n, m, k)
    BY StoredRows
  <2> HIDE DEF n, m, k
  <2> QED
    BY Zenon, <2>1 DEF RowByRow
<1>2. q \in Nat
  BY DEF RunRec
<1> HIDE DEF n, m, k, q
<1>3. \A i \in 1 .. k : d.fills[i].run \in 1 .. n
  BY <1>1 DEF Belong
<1>4. \A i \in 1 .. (k + q) : i \in 1 .. k \/ (i - k \in 1 .. q /\ k + (i - k) = i)
  BY <1>1, <1>2
<1>5. ASSUME NEW r \in 1 .. n
      PROVE  Cardinality(ListFills(e, r)) = e.runs[r].fills
  <2>1. r # n + 1 /\ r \in DOMAIN d.runs
    BY <1>1
  <2>2. ASSUME NEW i \in 1 .. (k + q), e.fills[i].run = r
        PROVE  i \in 1 .. k /\ e.fills[i] = d.fills[i]
    BY <1>1, <1>4, <2>1, <2>2
  <2>3. 1 .. k \subseteq 1 .. (k + q)
    BY <1>1, <1>2
  <2>4. {x \in {<<i, e.fills[i]>> : i \in 1 .. (k + q)} : x[2].run = r}
          = {x \in {<<i, d.fills[i]>> : i \in 1 .. k} : x[2].run = r}
    BY <1>1, <2>2, <2>3
  <2>5. ListFills(e, r) = ListFills(d, r)
    BY <1>1, <2>4 DEF ListFills, RowsOf, Rows
  <2> QED
    BY <1>1, <2>1, <2>5 DEF Complete
<1>6. Cardinality(ListFills(e, n + 1)) = e.runs[n + 1].fills
  <2> DEFINE S == ListFills(e, n + 1)
             f == [i \in 1 .. q |-> <<k + i, e.fills[k + i]>>]
  <2>1. \A i \in 1 .. q : k + i \in 1 .. (k + q)
    BY <1>1, <1>2
  <2>2. S = {x \in {<<i, e.fills[i]>> : i \in 1 .. (k + q)} : x[2].run = n + 1}
    BY <1>1 DEF ListFills, RowsOf, Rows
  <2>3. \A i \in 1 .. q : f[i] \in S
    BY <1>1, <2>1, <2>2
  <2>4. \A x \in S : \E i \in 1 .. q : f[i] = x
    <3>1. SUFFICES ASSUME NEW x \in S PROVE \E i \in 1 .. q : f[i] = x
      OBVIOUS
    <3>2. PICK i \in 1 .. (k + q) : x = <<i, e.fills[i]>> /\ e.fills[i].run = n + 1
      BY <2>2
    <3>3. i \notin 1 .. k
      <4>1. SUFFICES ASSUME i \in 1 .. k PROVE FALSE
        OBVIOUS
      <4>2. e.fills[i].run \in 1 .. n
        BY <1>1, <1>3, <4>1
      <4> QED
        BY <1>1, <3>2, <4>2
    <3>4. i - k \in 1 .. q /\ k + (i - k) = i
      BY <1>4, <3>3
    <3>5. f[i - k] = x
      BY <3>2, <3>4
    <3> QED
      BY <3>4, <3>5
  <2>5. \A i, j \in 1 .. q : f[i] = f[j] => i = j
    <3>1. SUFFICES ASSUME NEW i \in 1 .. q, NEW j \in 1 .. q, f[i] = f[j] PROVE i = j
      OBVIOUS
    <3>2. <<k + i, e.fills[k + i]>> = <<k + j, e.fills[k + j]>>
      BY <3>1
    <3>3. k + i = k + j
      BY <3>2
    <3> QED
      BY <1>1, <3>3
  <2>6. DOMAIN f = 1 .. q
    OBVIOUS
  <2> HIDE DEF f, S
  <2>7. f \in [1 .. q -> S]
    <3>1. f = [i \in 1 .. q |-> f[i]]
      BY DEF f
    <3> QED
      BY <2>3, <3>1
  <2>8. f \in Bijection(1 .. q, S)
    <3>1. f \in Injection(1 .. q, S)
      BY <2>5, <2>7 DEF Injection, IsInjective
    <3>2. f \in Surjection(1 .. q, S)
      BY <2>4, <2>7 DEF Surjection
    <3> QED
      BY <3>1, <3>2 DEF Bijection
  <2>9. IsFiniteSet(1 .. q) /\ Cardinality(1 .. q) = q
    BY <1>2, FS_Interval
  <2>10. Cardinality(S) = q
    BY <2>8, <2>9, FS_Bijection DEF ExistsBijection
  <2>11. e.runs[n + 1].fills = q
    BY <1>1 DEF RunRow, q
  <2> QED
    BY <2>10, <2>11 DEF S
<1>7. \A r \in 1 .. (n + 1) : r \in 1 .. n \/ r = n + 1
  BY <1>1
<1> QED
  BY <1>1, <1>5, <1>6, <1>7 DEF Complete

(* A run stored leaves the rows whole, and what was there before.          *)
LEMMA StoredWhole ==
  ASSUME NEW d, NEW e, NEW run, Whole(d), RunRec(run), Stored(d, e, run)
  PROVE  Whole(e) /\ Grows(d, e)
<1> DEFINE n == Len(d.runs)
           m == Len(d.containers)
           k == Len(d.fills)
<1>1. RowByRow(d, e, run, n, m, k) /\ Typed(d) /\ Belong(d) /\ Complete(d) /\ Told(d)
  BY StoredRows DEF Whole
<1>2. Typed(e) /\ UsersGrow(d, e) /\ BooksAfter(d.books, e.books, run) /\ e.events = d.events \o EventsOf(FirstBook, run)
  BY DEF Stored
<1> HIDE DEF n, m, k
<1>3. /\ n \in Nat /\ m \in Nat /\ k \in Nat
      /\ DOMAIN d.runs = 1 .. n /\ DOMAIN e.runs = 1 .. (n + 1)
      /\ \A i \in 1 .. n : e.runs[i] = d.runs[i]
      /\ e.runs[n + 1] = RunRow(run) /\ Len(e.runs) = n + 1
  BY Zenon, <1>1 DEF RowByRow
<1>4. /\ DOMAIN d.containers = 1 .. m /\ DOMAIN e.containers = 1 .. (m + run.containers)
      /\ \A i \in 1 .. m : e.containers[i] = d.containers[i]
      /\ \A i \in 1 .. run.containers : e.containers[m + i].run = n + 1
  BY Zenon, <1>1 DEF RowByRow
<1>5. /\ DOMAIN d.fills = 1 .. k /\ DOMAIN e.fills = 1 .. (k + Len(run.fills))
      /\ \A i \in 1 .. k : e.fills[i] = d.fills[i]
      /\ \A i \in 1 .. Len(run.fills) :
           e.fills[k + i].run = n + 1 /\ e.fills[k + i].container = m + run.fills[i]
  BY Zenon, <1>1 DEF RowByRow
<1>6. run.containers \in Nat /\ run.fills \in Seq(1 .. run.containers) /\ Len(run.fills) \in Nat
  BY DEF RunRec
<1>7. Belong(e)
  <2>1. ASSUME NEW i \in DOMAIN e.containers
        PROVE  e.containers[i].run \in DOMAIN e.runs
    <3>1. CASE i \in 1 .. m
      BY <1>1, <1>3, <1>4, <3>1 DEF Belong
    <3>2. CASE i \notin 1 .. m
      <4>1. i - m \in 1 .. run.containers /\ m + (i - m) = i
        BY <1>3, <1>4, <1>6, <3>2
      <4>2. e.containers[i].run = n + 1
        BY <1>4, <4>1
      <4> QED
        BY <1>3, <4>2
    <3> QED
      BY <3>1, <3>2
  <2>2. ASSUME NEW i \in DOMAIN e.fills
        PROVE  /\ e.fills[i].run \in DOMAIN e.runs /\ e.fills[i].container \in DOMAIN e.containers
               /\ e.containers[e.fills[i].container].run = e.fills[i].run
    <3>1. CASE i \in 1 .. k
      <4> DEFINE c == d.fills[i].container
      <4>1. e.fills[i] = d.fills[i] /\ d.fills[i].run \in 1 .. n /\ c \in 1 .. m
            /\ d.containers[c].run = d.fills[i].run
        BY <1>1, <1>3, <1>4, <1>5, <3>1 DEF Belong
      <4> HIDE DEF c
      <4>2. c \in 1 .. (m + run.containers) /\ e.containers[c] = d.containers[c]
            /\ d.fills[i].run \in 1 .. (n + 1)
        BY <1>3, <1>4, <1>6, <4>1
      <4> QED
        BY <1>3, <1>4, <4>1, <4>2 DEF c
    <3>2. CASE i \notin 1 .. k
      <4>1. i - k \in 1 .. Len(run.fills) /\ k + (i - k) = i
        BY <1>3, <1>5, <1>6, <3>2
      <4>2. PICK c \in 1 .. run.containers : c = run.fills[i - k]
        BY <1>6, <4>1
      <4>3. e.fills[i].run = n + 1 /\ e.fills[i].container = m + c
        BY <1>5, <4>1, <4>2
      <4>4. m + c \in 1 .. (m + run.containers) /\ e.containers[m + c].run = n + 1
        BY <1>3, <1>4, <1>6
      <4> QED
        BY <1>3, <1>4, <4>3, <4>4
    <3> QED
      BY <3>1, <3>2
  <2> QED
    BY <2>1, <2>2 DEF Belong
<1>8. Complete(e)
  BY <1>1, StoredComplete
<1>9. Told(e)
  <2> DEFINE ss == [i \in 1 .. n |-> EventsOf(d.runs[i].book, d.runs[i])]
             tt == [i \in 1 .. (n + 1) |-> EventsOf(e.runs[i].book, e.runs[i])]
  <2>1. d.runs \in Seq(RunRows) /\ e.runs \in Seq(RunRows)
    BY <1>1, <1>2 DEF Typed
  <2>2. \A i \in 1 .. n : EventsOf(d.runs[i].book, d.runs[i]) \in Seq(Events)
    <3>1. SUFFICES ASSUME NEW i \in 1 .. n PROVE EventsOf(d.runs[i].book, d.runs[i]) \in Seq(Events)
      OBVIOUS
    <3>2. d.runs[i] \in RunRows
      BY <1>3, <2>1
    <3>3. d.runs[i].book = FirstBook /\ d.runs[i].capital \in Int /\ d.runs[i].returned \in Int
      BY <3>2 DEF RunRows
    <3> QED
      BY <3>3, EventsType
  <2>3. \A i \in 1 .. (n + 1) : EventsOf(e.runs[i].book, e.runs[i]) \in Seq(Events)
    <3>1. SUFFICES ASSUME NEW i \in 1 .. (n + 1) PROVE EventsOf(e.runs[i].book, e.runs[i]) \in Seq(Events)
      OBVIOUS
    <3>2. e.runs[i] \in RunRows
      BY <1>3, <2>1
    <3>3. e.runs[i].book = FirstBook /\ e.runs[i].capital \in Int /\ e.runs[i].returned \in Int
      BY <3>2 DEF RunRows
    <3> QED
      BY <3>3, EventsType
  <2>4. ss \in [1 .. n -> Seq(Events)] /\ tt \in [1 .. (n + 1) -> Seq(Events)]
    BY <2>2, <2>3
  <2>5. \A i \in 1 .. n : tt[i] = ss[i]
    <3>1. \A i \in 1 .. n : i \in 1 .. (n + 1)
      BY <1>3
    <3> QED
      BY <1>3, <3>1
  <2>6. tt[n + 1] = EventsOf(FirstBook, run)
    <3>1. n + 1 \in 1 .. (n + 1)
      BY <1>3
    <3>2. tt[n + 1] = EventsOf(RunRow(run).book, RunRow(run))
      BY Zenon, <1>3, <3>1
    <3>3. /\ RunRow(run).book = FirstBook
          /\ RunRow(run).capital = run.capital /\ RunRow(run).returned = run.returned
      BY DEF RunRow
    <3>4. EventsOf(RunRow(run).book, RunRow(run)) = EventsOf(FirstBook, run)
      BY Zenon, <3>3 DEF EventsOf
    <3> QED
      BY <3>2, <3>4
  <2>7. d.events = FlattenSeq(ss)
    BY Zenon, <1>1, <1>3 DEF Told
  <2>8. FlattenSeq(tt) = FlattenSeq(ss) \o tt[n + 1]
    <3> HIDE DEF ss, tt
    <3> QED
      BY <1>3, <2>4, <2>5, FlattenExtend
  <2> HIDE DEF ss
  <2>9. e.events = FlattenSeq(tt)
    <3> HIDE DEF tt
    <3> QED
      BY Zenon, <1>2, <2>6, <2>7, <2>8
  <2> QED
    BY Zenon, <1>3, <2>9 DEF Told
<1>10. Listed(e)
  <2>1. SUFFICES ASSUME NEW i \in 1 .. (n + 1) PROVE e.runs[i].book \in DOMAIN e.books
    BY <1>3 DEF Listed
  <2>2. e.runs \in Seq(RunRows) /\ FirstBook \in DOMAIN e.books
    BY <1>2 DEF Typed, BooksAfter
  <2>3. e.runs[i] \in RunRows
    BY <1>3, <2>2
  <2> QED
    BY <2>2, <2>3 DEF RunRows
<1>11. Grows(d, e)
  <2>1. \A i \in DOMAIN d.users : i \in DOMAIN e.users /\ e.users[i] = d.users[i]
    BY <1>2 DEF UsersGrow
  <2>2. \A i \in DOMAIN d.books :
          i \in DOMAIN e.books /\ e.books[i].user = d.books[i].user /\ e.books[i].name = d.books[i].name
    BY <1>2 DEF BooksAfter
  <2>3. \A i \in DOMAIN d.runs : i \in DOMAIN e.runs /\ e.runs[i] = d.runs[i]
    BY <1>3
  <2>4. \A i \in DOMAIN d.fills : i \in DOMAIN e.fills /\ e.fills[i] = d.fills[i]
    BY <1>3, <1>5, <1>6
  <2>5. ASSUME NEW i \in DOMAIN e.fills \ DOMAIN d.fills
        PROVE  e.fills[i].run \notin DOMAIN d.runs
    <3>1. i - k \in 1 .. Len(run.fills) /\ k + (i - k) = i
      BY <1>3, <1>5, <1>6
    <3>2. e.fills[i].run = n + 1
      BY <1>5, <3>1
    <3> QED
      BY <1>3, <3>2
  <2>6. \A i \in DOMAIN d.runs, j \in DOMAIN e.runs \ DOMAIN d.runs : i < j
    BY <1>3
  <2> QED
    BY <2>1, <2>2, <2>3, <2>4, <2>5, <2>6 DEF Grows
<1> QED
  BY <1>2, <1>7, <1>8, <1>9, <1>10, <1>11 DEF Whole

-------------------------------------------------------------------------------
(* The rows in every reachable state.                                      *)

\* How far the transaction t of a process that stores a run is ahead of what is committed.
Ahead(d, t, run, stage) ==
  /\ stage = 2 => AfterWorkbook(d, t, run)
  /\ stage = 3 => \E d1 : AfterWorkbook(d, d1, run) /\ AfterRunRow(d1, t, run)
  /\ stage = 4 => Stored(d, t, run)

\* A process that is up has the write lock exactly while it stores a run.
Pending(p) ==
  /\ at[p].step \in InFile => SameRows(db, txn[p])
  /\ at[p].step = "up" /\ job[p].kind # "persist" => writer # p
  /\ job[p].kind = "create" => job[p].user \in Nat /\ job[p].capital \in Int
  /\ job[p].kind = "persist" =>
       /\ RunRec(job[p].run)
       /\ job[p].stage = 1 => writer # p
       /\ job[p].stage # 1 => writer = p /\ Ahead(db, txn[p], job[p].run, job[p].stage)

TokensOK == \A t \in tokens : t.user \in DOMAIN db.users

RowsInv == Whole(db) /\ TokensOK /\ \A p \in Processes : Pending(p)

(* A step of p alone keeps what the others have pending.                   *)
LEMMA OthersPending ==
  ASSUME IInv, RowsInv, NEW p \in Processes, Alone(p), NEW q \in Processes \ {p}
  PROVE  Pending(q)'
<1>1. at'[q] = at[q] /\ job'[q] = job[q] /\ txn'[q] = txn[q]
  BY DEF Alone
<1>2. q # Nobody /\ p # Nobody
  BY ServerAssumption DEF Nobody
<1>3. writer' = q <=> writer = q
  BY <1>2 DEF Alone, IInv, Shape
<1>4. writer = q => db' = db
  BY <1>2 DEF Alone
<1>5. ProcessOK(q) /\ Pending(q)
  BY DEF IInv, RowsInv
<1>6. at[q].step \in InFile => writer = q
  BY <1>5 DEF ProcessOK
<1>7. at[q].step \in InFile => SameRows(db', txn'[q])
  BY <1>1, <1>4, <1>5, <1>6 DEF Pending
<1>8. job[q].kind = "persist" /\ job[q].stage # 1 =>
        writer = q /\ Ahead(db', txn'[q], job[q].run, job[q].stage)
  BY <1>1, <1>4, <1>5 DEF Pending
<1> QED
  BY <1>1, <1>3, <1>5, <1>7, <1>8 DEF Pending

\* What the invariant is after a step.
Kept == RowsInv' /\ Grows(db, db')

(* A step of p alone keeps the rows.                                       *)
LEMMA RowsOfOne ==
  ASSUME IInv, RowsInv, NEW p \in Processes, Alone(p), Pending(p)',
         Whole(db'), Grows(db, db'), TokensOK'
  PROVE  Kept
BY OthersPending DEF RowsInv, Kept

\* A database is what it was.
LEMMA GrowsSame ==
  ASSUME NEW d, Whole(d)
  PROVE  Grows(d, d)
BY DEF Grows, Whole

\* And so it is when p leaves what is committed.
LEMMA RowsStay ==
  ASSUME IInv, RowsInv, NEW p \in Processes, Alone(p), Pending(p)', db' = db, tokens' = tokens
  PROVE  Kept
<1>1. Whole(db') /\ TokensOK'
  BY DEF RowsInv, TokensOK
<1>2. Grows(db, db')
  BY <1>1, GrowsSame
<1> QED
  BY <1>1, <1>2, RowsOfOne

(* The start of a process.                                                 *)
LEMMA StartUpRows ==
  ASSUME IInv, RowsInv, NEW p \in Processes, StartUp(p), UNCHANGED <<tokens, job>>
  PROVE  Kept
<1>1. /\ ProcessOK(p) /\ Pending(p) /\ DOMAIN at = Processes /\ DOMAIN txn = Processes
      /\ at[p].step # "up"
  BY DEF IInv, Shape, RowsInv, StartUp, Open, CheckFile, BeginFile, ExecFile, RecordFile,
         CommitFile, OpenBars, ProcessOK, Off
<1>2. job[p].kind = "idle" /\ p # Nobody
  BY <1>1, ServerAssumption DEF ProcessOK, JobOK, Nobody
<1>3. ASSUME at[p].step \notin InFile PROVE writer # p
  BY <1>1, <1>3 DEF ProcessOK, TxnOK
<1>4. ASSUME UNCHANGED <<db, txn, writer>>, at[p].step \notin InFile,
             NEW there, at' = [at EXCEPT ![p] = there], there.step \notin InFile
      PROVE  Kept
  <2>1. at'[p] = there /\ \A q \in Processes \ {p} : at'[q] = at[q]
    BY <1>1, <1>4
  <2>2. Alone(p)
    BY <1>4, <2>1 DEF Alone
  <2>3. Pending(p)'
    BY <1>2, <1>3, <1>4, <2>1 DEF Pending
  <2> QED
    BY <1>4, <2>2, <2>3, RowsStay
<1>5. ASSUME NEW new, WriteIn(p, new), NEW step \in InFile, Go(p, step), SameRows(db, new)
      PROVE  Kept
  <2>1. at'[p] = On(step, at[p].file) /\ \A q \in Processes \ {p} : at'[q] = at[q]
    BY <1>5, GoOnly
  <2>2. /\ txn'[p] = new /\ db' = db /\ writer' = p /\ writer \in {Nobody, p}
        /\ \A q \in Processes \ {p} : txn'[q] = txn[q]
    BY <1>1, <1>5 DEF WriteIn, CanWrite
  <2>3. Alone(p)
    BY <2>1, <2>2 DEF Alone
  <2>4. Pending(p)'
    BY <1>2, <1>5, <2>1, <2>2 DEF Pending, On, InFile
  <2> QED
    BY <2>2, <2>3, <2>4, RowsStay
<1>6. DOMAIN db = Fields
  BY DEF IInv, SchemaOK
<1>7. ASSUME at[p].step \in InFile
      PROVE  View(p) = txn[p] /\ DOMAIN txn[p] = Fields /\ SameRows(db, txn[p])
  BY <1>1, <1>7 DEF View, ProcessOK, TxnOK, Pending
<1>8. CASE Open(p)
  <2>1. at' = [at EXCEPT ![p] = On("check", 1)] /\ UNCHANGED <<db, txn, writer>> /\ at[p].step = "off"
    BY <1>8 DEF Open, Off
  <2>2. On("check", 1).step \notin InFile /\ at[p].step \notin InFile
    BY <2>1 DEF On, InFile
  <2> QED
    BY <1>4, <2>1, <2>2
<1>9. CASE CheckFile(p)
  <2> DEFINE left  == (at[p].file .. Files) \ db.record
             there == IF left = {} THEN On("bars", 0) ELSE On("begin", Min(left))
  <2>1. at' = [at EXCEPT ![p] = there] /\ UNCHANGED <<db, txn, writer>> /\ at[p].step = "check"
    BY <1>9 DEF CheckFile
  <2>2. there.step \notin InFile
    BY DEF On, InFile
  <2> HIDE DEF there
  <2> QED
    BY <1>4, <2>1, <2>2 DEF InFile
<1>10. CASE OpenBars(p)
  <2>1. at' = [at EXCEPT ![p] = Up] /\ UNCHANGED <<db, txn, writer>> /\ at[p].step = "bars"
    BY <1>10 DEF OpenBars
  <2>2. at'[p] = Up /\ \A q \in Processes \ {p} : at'[q] = at[q]
    BY <1>1, <2>1
  <2>3. Alone(p)
    BY <2>1, <2>2 DEF Alone
  <2>4. Pending(p)'
    BY <1>2, <1>3, <2>1, <2>2 DEF Pending, Up, InFile
  <2> QED
    BY <2>1, <2>3, <2>4, RowsStay
<1>11. CASE BeginFile(p)
  <2>1. WriteIn(p, db) /\ Go(p, "exec")
    BY <1>11 DEF BeginFile
  <2>2. SameRows(db, db)
    BY <1>6 DEF SameRows
  <2> QED
    BY <1>5, <2>1, <2>2 DEF InFile
<1>12. CASE ExecFile(p)
  <2> DEFINE new == [View(p) EXCEPT !.tables = @ \cup {at[p].file}]
  <2>1. at[p].step = "exec" /\ WriteIn(p, new) /\ Go(p, "record")
    BY <1>12 DEF ExecFile
  <2>2. SameRows(db, new)
    BY <1>7, <2>1 DEF SameRows, Fields, InFile
  <2> HIDE DEF new
  <2> QED
    BY <1>5, <2>1, <2>2 DEF InFile
<1>13. CASE RecordFile(p)
  <2> DEFINE new == [View(p) EXCEPT !.record = @ \cup {at[p].file}]
  <2>1. at[p].step = "record" /\ WriteIn(p, new) /\ Go(p, "commit")
    BY <1>13 DEF RecordFile
  <2>2. SameRows(db, new)
    BY <1>7, <2>1 DEF SameRows, Fields, InFile
  <2> HIDE DEF new
  <2> QED
    BY <1>5, <2>1, <2>2 DEF InFile
<1>14. CASE CommitFile(p)
  <2>1. /\ at[p].step = "commit" /\ at' = [at EXCEPT ![p] = On("check", @.file + 1)]
        /\ writer = p /\ writer' = Nobody /\ db' = txn[p] /\ txn' = [txn EXCEPT ![p] = NoTxn]
    BY <1>14 DEF CommitFile, Commit
  <2>2. /\ at'[p] = On("check", at[p].file + 1)
        /\ \A q \in Processes \ {p} : at'[q] = at[q] /\ txn'[q] = txn[q]
    BY <1>1, <2>1
  <2>3. SameRows(db, db') /\ Whole(db)
    BY <1>7, <2>1 DEF InFile, RowsInv
  <2>4. Whole(db') /\ Grows(db, db')
    BY <2>3, SameRowsWhole
  <2>5. Alone(p)
    BY <2>1, <2>2 DEF Alone
  <2>6. Pending(p)'
    BY <1>2, <2>1, <2>2 DEF Pending, On, InFile
  <2>7. TokensOK'
    BY <2>3 DEF TokensOK, SameRows, RowsInv
  <2> QED
    BY <2>4, <2>5, <2>6, <2>7, RowsOfOne
<1> QED
  BY <1>8, <1>9, <1>10, <1>11, <1>12, <1>13, <1>14 DEF StartUp

(* The end of a process.                                                   *)
LEMMA EndsRows ==
  ASSUME IInv, RowsInv, NEW p \in Processes, Ends(p)
  PROVE  Kept
<1>1. /\ writer' = (IF writer = p THEN Nobody ELSE writer)
      /\ txn' = [txn EXCEPT ![p] = NoTxn] /\ db' = db /\ tokens' = tokens
      /\ at' = [at EXCEPT ![p] = Off] /\ job' = [job EXCEPT ![p] = Idle]
  BY DEF Ends, Throws, Killed, Rollback
<1>2. /\ at'[p] = Off /\ job'[p] = Idle
      /\ \A q \in Processes \ {p} : at'[q] = at[q] /\ job'[q] = job[q] /\ txn'[q] = txn[q]
  BY <1>1 DEF IInv, Shape
<1>3. Alone(p)
  BY <1>1, <1>2 DEF Alone
<1>4. Pending(p)'
  BY <1>2 DEF Pending, Off, Idle, InFile
<1> QED
  BY <1>1, <1>3, <1>4, RowsStay

(* A change of jobs, with a statement outside of any transaction or none.  *)
LEMMA WorkRows ==
  ASSUME IInv, RowsInv, NEW p \in Processes, UNCHANGED <<txn, writer, at>>, at[p].step = "up",
         writer # p, \A q \in Processes \ {p} : job'[q] = job[q],
         job'[p].kind = "create" => job'[p].user \in Nat /\ job'[p].capital \in Int,
         job'[p].kind = "persist" => RunRec(job'[p].run) /\ job'[p].stage = 1,
         db' = db \/ (writer = Nobody /\ MoreBooks(db, db')), TokensOK'
  PROVE  Kept
<1>1. Alone(p)
  BY DEF Alone
<1>2. Pending(p)'
  BY DEF Pending, InFile
<1>3. Whole(db') /\ Grows(db, db')
  <2>1. CASE db' = db
    BY <2>1, GrowsSame DEF RowsInv
  <2>2. CASE MoreBooks(db, db')
    BY <2>2, MoreBooksWhole DEF RowsInv
  <2> QED
    BY <2>1, <2>2
<1> QED
  BY <1>1, <1>2, <1>3, RowsOfOne

(* A run that is to be stored.                                             *)
LEMMA RunOfRec ==
  ASSUME NEW user \in Nat, NEW name, NEW capital \in Int, NEW r \in Results
  PROVE  RunRec(RunOf(user, name, capital, r))
<1>1. r.containers \in Nat /\ r.gain \in Int /\ r.fills \in Seq(1 .. r.containers)
  BY ServerAssumption
<1> QED
  BY <1>1 DEF RunRec, RunOf

(* The handlers that neither migrate nor store a run.                      *)
LEMMA HandlersRows ==
  ASSUME IInv, RowsInv,
         Register \/ Login \/ TokenExpires \/ CreateBook \/ StoreBook \/ StartRun \/ CliRun
  PROVE  Kept
<1>1. /\ "server" \in Processes /\ "cli" \in Processes /\ DOMAIN job = Processes
      /\ Whole(db) /\ Typed(db) /\ TokensOK
      /\ \A p \in Processes : Pending(p) /\ JobOK(job[p], at[p])
  BY ServerAssumption DEF IInv, Shape, RowsInv, ProcessOK, Whole
<1>2. /\ db.users \in Seq(UserRows) /\ DOMAIN db.users = 1 .. Len(db.users) /\ Len(db.users) \in Nat
      /\ DOMAIN db = Fields
      /\ \A t \in tokens : t.user \in Nat
  BY <1>1 DEF Typed, TokensOK
<1>3. ASSUME NEW p \in Processes, Free(p)
      PROVE  at[p].step = "up" /\ job[p] = Idle /\ writer # p
  BY <1>1, <1>3 DEF Free, Up, Idle, Pending
<1>4. Idle.kind = "idle"
  BY DEF Idle
<1>5. CASE Register
  <2>1. Free("server") /\ writer = Nobody /\ UNCHANGED <<txn, writer, at, job>>
    BY <1>5 DEF Register
  <2>2. PICK name \in Names, password \in Passwords : RegisterUser(name, password)
    BY <1>5 DEF Register
  <2> DEFINE user == UserOf(name, password, "user")
  <2>3. db' = [db EXCEPT !.users = Append(@, user)] /\ tokens' = tokens \cup {MakeToken(Len(db.users) + 1, user)}
    BY <2>2 DEF RegisterUser
  <2>4. user \in UserRows
    BY DEF UserOf, UserRows
  <2> HIDE DEF user
  <2>5. MoreBooks(db, db')
    BY <1>1, <2>3, <2>4, UserAdded
  <2>6. db'.users = Append(db.users, user)
    BY <1>2, <2>3 DEF Fields
  <2>7. DOMAIN db'.users = 1 .. (Len(db.users) + 1)
    BY <1>2, <2>4, <2>6
  <2>8. TokensOK'
    <3>1. SUFFICES ASSUME NEW t \in tokens' PROVE t.user \in DOMAIN db'.users
      BY DEF TokensOK
    <3>2. t \in tokens \/ t.user = Len(db.users) + 1
      BY <2>3 DEF MakeToken
    <3>3. t \in tokens => t.user \in 1 .. Len(db.users)
      BY <1>1, <1>2 DEF TokensOK
    <3> QED
      BY <1>2, <2>7, <3>2, <3>3
  <2> QED
    BY <1>1, <1>3, <1>4, <2>1, <2>5, <2>8, WorkRows
<1>6. CASE Login \/ TokenExpires
  <2>1. UNCHANGED <<db, txn, writer, at, job>>
    BY <1>6 DEF Login, TokenExpires, databaseVars
  <2>2. TokensOK'
    <3>1. CASE Login
      <4>1. PICK name \in Names, password \in Passwords : LoginUser(name, password)
        BY <3>1 DEF Login
      <4>2. PICK id \in DOMAIN db.users : tokens' = tokens \cup {MakeToken(id, db.users[id])}
        BY <4>1 DEF LoginUser, FindByName
      <4>3. MakeToken(id, db.users[id]).user = id
        BY DEF MakeToken
      <4> HIDE DEF FindByName
      <4> QED
        BY <1>1, <2>1, <4>2, <4>3 DEF TokensOK
    <3>2. CASE TokenExpires
      BY <1>1, <2>1, <3>2 DEF TokenExpires, TokensOK
    <3> QED
      BY <1>6, <3>1, <3>2
  <2>3. \A p \in Processes : Pending(p)'
    BY <1>1, <2>1 DEF Pending, Ahead
  <2>4. Whole(db') /\ Grows(db, db')
    BY <1>1, <2>1, GrowsSame
  <2> QED
    BY <2>2, <2>3, <2>4 DEF RowsInv, Kept
<1>7. CASE CreateBook
  <2>1. Free("server") /\ UNCHANGED <<db, txn, writer, at, tokens>>
    BY <1>7 DEF CreateBook, databaseVars
  <2>2. PICK t \in tokens, capital \in Capitals :
          job' = [job EXCEPT !["server"] = [kind |-> "create", user |-> t.user, id |-> nextBook,
                                            capital |-> capital, seen |-> db]]
    BY <1>7 DEF CreateBook
  <2>3. /\ \A q \in Processes \ {"server"} : job'[q] = job[q]
        /\ job'["server"].kind = "create" /\ job'["server"].user = t.user
        /\ job'["server"].capital = capital
    BY <1>1, <2>2
  <2>4. t.user \in Nat /\ capital \in Int
    BY <1>2, ServerAssumption
  <2>5. TokensOK'
    BY <1>1, <2>1 DEF TokensOK
  <2> QED
    BY <1>1, <1>3, <2>1, <2>3, <2>4, <2>5, WorkRows
<1>8. CASE StoreBook
  <2> DEFINE j    == job["server"]
             user == UserOf(Placeholder(j.user), Unset, "user")
             book == Book(j.user, "api", j.capital, j.capital)
             d    == InsertUser(db, j.user, user)
             e    == InsertBook(d, j.id, book)
  <2>1. /\ j.kind = "create" /\ UNCHANGED <<txn, writer, at, tokens>>
        /\ job' = [job EXCEPT !["server"] = Idle]
        /\ db' = db \/ (writer = Nobody /\ db' = e)
    BY <1>8 DEF StoreBook
  <2>2. at["server"].step = "up" /\ writer # "server" /\ j.user \in Nat /\ j.capital \in Int
    BY <1>1, <2>1 DEF JobOK, Pending
  <2>3. user \in UserRows
    BY <2>2 DEF UserOf, UserRows
  <2>4. DOMAIN book = BookFields /\ book.main \in Int /\ book.available \in Int
    BY <2>2 DEF Book, BookFields
  <2> HIDE DEF user, book
  <2>5. MoreBooks(db, d)
    BY <1>1, <2>3, UserAdded
  <2> HIDE DEF d
  <2>6. MoreBooks(d, e)
    BY <2>4, <2>5, BookAdded DEF MoreBooks
  <2> HIDE DEF e
  <2>7. MoreBooks(db, e)
    BY <2>5, <2>6, MoreTwice
  <2>8. \A q \in Processes \ {"server"} : job'[q] = job[q]
    BY <1>1, <2>1
  <2>9. job'["server"] = Idle
    BY <1>1, <2>1
  <2>10. TokensOK'
    BY <1>1, <2>1, <2>7 DEF TokensOK, MoreBooks
  <2> QED
    BY <1>1, <1>4, <2>1, <2>2, <2>7, <2>8, <2>9, <2>10, WorkRows
<1>9. ASSUME NEW p \in Processes, Free(p), NEW asked, NEW run, RunRec(run), Persist(p, asked, run),
             UNCHANGED <<databaseVars, tokens>>
      PROVE  Kept
  <2>1. job' = [job EXCEPT ![p] = [kind |-> "persist", asked |-> asked, run |-> run, stage |-> 1]]
        /\ UNCHANGED <<db, txn, writer, at, tokens>>
    BY <1>9 DEF Persist, databaseVars
  <2>2. /\ \A q \in Processes \ {p} : job'[q] = job[q]
        /\ job'[p].kind = "persist" /\ job'[p].run = run /\ job'[p].stage = 1
    BY <1>1, <2>1
  <2>3. TokensOK'
    BY <1>1, <2>1 DEF TokensOK
  <2> QED
    BY <1>3, <1>9, <2>1, <2>2, <2>3, WorkRows
<1>10. CASE StartRun
  <2>1. Free("server") /\ UNCHANGED <<databaseVars, tokens>>
    BY <1>10 DEF StartRun
  <2>2. PICK t \in tokens, id \in DOMAIN db.books, r \in Results :
          \E capital \in Capitals \cup {db.books[id].available} :
            Persist("server", id, RunOf(t.user, db.books[id].name, capital, r))
    BY Zenon, <1>10 DEF StartRun
  <2>5. PICK capital \in Capitals \cup {db.books[id].available} :
          Persist("server", id, RunOf(t.user, db.books[id].name, capital, r))
    BY Zenon, <2>2
  <2>3. t.user \in Nat /\ capital \in Int
    BY <1>1, <1>2, ServerAssumption DEF Typed
  <2>4. RunRec(RunOf(t.user, db.books[id].name, capital, r))
    BY <2>3, RunOfRec
  <2> QED
    BY <1>1, <1>9, <2>1, <2>5, <2>4
<1>11. CASE CliRun
  <2>1. Free("cli") /\ UNCHANGED <<databaseVars, tokens>>
    BY <1>11 DEF CliRun
  <2>2. PICK r \in Results, capital \in Capitals : Persist("cli", FirstBook, RunOf(1, "cli", capital, r))
    BY <1>11 DEF CliRun
  <2>3. capital \in Int
    BY ServerAssumption
  <2>4. RunRec(RunOf(1, "cli", capital, r))
    BY <2>3, RunOfRec
  <2> QED
    BY <1>1, <1>9, <2>1, <2>2, <2>4
<1> QED
  BY <1>5, <1>6, <1>7, <1>8, <1>10, <1>11

(* persist_run, stage by stage.                                            *)
LEMMA PersistRows ==
  ASSUME IInv, RowsInv, NEW p \in Processes, PersistStage(p) \/ PersistCommit(p)
  PROVE  Kept
<1> DEFINE run   == job[p].run
           stage == job[p].stage
<1>1. /\ job[p].kind = "persist" /\ ProcessOK(p) /\ Pending(p) /\ Whole(db) /\ Typed(db) /\ TokensOK
      /\ DOMAIN job = Processes /\ DOMAIN at = Processes /\ DOMAIN txn = Processes
  BY DEF PersistStage, PersistCommit, IInv, Shape, RowsInv, Whole
<1>2. /\ at[p].step = "up" /\ stage \in 1 .. 4 /\ RunRec(run)
      /\ DOMAIN job[p] = {"kind", "asked", "run", "stage"}
      /\ stage = 1 => writer # p
      /\ stage # 1 => writer = p /\ Ahead(db, txn[p], run, stage)
  BY <1>1 DEF ProcessOK, JobOK, Pending
<1> HIDE DEF run
<1>3. p # Nobody
  BY ServerAssumption DEF Nobody
<1>4. CASE PersistStage(p)
  <2> DEFINE new == Write(Stages[stage], View(p), run)
  <2>1. /\ Stages[stage] # "commit" /\ WriteIn(p, new)
        /\ job' = [job EXCEPT ![p].stage = @ + 1] /\ at' = at /\ tokens' = tokens
    BY <1>4 DEF PersistStage, run
  <2>2. stage \in 1 .. 3
    BY <1>2, <2>1 DEF Stages
  <2>3. Ahead(db, new, run, stage + 1)
    <3>1. CASE stage = 1
      <4>1. View(p) = db /\ Stages[stage] = "workbook"
        BY <1>2, <3>1 DEF View, Stages
      <4>2. AfterWorkbook(db, Write("workbook", db, run), run)
        BY <1>1, <1>2, WorkbookStage
      <4> QED
        BY <3>1, <4>1, <4>2 DEF Ahead
    <3>2. CASE stage = 2
      <4>1. View(p) = txn[p] /\ Stages[stage] = "run" /\ AfterWorkbook(db, txn[p], run)
        BY <1>2, <3>2 DEF View, Stages, Ahead
      <4>2. AfterRunRow(txn[p], Write("run", txn[p], run), run)
        BY <1>2, <4>1, RunStage DEF AfterWorkbook
      <4> QED
        BY <3>2, <4>1, <4>2 DEF Ahead
    <3>3. CASE stage = 3
      <4>1. View(p) = txn[p] /\ Stages[stage] = "rows"
        BY <1>2, <3>3 DEF View, Stages
      <4>2. PICK d1 : AfterWorkbook(db, d1, run) /\ AfterRunRow(d1, txn[p], run)
        BY <1>2, <3>3 DEF Ahead
      <4>3. AfterRows(txn[p], Write("rows", txn[p], run), run)
        BY <1>2, <4>2, RowsStage DEF AfterRunRow
      <4>4. Stored(db, Write("rows", txn[p], run), run)
        BY <1>1, <1>2, <4>2, <4>3, StagesStore
      <4> QED
        BY <3>3, <4>1, <4>4 DEF Ahead
    <3> QED
      BY <2>2, <3>1, <3>2, <3>3
  <2> HIDE DEF new
  <2>4. /\ txn'[p] = new /\ db' = db /\ writer' = p /\ writer \in {Nobody, p}
        /\ \A q \in Processes \ {p} : txn'[q] = txn[q]
    BY <1>1, <2>1 DEF WriteIn, CanWrite
  <2>5. /\ \A q \in Processes \ {p} : job'[q] = job[q]
        /\ job'[p].kind = "persist" /\ job'[p].run = run /\ job'[p].stage = stage + 1
    BY <1>1, <1>2, <2>1 DEF run
  <2>6. Alone(p)
    BY <2>1, <2>4, <2>5 DEF Alone
  <2>7. Pending(p)'
    <3>1. stage + 1 # 1
      BY <2>2
    <3> HIDE DEF stage
    <3> QED
      BY <1>2, <2>1, <2>3, <2>4, <2>5, <3>1 DEF Pending, InFile
  <2> QED
    BY <2>1, <2>4, <2>6, <2>7, RowsStay
<1>5. CASE PersistCommit(p)
  <2>1. /\ Stages[stage] = "commit" /\ job' = [job EXCEPT ![p] = Idle] /\ tokens' = tokens
        /\ writer = p /\ writer' = Nobody /\ db' = txn[p] /\ txn' = [txn EXCEPT ![p] = NoTxn]
        /\ at' = (IF p = "cli" THEN [at EXCEPT ![p] = Off] ELSE at)
    BY <1>5 DEF PersistCommit, Commit
  <2>2. stage = 4
    BY <1>2, <2>1 DEF Stages
  <2>3. Stored(db, db', run)
    BY <1>2, <2>1, <2>2 DEF Ahead
  <2>4. Whole(db') /\ Grows(db, db')
    BY <1>1, <1>2, <2>3, StoredWhole
  <2>5. /\ \A q \in Processes \ {p} : job'[q] = job[q] /\ txn'[q] = txn[q] /\ at'[q] = at[q]
        /\ job'[p] = Idle /\ at'[p] \in {at[p], Off}
    BY <1>1, <2>1
  <2>6. Alone(p)
    BY <2>1, <2>5 DEF Alone
  <2>7. Pending(p)'
    BY <1>2, <1>3, <2>1, <2>5 DEF Pending, Idle, Off, InFile
  <2>8. TokensOK'
    BY <1>1, <2>1, <2>4 DEF TokensOK, Grows
  <2> QED
    BY <2>4, <2>6, <2>7, <2>8, RowsOfOne
<1> QED
  BY <1>4, <1>5

\* An empty database has no rows.
LEMMA InitRows == Init => RowsInv
<1> SUFFICES ASSUME Init PROVE RowsInv
  OBVIOUS
<1>1. /\ db = EmptyDb /\ writer = Nobody /\ tokens = {}
      /\ at = [p \in Processes |-> Off] /\ job = [p \in Processes |-> Idle]
  BY DEF Init, InitDatabase
<1>2. /\ db.users = << >> /\ db.events = << >> /\ db.runs = << >> /\ db.containers = << >>
      /\ db.fills = << >> /\ db.books = << >> /\ DOMAIN db = Fields
  BY <1>1 DEF EmptyDb, Fields
<1>3. Typed(db)
  BY <1>2 DEF Typed
<1>4. Belong(db) /\ Complete(db) /\ Listed(db)
  BY <1>2 DEF Belong, Complete, Listed
<1>5. Told(db)
  <2> DEFINE none == [i \in DOMAIN db.runs |-> EventsOf(db.runs[i].book, db.runs[i])]
  <2>1. none = << >>
    BY <1>2
  <2>2. Len(none) = 0
    BY <2>1
  <2>3. FlattenSeq(none) = << >>
    BY <2>1, <2>2 DEF FlattenSeq
  <2> QED
    BY <1>2, <2>3 DEF Told
<1>6. TokensOK /\ \A p \in Processes : Pending(p)
  BY <1>1 DEF TokensOK, Pending, Off, Idle, InFile
<1> QED
  BY <1>3, <1>4, <1>5, <1>6 DEF RowsInv, Whole

\* Every step keeps the rows, and lets the history grow.
LEMMA NextRows ==
  ASSUME IInv, RowsInv, [Next]_serverVars
  PROVE  Kept
<1>1. CASE UNCHANGED serverVars
  <2>1. UNCHANGED <<db, txn, writer, at, tokens, job>>
    BY <1>1 DEF serverVars
  <2>2. \A p \in Processes : Pending(p)'
    BY <2>1 DEF RowsInv, Pending, Ahead
  <2> QED
    BY <2>1, <2>2, GrowsSame DEF RowsInv, TokensOK, Kept
<1>2. ASSUME NEW p \in Processes, StartUp(p) /\ UNCHANGED <<tokens, nextBook, job>>
      PROVE  Kept
  BY <1>2, StartUpRows
<1> QED
  BY <1>1, <1>2, HandlersRows, PersistRows, EndsRows DEF Next

(* The rows belong together in every reachable state.                      *)
THEOREM RowsInductive == Spec => [](IInv /\ RowsInv)
<1>1. IInv /\ RowsInv /\ [Next]_serverVars => (IInv /\ RowsInv)'
  BY NextKeeps, NextRows DEF Kept
<1> QED
  BY InitHolds, InitRows, <1>1, PTL DEF Spec

\* What the API shows of whole rows adds up.
LEMMA WholeShows == RowsInv => RunsAreWhole
<1> SUFFICES ASSUME RowsInv PROVE RunsAreWhole
  OBVIOUS
<1> DEFINE books == DOMAIN db.books
<1>1. Belong(db) /\ Complete(db) /\ Told(db) /\ Listed(db)
  BY DEF RowsInv, Whole
<1>2. ASSUME NEW r \in DOMAIN db.runs
      PROVE  db.runs[r].book \in books /\ <<r, db.runs[r]>> \in GetRuns(db.runs[r].book)
  BY <1>1 DEF Listed, GetRuns, ListRuns, Rows
<1>3. ASSUME NEW id, NEW run \in GetRuns(id)
      PROVE  run \in Rows(db.runs)
  BY <1>3 DEF GetRuns, ListRuns
<1>4. UNION {GetRuns(id) : id \in books} = Rows(db.runs)
  <2>1. ASSUME NEW run \in Rows(db.runs) PROVE \E id \in books : run \in GetRuns(id)
    <3>1. PICK r \in DOMAIN db.runs : run = <<r, db.runs[r]>>
      BY DEF Rows
    <3> QED
      BY <1>2, <3>1
  <2> QED
    BY Zenon, <1>3, <2>1
<1>5. ASSUME NEW run \in Rows(db.runs)
      PROVE  /\ Cardinality(ListFills(db, run[1])) = run[2].fills
             /\ \A fill \in ListFills(db, run[1]) :
                  \E c \in ListContainers(db, run[1]) : c[1] = fill[2].container
  <2>1. PICK r \in DOMAIN db.runs : run = <<r, db.runs[r]>>
    BY DEF Rows
  <2>2. Cardinality(ListFills(db, r)) = db.runs[r].fills
    BY <1>1 DEF Complete
  <2>3. ASSUME NEW fill \in ListFills(db, r)
        PROVE  \E c \in ListContainers(db, r) : c[1] = fill[2].container
    <3>1. PICK i \in DOMAIN db.fills : fill = <<i, db.fills[i]>> /\ db.fills[i].run = r
      BY DEF ListFills, RowsOf, Rows
    <3> DEFINE k == db.fills[i].container
    <3>2. k \in DOMAIN db.containers /\ db.containers[k].run = r
      BY <1>1, <3>1 DEF Belong
    <3>3. <<k, db.containers[k]>> \in ListContainers(db, r)
      BY <3>2 DEF ListContainers, RowsOf, Rows
    <3> QED
      BY <3>1, <3>3
  <2> QED
    BY <2>1, <2>2, <2>3
<1>6. UNION {GetFills(id) : id \in books} = Rows(db.fills)
  <2>1. ASSUME NEW x \in Rows(db.fills) PROVE \E id \in books : x \in GetFills(id)
    <3>1. PICK i \in DOMAIN db.fills : x = <<i, db.fills[i]>>
      BY DEF Rows
    <3> DEFINE r == db.fills[i].run
    <3>2. r \in DOMAIN db.runs
      BY <1>1 DEF Belong
    <3>3. db.runs[r].book \in books /\ <<r, db.runs[r]>> \in GetRuns(db.runs[r].book)
      BY <1>2, <3>2
    <3>4. x \in ListFills(db, r)
      BY <3>1 DEF ListFills, RowsOf
    <3> HIDE DEF r
    <3>5. x \in ListFills(db, <<r, db.runs[r]>>[1])
      BY <3>4
    <3> QED
      BY Zenon, <3>3, <3>5 DEF GetFills
  <2>2. \A id \in books : GetFills(id) \subseteq Rows(db.fills)
    BY DEF GetFills, ListFills, RowsOf
  <2> QED
    BY Zenon, <2>1, <2>2
<1>7. UNION {GetContainers(id) : id \in books} = Rows(db.containers)
  <2>1. ASSUME NEW x \in Rows(db.containers) PROVE \E id \in books : x \in GetContainers(id)
    <3>1. PICK i \in DOMAIN db.containers : x = <<i, db.containers[i]>>
      BY DEF Rows
    <3> DEFINE r == db.containers[i].run
    <3>2. r \in DOMAIN db.runs
      BY <1>1 DEF Belong
    <3>3. db.runs[r].book \in books /\ <<r, db.runs[r]>> \in GetRuns(db.runs[r].book)
      BY <1>2, <3>2
    <3>4. x \in ListContainers(db, r)
      BY <3>1 DEF ListContainers, RowsOf
    <3> HIDE DEF r
    <3>5. x \in ListContainers(db, <<r, db.runs[r]>>[1])
      BY <3>4
    <3> QED
      BY Zenon, <3>3, <3>5 DEF GetContainers
  <2>2. \A id \in books : GetContainers(id) \subseteq Rows(db.containers)
    BY DEF GetContainers, ListContainers, RowsOf
  <2> QED
    BY Zenon, <2>1, <2>2
<1>8. db.events = FlattenSeq([i \in DOMAIN db.runs |-> EventsOf(db.runs[i].book, db.runs[i])])
  BY Zenon, <1>1 DEF Told
<1> HIDE DEF books
<1> QED
  BY Zenon, <1>4, <1>5, <1>6, <1>7, <1>8 DEF RunsAreWhole, books

(* Whatever process stored the runs, and whoever was killed meanwhile, the *)
(* API shows every run under some workbook, with all of its fills, each in *)
(* a container of its own, nothing besides, and the capital events are     *)
(* those of the runs, in their order: for any number of users, workbooks   *)
(* and runs of any size.                                                   *)
THEOREM RunsCorrect == Spec => []RunsAreWhole
BY RowsInductive, WholeShows, PTL

\* What grows was shown before, and is shown again.
LEMMA GrowsShows ==
  ASSUME TokensOK, Grows(db, db')
  PROVE  /\ \A t \in tokens : Me(t)' = Me(t) /\ GetBooks(t) \subseteq GetBooks(t)'
         /\ \A id \in DOMAIN db.books :
              /\ GetRuns(id) \subseteq GetRuns(id)'
              /\ \A old \in GetRuns(id), new \in GetRuns(id)' \ GetRuns(id) : old[1] < new[1]
              /\ \A run \in GetRuns(id) : ListFills(db, run[1])' = ListFills(db, run[1])
<1>1. ASSUME NEW t \in tokens
      PROVE  Me(t)' = Me(t) /\ GetBooks(t) \subseteq GetBooks(t)'
  <2>1. t.user \in DOMAIN db.users
    BY DEF TokensOK
  <2>2. t.user \in DOMAIN db'.users /\ db'.users[t.user] = db.users[t.user]
    BY <2>1 DEF Grows
  <2>3. Me(t)' = Me(t)
    BY <2>1, <2>2 DEF Me, FindUser
  <2>4. ASSUME NEW x \in GetBooks(t) PROVE x \in GetBooks(t)'
    <3>1. PICK i \in DOMAIN db.books : x = <<i, db.books[i].name>> /\ db.books[i].user = t.user
      BY DEF GetBooks
    <3>2. i \in DOMAIN db'.books /\ db'.books[i].user = t.user /\ x = <<i, db'.books[i].name>>
      BY <3>1 DEF Grows
    <3> QED
      BY <3>2 DEF GetBooks
  <2> QED
    BY <2>3, <2>4
<1>2. ASSUME NEW id
      PROVE  GetRuns(id) \subseteq GetRuns(id)'
             /\ \A old \in GetRuns(id), new \in GetRuns(id)' \ GetRuns(id) : old[1] < new[1]
  <2>1. \A i \in DOMAIN db.runs : i \in DOMAIN db'.runs /\ db'.runs[i] = db.runs[i]
    BY DEF Grows
  <2>2. GetRuns(id) \subseteq GetRuns(id)'
    BY <2>1 DEF GetRuns, ListRuns, Rows
  <2>3. ASSUME NEW old \in GetRuns(id), NEW new \in GetRuns(id)' \ GetRuns(id)
        PROVE  old[1] < new[1]
    <3>1. PICK i \in DOMAIN db.runs : old = <<i, db.runs[i]>>
      BY DEF GetRuns, ListRuns, Rows
    <3>2. PICK j \in DOMAIN db'.runs : new = <<j, db'.runs[j]>> /\ db'.runs[j].book = id
      BY DEF GetRuns, ListRuns, Rows
    <3>3. j \notin DOMAIN db.runs
      <4>1. SUFFICES ASSUME j \in DOMAIN db.runs PROVE FALSE
        OBVIOUS
      <4>2. db'.runs[j] = db.runs[j]
        BY <2>1, <4>1
      <4>3. new \in GetRuns(id)
        BY <3>2, <4>1, <4>2 DEF GetRuns, ListRuns, Rows
      <4> QED
        BY <4>3
    <3>4. i < j
      BY <3>2, <3>3 DEF Grows
    <3> QED
      BY <3>1, <3>2, <3>4
  <2> QED
    BY <2>2, <2>3
<1>3. ASSUME NEW id, NEW run \in GetRuns(id)
      PROVE  ListFills(db, run[1])' = ListFills(db, run[1])
  <2>1. PICK r \in DOMAIN db.runs : run = <<r, db.runs[r]>>
    BY DEF GetRuns, ListRuns, Rows
  <2>2. \A i \in DOMAIN db.fills : i \in DOMAIN db'.fills /\ db'.fills[i] = db.fills[i]
    BY DEF Grows
  <2>3. \A i \in DOMAIN db'.fills \ DOMAIN db.fills : db'.fills[i].run # r
    BY DEF Grows
  <2>4. {x \in {<<i, db'.fills[i]>> : i \in DOMAIN db'.fills} : x[2].run = r}
          = {x \in {<<i, db.fills[i]>> : i \in DOMAIN db.fills} : x[2].run = r}
    BY <2>2, <2>3
  <2>5. ListFills(db', r) = ListFills(db, r)
    BY <2>4 DEF ListFills, RowsOf, Rows
  <2> QED
    BY <2>1, <2>5
<1> QED
  BY <1>1, <1>2, <1>3

(* What a client was shown it is shown again, whoever restarts, fails or   *)
(* writes in between.                                                      *)
THEOREM HistoryCorrect == Spec => HistoryStays
<1> DEFINE Shows ==
      /\ \A t \in tokens : Me(t)' = Me(t) /\ GetBooks(t) \subseteq GetBooks(t)'
      /\ \A id \in DOMAIN db.books :
           /\ GetRuns(id) \subseteq GetRuns(id)'
           /\ \A old \in GetRuns(id), new \in GetRuns(id)' \ GetRuns(id) : old[1] < new[1]
           /\ \A run \in GetRuns(id) : ListFills(db, run[1])' = ListFills(db, run[1])
<1>1. IInv /\ RowsInv /\ [Next]_serverVars => [Shows]_serverVars
  BY NextRows, GrowsShows DEF Kept, RowsInv
<1>2. Spec => [][Shows]_serverVars
  <2> HIDE DEF Shows
  <2> QED
    BY <1>1, RowsInductive, PTL DEF Spec
<1> QED
  BY <1>2 DEF HistoryStays
===============================================================================
