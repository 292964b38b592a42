------------------------------ MODULE DataFetch ------------------------------
(* The bar cache of one (ticker, resolution): a key per session day in the    *)
(* bar store (RocksDB), one coverage row in SQLite, and DataFetchService,     *)
(* which fills both from the vendor before it serves a request.               *)
(*                                                                            *)
(* Requests come one at a time: the accept loop of the HTTP server and the    *)
(* engine's command line both have one thread. What may happen between two    *)
(* of a request's steps is that the calendar moves on, and that the request   *)
(* is dropped: the vendor throws, a store throws, or the process dies. Both   *)
(* stores survive that.                                                       *)
EXTENDS Integers, Sequences, FiniteSets, FiniteSetsExt

CONSTANTS LastDay,    \* the calendar is the days 1 .. LastDay
          Sessions,   \* the session days of the exchange (is_nse_session_day)
          Tapes,      \* the session days the vendor may have bars of
          ChunkSpan,  \* kMaxChunkCalendarDays
          Froms,      \* the starts of range that are asked for; 0 is Timestamp{}
          MaxAborts   \* bound: requests that are dropped halfway

VARIABLES clock,   \* the IST date of now()
          tape,    \* the session days the vendor has bars of
          store,   \* BarStore: the blob under the key of a day
          row,     \* symbol_data_coverage: first_date, last_date, live_date
          req,     \* the request under way: its range and its `today`
          todo,    \* the calls that are left of it, innermost first
          chunk,   \* the days of a fetched chunk that are still to be put
          aborts,  \* requests dropped so far
          torn     \* history: the range was torn, see JumpsOver, SkipsInside, CutInside

vars == <<clock, tape, store, row, req, todo, chunk, aborts, torn>>

Days == 1 .. LastDay

ASSUME CalendarAssumption ==
  /\ LastDay \in Nat
  /\ Sessions \subseteq Days
  /\ \A t \in Tapes : t \subseteq Sessions
  /\ ChunkSpan \in Nat \ {0}
  /\ Froms \subseteq 0 .. LastDay
  /\ MaxAborts \in Nat

Unset == 0                         \* an empty optional<SessionDate>
Blobs == {"empty", "partial", "full"}
NoBlobs == [d \in {} |-> "empty"]
NoRequest == [from |-> Unset, to |-> Unset, today |-> Unset]

IsSession(d) == d \in Sessions

SessionDays(from, to) == {d \in Sessions : from <= d /\ d <= to}

(* prev_session_day. last_closed_session is the same day: on a session day it *)
(* is the one before, on any other day the last one that came.                *)
PrevSession(d) == Max({s \in Sessions : s < d})

(* The days the row claims to have, as fill_closed reads it.                  *)
Covered == IF row.first = Unset \/ row.last = Unset THEN {}
           ELSE SessionDays(row.first, row.last)

(* What the vendor answers for a day: the whole day once it is over, what     *)
(* there is of it while it lasts, which before the open is nothing.           *)
VendorBlobs(d) == IF d \notin tape THEN {"empty"}
                  ELSE IF d < clock THEN {"full"} ELSE {"empty", "partial"}

FinalBlob(d) == IF d \in tape THEN "full" ELSE "empty"

-----------------------------------------------------------------------------
(* A request as the calls it still has to make. "fetch" is fetch_and_store    *)
(* of some days, "cover" the upsert that ends a chunk of it, "sealed", "live" *)
(* and "discovered" the upserts of their callers after it.                    *)

Call(op) == [op |-> op, days |-> {}, left |-> FALSE]

FetchAndStore(days, left) ==
  IF days = {} THEN <<>>
  ELSE <<[Call("fetch") EXCEPT !.days = days, !.left = left]>>

Doing(op) == todo # <<>> /\ chunk = NoBlobs /\ Head(todo).op = op

(* The call at the head returns after `calls` have been made.                 *)
Then(calls) == todo' = calls \o Tail(todo)

Init ==
  /\ clock \in {d \in Days : \E s \in Sessions : s < d}
  /\ tape \in Tapes
  /\ store = [d \in Days |-> "none"]
  /\ row = [first |-> Unset, last |-> Unset, live |-> Unset]
  /\ req = NoRequest
  /\ todo = <<>>
  /\ chunk = NoBlobs
  /\ aborts = 0
  /\ torn = FALSE

(* load_bars: ensure_data_available with now() read once, then the read of    *)
(* the store. A `to` in the future, or none, is now.                          *)
Request(from, to) ==
  /\ todo = <<>>
  /\ req' = [from |-> from, to |-> to, today |-> clock]
  /\ todo' = <<Call("seal"), Call("fill"), Call("today"), Call("load")>>
  /\ UNCHANGED <<clock, tape, store, row, chunk, aborts, torn>>

(* seal_stale_live: a live day that is not today's any more is fetched again, *)
(* whole, and then becomes part of the closed range.                          *)
StaleLive == row.live # Unset /\ ~(IsSession(req.today) /\ row.live = req.today)

SealStaleLive ==
  /\ Doing("seal")
  /\ Then(IF StaleLive
          THEN FetchAndStore({row.live}, FALSE) \o <<Call("sealed")>>
          ELSE <<>>)
  /\ UNCHANGED <<clock, tape, store, row, req, chunk, aborts, torn>>

SealedRow == [first |-> IF row.first = Unset THEN row.live ELSE row.first,
              last |-> Max({row.last, row.live}),
              live |-> Unset]

Sealed ==
  /\ Doing("sealed")
  /\ row' = SealedRow
  /\ Then(<<>>)
  /\ UNCHANGED <<clock, tape, store, req, chunk, aborts, torn>>

(* The closed part of the request ends at the last closed session.            *)
ClosedTo == Min({PrevSession(req.today), req.to})

(* fill_closed: the sessions of the request that the row does not cover,      *)
(* those before its first day apart from the others. Without a start and      *)
(* with a row the request starts at the row's first day.                      *)
FillFrom == IF req.from = Unset THEN row.first ELSE req.from

\* A plausible bug: the end of the range is taken as exclusive.
MissingHalfOpen == {d \in SessionDays(FillFrom, ClosedTo) : d < ClosedTo} \ Covered
\* A plausible bug: what is covered is fetched again.
MissingAll == SessionDays(FillFrom, ClosedTo)

Missing == SessionDays(FillFrom, ClosedTo) \ Covered

(* Coverage is one interval: a request that ends before it or starts after it *)
(* widens it over the sessions in between, which nobody asked for.            *)
JumpsOver ==
  \/ row.last # Unset /\ \E s \in Sessions : row.last < s /\ s < FillFrom
  \/ row.first # Unset /\ \E s \in Sessions : ClosedTo < s /\ s < row.first

Left == {d \in Missing : row.first # Unset /\ d < row.first}

FillClosed ==
  /\ Doing("fill")
  /\ FillFrom # Unset
  /\ Then(FetchAndStore(Left, TRUE)
            \o FetchAndStore(Missing \ Left, row.first = Unset))
  /\ torn' = (torn \/ JumpsOver)
  /\ UNCHANGED <<clock, tape, store, row, req, chunk, aborts>>

(* discover_closed: with neither start nor row, all the vendor has, from its  *)
(* first day with bars. These days are over, the vendor has them whole.       *)
Discoverable == {d \in tape : d <= ClosedTo}

\* A plausible bug: only the days the vendor has bars of get a key.
DiscoverDaysWithBars == Discoverable
DiscoverDays == SessionDays(Min(Discoverable), ClosedTo)

DiscoverClosed ==
  /\ Doing("fill")
  /\ FillFrom = Unset
  /\ IF Discoverable = {}
     THEN Then(<<>>) /\ UNCHANGED chunk
     ELSE /\ chunk' = [d \in DiscoverDays |-> FinalBlob(d)]
          /\ Then(<<[Call("discovered") EXCEPT !.days = {Min(Discoverable), ClosedTo}]>>)
  /\ UNCHANGED <<clock, tape, store, row, req, aborts, torn>>

Discovered ==
  /\ Doing("discovered")
  /\ LET days == Head(todo).days IN
       row' = [first |-> Min(days), last |-> Max(days), live |-> Unset]
  /\ Then(<<>>)
  /\ UNCHANGED <<clock, tape, store, req, chunk, aborts, torn>>

(* refresh_today, for a request that reaches today. A live blob younger than  *)
(* kLiveTtlNs is good enough: its age is left open.                           *)
WantsToday == IsSession(req.today) /\ req.to >= req.today /\ req.from <= req.today

RefreshToday ==
  /\ Doing("today")
  /\ \/ ~WantsToday /\ Then(<<>>)
     \/ WantsToday /\ row.live = req.today /\ Then(<<>>)
     \/ WantsToday /\ Then(FetchAndStore({req.today}, FALSE) \o <<Call("live")>>)
  /\ UNCHANGED <<clock, tape, store, row, req, chunk, aborts, torn>>

(* fetch_and_store took today into the range; this upsert takes it out.       *)
\* A plausible bug: today stays in the closed range.
LiveRowKeepsToday == [first |-> row.first, last |-> row.last, live |-> req.today]

LiveRow == [first |-> row.first,
            last |-> IF row.last = req.today THEN PrevSession(req.today) ELSE row.last,
            live |-> req.today]

Live ==
  /\ Doing("live")
  /\ row' = LiveRow
  /\ Then(<<>>)
  /\ UNCHANGED <<clock, tape, store, req, chunk, aborts, torn>>

-----------------------------------------------------------------------------
(* fetch_and_store: chunk by chunk, the bars of the chunk from the vendor,    *)
(* then its days into the store, then the row.                                *)

FirstChunk(days) == {d \in days : d - Min(days) + 1 <= ChunkSpan}

(* To the left of the range the days before the vendor's first are not        *)
(* history: only those from the first day with bars are kept.                 *)
ToWrite(days, blobs, left) ==
  IF left THEN {d \in days : \E e \in days : e <= d /\ blobs[e] # "empty"} ELSE days

(* Each chunk looks for its own first day with bars: a later chunk may skip   *)
(* days that the range reaches over.                                          *)
SkipsInside(skipped) == row.first # Unset /\ \E d \in skipped : row.first < d

Cover(days) == IF days = {} THEN <<>> ELSE <<[Call("cover") EXCEPT !.days = days]>>

\* A plausible bug: what was not written is asked for again, for ever.
OtherChunksUnwritten(call, written) == FetchAndStore(call.days \ written, call.left)

(* The next chunk starts after this one, whatever of it was written.          *)
OtherChunks(call, written) ==
  FetchAndStore(call.days \ FirstChunk(call.days), call.left)

FetchChunk ==
  /\ Doing("fetch")
  /\ LET call == Head(todo)
         days == FirstChunk(call.days)
     IN \E blobs \in [days -> Blobs] :
          LET write == ToWrite(days, blobs, call.left) IN
          /\ \A d \in days : blobs[d] \in VendorBlobs(d)
          /\ chunk' = [d \in write |-> blobs[d]]
          /\ Then(Cover(write) \o OtherChunks(call, write))
          /\ torn' = (torn \/ SkipsInside(days \ write))
  /\ UNCHANGED <<clock, tape, store, row, req, aborts>>

(* put_session, a synchronous write of one key, in the order of the days.     *)
NextToPut == Min(DOMAIN chunk)

PutSession ==
  /\ chunk # NoBlobs
  /\ store' = [store EXCEPT ![NextToPut] = chunk[NextToPut]]
  /\ chunk' = [d \in DOMAIN chunk \ {NextToPut} |-> chunk[d]]
  /\ UNCHANGED <<clock, tape, row, req, todo, aborts, torn>>

Widened(days) == [row EXCEPT !.first = Min(days \cup ({@} \ {Unset})),
                             !.last = Max(days \cup {@})]

CoverChunk ==
  /\ Doing("cover")
  /\ row' = Widened(Head(todo).days)
  /\ Then(<<>>)
  /\ UNCHANGED <<clock, tape, store, req, chunk, aborts, torn>>

(* The read that ends load_bars; it changes nothing.                          *)
Load ==
  /\ Doing("load")
  /\ req' = NoRequest
  /\ Then(<<>>)
  /\ UNCHANGED <<clock, tape, store, row, chunk, aborts, torn>>

-----------------------------------------------------------------------------
(* The vendor or a store throws, or the process dies: the rest of the         *)
(* request is gone, what was written stays.                                   *)
(* To the left of the range the chunks come in ascending order, too: after    *)
(* the first of them the range reaches over days that are still to be put.    *)
CutInside ==
  LET pending == DOMAIN chunk \cup UNION {todo[i].days : i \in {j \in DOMAIN todo : todo[j].op = "fetch"}}
  IN  \E d \in pending : row.first < d /\ d <= row.last

Abort ==
  /\ todo # <<>>
  /\ aborts < MaxAborts
  /\ aborts' = aborts + 1
  /\ torn' = (torn \/ CutInside)
  /\ req' = NoRequest
  /\ todo' = <<>>
  /\ chunk' = NoBlobs
  /\ UNCHANGED <<clock, tape, store, row>>

Tick ==
  /\ clock < LastDay
  /\ clock' = clock + 1
  /\ UNCHANGED <<tape, store, row, req, todo, chunk, aborts, torn>>

Step ==
  \/ SealStaleLive
  \/ Sealed
  \/ FillClosed
  \/ DiscoverClosed
  \/ Discovered
  \/ RefreshToday
  \/ Live
  \/ FetchChunk
  \/ PutSession
  \/ CoverChunk
  \/ Load

Next ==
  \/ \E from \in Froms, to \in 1 .. clock : Request(from, to)
  \/ Step
  \/ Abort
  \/ Tick

(* Fairness: a request that was not dropped is one thread that keeps going.   *)
Spec == Init /\ [][Next]_vars /\ WF_vars(Step)

-----------------------------------------------------------------------------
(* The row, the store and the calls of a request keep to their types.         *)
Calls == [op : {"seal", "sealed", "fill", "discovered", "today", "live", "load",
                "fetch", "cover"},
          days : SUBSET Days,
          left : BOOLEAN]

TypeOK ==
  /\ clock \in Days
  /\ tape \in Tapes
  /\ store \in [Days -> Blobs \cup {"none"}]
  /\ LET day == Days \cup {Unset} IN
       /\ row \in [first : day, last : day, live : day]
       /\ req \in [from : day, to : day, today : day]
  /\ \A i \in 1 .. Len(todo) : todo[i] \in Calls
  /\ \A d \in DOMAIN chunk : d \in Sessions /\ chunk[d] \in Blobs
  /\ aborts \in 0 .. MaxAborts /\ torn \in BOOLEAN

(* "No holes": every session between first_date and last_date has a key in    *)
(* the store, at every moment, so that a request that is cut off at any point *)
(* leaves a row the next one can trust: fill_closed never asks again for a    *)
(* day it believes covered.                                                   *)
CoveredIsStored == \A d \in Covered : store[d] # "none"

(* Between requests the range has no hole unless a request has torn it:       *)
(* wherever the others are cut off between vendor, store and row, the next    *)
(* can trust what it finds (data_fetch_service.cpp:297-336).                  *)
CoveredUnlessTorn == ~torn /\ todo = <<>> => CoveredIsStored

(* Between requests the closed range holds closed days: each of its days that *)
(* is stored holds what the vendor finally has, never the part that was there *)
(* when it was today, and it does not reach today.                            *)
SealedIsFinal ==
  todo = <<>> => /\ \A d \in Covered \ {row.live} : store[d] \in {"none", FinalBlob(d)}
                 /\ row.last < clock

(* The same, as long as no request was dropped: whatever is asked for, and    *)
(* however often the calendar moves on in the middle of a request.            *)
UncutSealedIsFinal == aborts = 0 => SealedIsFinal

(* When load_bars comes to read the store, it finds a key for every closed    *)
(* day of its range the vendor has bars of, whatever earlier requests were    *)
(* cut off, unless one of them has torn the range.                            *)
AnswerHasEveryDay ==
  ~torn /\ Doing("load") =>
    \A d \in tape : FillFrom <= d /\ d <= ClosedTo => store[d] # "none"

(* A day that is stored and covered is not asked of the vendor again, except  *)
(* the live day, to refresh or to seal it, as long as no request was dropped: *)
(* the keys of a dropped one may be there without their row.                  *)
NothingFetchedTwice ==
  [][aborts = 0 =>
       \A d \in DOMAIN chunk' \ DOMAIN chunk :
         d \in Covered /\ store[d] # "none" => d \in {row.live, req.today}]_vars

(* Every request ends, also one that extends to the left of all the vendor    *)
(* has, whatever the calendar does meanwhile.                                 *)
RequestsEnd == [](todo # <<>> => <>(todo = <<>>))
=============================================================================
