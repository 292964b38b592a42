--------------------------- MODULE DataFetch_proofs ---------------------------
(***************************************************************************)
(* What the bar cache promises, for every calendar, every vendor, every    *)
(* chunk length and any number of requests that are dropped: the row and   *)
(* the store agree wherever a request is cut off, and a request that       *)
(* reaches its end finds what it asked for.                                *)
(*                                                                         *)
(* The calls of a request always have one form: what is left of the chunk  *)
(* that is being written, the days to the left that are still to be        *)
(* fetched, those to the right, and the step that comes after them. The    *)
(* invariant speaks of these parts.                                        *)
(***************************************************************************)
EXTENDS DataFetch, SequenceTheorems, WellFoundedInduction, TLAPS

-------------------------------------------------------------------------------
(* Sets of days.                                                           *)

LessThan == {ss \in Nat \X Nat : ss[1] < ss[2]}

\* The order of the naturals has least elements.
LEMMA LessThanWellFounded == IsWellFoundedOn(LessThan, Nat)
BY Zenon, NatLessThanWellFounded DEF OpToRel, LessThan

\* The least of some naturals.
LEMMA Least ==
  ASSUME NEW S \in SUBSET Nat, S # {}
  PROVE  Min(S) \in S /\ \A y \in S : Min(S) <= y
<1>1. PICK x \in S : \A y \in S : ~ (<<y, x>> \in LessThan)
  BY LessThanWellFounded, WFMin
<1>2. ASSUME NEW y \in S
      PROVE  x <= y
  <2>1. x \in Nat /\ y \in Nat
    OBVIOUS
  <2>2. ~ (<<y, x>> \in LessThan)
    BY <1>1
  <2>3. <<y, x>>[1] = y /\ <<y, x>>[2] = x
    OBVIOUS
  <2>4. ~ (y < x)
    BY <2>1, <2>2, <2>3 DEF LessThan
  <2> QED
    BY <2>1, <2>4
<1>3. \E m \in S : \A y \in S : m <= y
  BY <1>2
<1> QED
  BY <1>3 DEF Min

\* The greatest of some naturals that do not exceed a bound: the least of the bounds.
LEMMA Greatest ==
  ASSUME NEW S \in SUBSET Nat, S # {}, NEW b \in Nat, \A y \in S : y <= b
  PROVE  Max(S) \in S /\ \A y \in S : y <= Max(S)
<1> DEFINE B == {n \in Nat : \A y \in S : y <= n}
<1>1. B \in SUBSET Nat /\ b \in B
  OBVIOUS
<1>2. Min(B) \in B /\ \A n \in B : Min(B) <= n
  BY <1>1, Least
<1>3. PICK m \in B : \A n \in B : m <= n
  BY <1>2
<1>4. m \in S
  <2>1. SUFFICES ASSUME m \notin S PROVE FALSE
    OBVIOUS
  <2>2. ASSUME NEW y \in S PROVE y < m
    <3>1. y \in Nat /\ m \in Nat /\ y <= m /\ y # m
      BY <2>1
    <3> QED
      BY <3>1
  <2>3. m - 1 \in Nat
    <3>1. PICK y \in S : TRUE
      OBVIOUS
    <3>2. y \in Nat /\ m \in Nat /\ y < m
      BY <2>2
    <3> QED
      BY <3>2
  <2>4. m - 1 \in B
    <3>1. ASSUME NEW y \in S PROVE y <= m - 1
      BY <2>2, <1>3
    <3> QED
      BY <3>1, <2>3
  <2>5. m <= m - 1
    BY <2>4, <1>3
  <2> QED
    BY <2>5, <1>3
<1>5. \E x \in S : \A y \in S : x >= y
  BY <1>3, <1>4
<1> QED
  BY <1>5 DEF Max

\* The least and the greatest of some days, the unset day among them or not.
LEMMA LeastDay ==
  ASSUME NEW S \in SUBSET (Days \cup {Unset}), S # {}
  PROVE  Min(S) \in S /\ \A y \in S : Min(S) <= y
<1>1. S \in SUBSET Nat
  BY CalendarAssumption DEF Days, Unset
<1> QED
  BY <1>1, Least

LEMMA GreatestDay ==
  ASSUME NEW S \in SUBSET (Days \cup {Unset}), S # {}
  PROVE  Max(S) \in S /\ \A y \in S : y <= Max(S)
<1>1. S \in SUBSET Nat /\ LastDay \in Nat /\ \A y \in S : y <= LastDay
  BY CalendarAssumption DEF Days, Unset
<1> QED
  BY <1>1, Greatest

\* The session before a day that has one.
LEMMA SessionBefore ==
  ASSUME NEW d \in Days, \E s \in Sessions : s < d
  PROVE  /\ PrevSession(d) \in Sessions
         /\ PrevSession(d) < d
         /\ \A s \in Sessions : s < d => s <= PrevSession(d)
<1> DEFINE S == {s \in Sessions : s < d}
<1>1. S \in SUBSET (Days \cup {Unset}) /\ S # {}
  BY CalendarAssumption
<1>2. Max(S) \in S /\ \A y \in S : y <= Max(S)
  BY <1>1, GreatestDay
<1> QED
  BY <1>2 DEF PrevSession

\* A chunk is the first days of those that are asked for.
LEMMA ChunkOfDays ==
  ASSUME NEW D \in SUBSET Days, D # {}
  PROVE  /\ FirstChunk(D) \subseteq D
         /\ FirstChunk(D) # {}
         /\ \A d \in FirstChunk(D) : \A e \in D \ FirstChunk(D) : d < e
<1>1. D \in SUBSET (Days \cup {Unset})
  OBVIOUS
<1>2. Min(D) \in D /\ \A y \in D : Min(D) <= y
  BY <1>1, LeastDay
<1>3. \A d \in D : d \in Int
  BY CalendarAssumption DEF Days
<1>4. Min(D) - Min(D) + 1 <= ChunkSpan
  BY <1>2, <1>3, CalendarAssumption
<1>5. Min(D) \in FirstChunk(D)
  BY <1>2, <1>4 DEF FirstChunk
<1>6. ASSUME NEW d \in FirstChunk(D), NEW e \in D \ FirstChunk(D) PROVE d < e
  <2>1. d \in Int /\ e \in Int /\ Min(D) \in Int /\ ChunkSpan \in Int
    BY <1>2, <1>3, CalendarAssumption DEF FirstChunk
  <2>2. d - Min(D) + 1 <= ChunkSpan /\ ~(e - Min(D) + 1 <= ChunkSpan)
    BY DEF FirstChunk
  <2> QED
    BY <2>1, <2>2
<1> QED
  BY <1>5, <1>6 DEF FirstChunk

\* What is written of a chunk: all of it, or the days from the first with bars.
LEMMA WrittenOfChunk ==
  ASSUME NEW days \in SUBSET Days, NEW blobs \in [days -> Blobs], NEW left \in BOOLEAN
  PROVE  /\ ToWrite(days, blobs, left) \subseteq days
         /\ ~left => ToWrite(days, blobs, left) = days
         /\ \A d \in ToWrite(days, blobs, left), e \in days :
               d <= e => e \in ToWrite(days, blobs, left)
         /\ \A d \in days \ ToWrite(days, blobs, left) : blobs[d] = "empty"
<1>1. \A d \in days : d \in Int
  BY CalendarAssumption DEF Days
<1>2. \A d \in days : d <= d
  BY <1>1
<1>3. \A d, e, c \in days : c <= d /\ d <= e => c <= e
  BY <1>1
<1>4. CASE left
  <2>1. ToWrite(days, blobs, left) = {d \in days : \E e \in days : e <= d /\ blobs[e] # "empty"}
    BY <1>4 DEF ToWrite
  <2> QED
    BY <2>1, <1>2, <1>3, <1>4
<1>5. CASE ~left
  BY <1>5 DEF ToWrite
<1> QED
  BY <1>4, <1>5

-------------------------------------------------------------------------------
(* The form of what is left of a request.                                  *)

Phases == {"seal", "sealed", "fill", "discovered", "today", "live", "load"}

\* The step that comes after the fetches, and the steps after that one.
PhaseCall(p) ==
  IF p = "discovered" THEN [Call(p) EXCEPT !.days = {Min(Discoverable), ClosedTo}] ELSE Call(p)

After(p) == CASE p \in {"seal", "sealed"} -> <<Call("fill"), Call("today"), Call("load")>>
              [] p \in {"fill", "discovered"} -> <<Call("today"), Call("load")>>
              [] p \in {"today", "live"} -> <<Call("load")>>
              [] p = "load" -> <<>>

Rest(p) == <<PhaseCall(p)>> \o After(p)

\* W is the chunk that is written or about to be covered, L and R are still to be fetched.
Pending(p, W, L, R, f) == Cover(W) \o (FetchAndStore(L, TRUE) \o (FetchAndStore(R, f) \o Rest(p)))

\* One call before others.
LEMMA Cons ==
  ASSUME NEW S, NEW e \in S, NEW x \in Seq(S)
  PROVE  /\ <<e>> \o x \in Seq(S)
         /\ <<e>> \o x # <<>>
         /\ Head(<<e>> \o x) = e
         /\ Tail(<<e>> \o x) = x
         /\ Len(<<e>> \o x) = Len(x) + 1
         /\ (<<e>> \o x)[1] = e
         /\ \A i \in 1 .. Len(x) : (<<e>> \o x)[i + 1] = x[i]
<1>1. <<e>> \in Seq(S) /\ Len(<<e>>) = 1 /\ <<e>>[1] = e
  OBVIOUS
<1> DEFINE y == <<e>> \o x
<1>2. Len(x) \in Nat
  BY LenProperties
<1>3. /\ y \in Seq(S)
      /\ Len(y) = 1 + Len(x)
      /\ \A i \in 1 .. 1 + Len(x) : y[i] = IF i <= 1 THEN <<e>>[i] ELSE x[i - 1]
  BY <1>1, ConcatProperties
<1> HIDE DEF y
<1>4. y # <<>>
  BY <1>2, <1>3, EmptySeq
<1>5. y[1] = e
  BY <1>1, <1>2, <1>3
<1>6. \A i \in 1 .. Len(x) : y[i + 1] = x[i]
  BY <1>2, <1>3
<1>7. Head(y) = e
  BY <1>3, <1>4, <1>5
<1>8. /\ Tail(y) \in Seq(S) /\ Len(Tail(y)) = Len(y) - 1
      /\ \A i \in 1 .. Len(Tail(y)) : Tail(y)[i] = y[i + 1]
  BY <1>3, <1>4, HeadTailProperties
<1>9. Len(Tail(y)) = Len(x)
  BY <1>2, <1>3, <1>8
<1>10. Tail(y) = x
  BY <1>6, <1>8, <1>9, SeqEqual
<1> QED
  BY <1>2, <1>3, <1>4, <1>5, <1>6, <1>7, <1>10 DEF y

\* Sequences that are written out.
LEMMA ConsWrittenOut ==
  ASSUME NEW S, NEW a \in S, NEW b \in S, NEW c \in S
  PROVE  /\ <<a>> \o <<>> = <<a>>
         /\ <<a>> \o <<b>> = <<a, b>>
         /\ <<a>> \o <<b, c>> = <<a, b, c>>
<1>1. /\ <<>> \in Seq(S) /\ <<a>> \in Seq(S) /\ <<a, b>> \in Seq(S) /\ <<a, b, c>> \in Seq(S)
      /\ <<b>> \in Seq(S) /\ <<b, c>> \in Seq(S) 
  OBVIOUS
<1>2. <<a>> \o <<>> = <<a>>
  BY <1>1, ConcatEmptySeq
<1>3. <<a>> \o <<b>> = <<a, b>>
  <2> DEFINE x == <<b>>
             y == <<a>> \o x
  <2>1. Len(x) = 1 /\ x[1] = b
    OBVIOUS
  <2>2. y \in Seq(S) /\ Len(y) = 2 /\ y[1] = a /\ \A i \in 1 .. 1 : y[i + 1] = x[i]
    BY <1>1, <2>1, Cons
  <2> HIDE DEF x, y
  <2>3. y[2] = b
    BY <2>1, <2>2
  <2>4. \A i \in 1 .. 2 : y[i] = <<a, b>>[i]
    BY <2>2, <2>3
  <2> QED
    BY <1>1, <2>2, <2>4, SeqEqual DEF x, y
<1>4. <<a>> \o <<b, c>> = <<a, b, c>>
  <2> DEFINE x == <<b, c>>
             y == <<a>> \o x
  <2>1. Len(x) = 2 /\ x[1] = b /\ x[2] = c
    OBVIOUS
  <2>2. y \in Seq(S) /\ Len(y) = 3 /\ y[1] = a /\ \A i \in 1 .. 2 : y[i + 1] = x[i]
    BY <1>1, <2>1, Cons
  <2> HIDE DEF x, y
  <2>3. y[2] = b /\ y[3] = c
    BY <2>1, <2>2
  <2>4. \A i \in 1 .. 3 : y[i] = <<a, b, c>>[i]
    BY <2>2, <2>3
  <2> QED
    BY <1>1, <2>2, <2>4, SeqEqual DEF x, y
<1> QED
  BY <1>2, <1>3, <1>4

LEMMA ConsThree ==
  ASSUME NEW S, NEW a \in S, NEW b \in S, NEW c \in S, NEW d \in S
  PROVE  <<a>> \o <<b, c, d>> = <<a, b, c, d>>
<1> DEFINE x == <<b, c, d>>
           y == <<a>> \o x
<1>1. <<b, c, d>> \in Seq(S) /\ <<a, b, c, d>> \in Seq(S)
  OBVIOUS
<1>2. Len(x) = 3 /\ x[1] = b /\ x[2] = c /\ x[3] = d
  OBVIOUS
<1>3. y \in Seq(S) /\ Len(y) = 4 /\ y[1] = a /\ \A i \in 1 .. 3 : y[i + 1] = x[i]
  BY <1>1, <1>2, Cons
<1> HIDE DEF x, y
<1>4. y[2] = b /\ y[3] = c /\ y[4] = d
  BY <1>2, <1>3
<1>5. \A i \in 1 .. 4 : y[i] = <<a, b, c, d>>[i]
  BY <1>3, <1>4
<1> QED
  BY <1>1, <1>3, <1>5, SeqEqual DEF x, y

\* The calls have their types.
LEMMA CallTypes ==
  /\ \A p \in Phases : Call(p) \in Calls /\ Call(p).op = p
  /\ \A p \in Phases \ {"discovered"} : PhaseCall(p) = Call(p)
  /\ \A D \in SUBSET Sessions : Cover(D) \in Seq(Calls)
  /\ \A D \in SUBSET Sessions, left \in BOOLEAN : FetchAndStore(D, left) \in Seq(Calls)
<1>1. Sessions \subseteq Days
  BY CalendarAssumption
<1>2. \A p \in Phases : Call(p) \in Calls /\ Call(p).op = p
  BY DEF Phases, Call, Calls
<1>3. \A p \in Phases \ {"discovered"} : PhaseCall(p) = Call(p)
  BY DEF PhaseCall
<1>4. ASSUME NEW D \in SUBSET Sessions PROVE Cover(D) \in Seq(Calls)
  <2>1. [Call("cover") EXCEPT !.days = D] \in Calls
    BY <1>1 DEF Call, Calls
  <2> QED
    BY <2>1 DEF Cover
<1>5. ASSUME NEW D \in SUBSET Sessions, NEW left \in BOOLEAN
      PROVE  FetchAndStore(D, left) \in Seq(Calls)
  <2>1. [Call("fetch") EXCEPT !.days = D, !.left = left] \in Calls
    BY <1>1 DEF Call, Calls
  <2> QED
    BY <2>1 DEF FetchAndStore
<1> QED
  BY <1>2, <1>3, <1>4, <1>5

LEMMA RestType ==
  ASSUME NEW p \in Phases, PhaseCall(p) \in Calls
  PROVE  /\ After(p) \in Seq(Calls)
         /\ Rest(p) \in Seq(Calls)
         /\ Rest(p) # <<>>
         /\ Head(Rest(p)) = PhaseCall(p)
         /\ Tail(Rest(p)) = After(p)
<1>1. Call("fill") \in Calls /\ Call("today") \in Calls /\ Call("load") \in Calls
  BY CallTypes DEF Phases
<1>2. After(p) \in Seq(Calls)
  <2>1. CASE p \in {"seal", "sealed"}
    BY <1>1, <2>1 DEF After
  <2>2. CASE p \in {"fill", "discovered"}
    BY <1>1, <2>2 DEF After
  <2>3. CASE p \in {"today", "live"}
    BY <1>1, <2>3 DEF After
  <2>4. CASE p = "load"
    BY <1>1, <2>4 DEF After
  <2> QED
    BY <2>1, <2>2, <2>3, <2>4 DEF Phases
<1> QED
  BY <1>2, Cons DEF Rest

\* The steps after a phase are those from the next one on.
LEMMA RestSteps ==
  /\ After("seal") = Rest("fill") /\ After("sealed") = Rest("fill")
  /\ After("fill") = Rest("today") /\ After("discovered") = Rest("today")
  /\ After("today") = Rest("load") /\ After("live") = Rest("load")
  /\ After("load") = <<>>
  /\ <<Call("seal"), Call("fill"), Call("today"), Call("load")>> = Rest("seal")
<1>0. \A p \in Phases : Call(p) \in Calls
  BY CallTypes
<1>1. After("seal") = <<Call("fill"), Call("today"), Call("load")>>
  BY DEF After
<1>2. After("sealed") = <<Call("fill"), Call("today"), Call("load")>>
  BY DEF After
<1>3. After("fill") = <<Call("today"), Call("load")>>
  BY DEF After
<1>4. After("discovered") = <<Call("today"), Call("load")>>
  BY DEF After
<1>5. After("today") = <<Call("load")>>
  BY DEF After
<1>6. After("live") = <<Call("load")>>
  BY DEF After
<1>7. After("load") = <<>>
  BY DEF After
<1>8. \A p \in {"fill", "today", "load"} : p \in Phases /\ PhaseCall(p) = Call(p)
  BY CallTypes DEF Phases
<1>12. Rest("seal") = <<Call("seal"), Call("fill"), Call("today"), Call("load")>>
  <2>0. PhaseCall("seal") = Call("seal")
    BY DEF PhaseCall
  <2>1. "seal" \in Phases /\ "fill" \in Phases /\ "today" \in Phases /\ "load" \in Phases
    BY DEF Phases
  <2>3. /\ Call("seal") \in Calls /\ Call("fill") \in Calls
        /\ Call("today") \in Calls /\ Call("load") \in Calls
    BY <1>0, <2>1
  <2>4. <<Call("seal")>> \o <<Call("fill"), Call("today"), Call("load")>>
          = <<Call("seal"), Call("fill"), Call("today"), Call("load")>>
    BY <2>3, ConsThree
  <2> QED
    BY <1>1, <2>0, <2>4 DEF Rest
<1>9. Rest("fill") = <<Call("fill"), Call("today"), Call("load")>>
  <2>2. \A a, b, c \in Calls : <<a>> \o <<b, c>> = <<a, b, c>>
    BY ConsWrittenOut
  <2>3. Call("fill") \in Calls /\ Call("today") \in Calls /\ Call("load") \in Calls
    BY <1>0, <1>8
  <2>4. <<Call("fill")>> \o <<Call("today"), Call("load")>>
          = <<Call("fill"), Call("today"), Call("load")>>
    BY <2>2, <2>3
  <2> QED
    BY <1>3, <1>8, <2>4 DEF Rest
<1>10. Rest("today") = <<Call("today"), Call("load")>>
  BY <1>5, <1>8, <1>0, ConsWrittenOut DEF Rest
<1>11. Rest("load") = <<Call("load")>>
  BY <1>7, <1>8, <1>0, ConsWrittenOut DEF Rest
<1> QED
  BY <1>1, <1>2, <1>3, <1>4, <1>5, <1>6, <1>7, <1>9, <1>10, <1>11, <1>12

LEMMA PendingEmpty ==
  ASSUME NEW p \in Phases, PhaseCall(p) \in Calls, NEW f
  PROVE  Pending(p, {}, {}, {}, f) = Rest(p)
<1> DEFINE x == Rest(p)
<1>1. x \in Seq(Calls)
  BY RestType
<1> HIDE DEF x
<1>2. <<>> \o x = x
  BY <1>1, ConcatEmptySeq
<1>3. <<>> \o (<<>> \o (<<>> \o x)) = x
  BY <1>2
<1> QED
  BY <1>3 DEF Pending, Cover, FetchAndStore, x

LEMMA PendingType ==
  ASSUME NEW p \in Phases, PhaseCall(p) \in Calls, NEW W \in SUBSET Sessions,
         NEW L \in SUBSET Sessions, NEW R \in SUBSET Sessions, NEW f \in BOOLEAN
  PROVE  /\ FetchAndStore(R, f) \o Rest(p) \in Seq(Calls)
         /\ FetchAndStore(L, TRUE) \o (FetchAndStore(R, f) \o Rest(p)) \in Seq(Calls)
         /\ Pending(p, W, L, R, f) \in Seq(Calls)
         /\ Pending(p, W, L, R, f) # <<>>
<1> DEFINE x == Rest(p)
           r == FetchAndStore(R, f)
           l == FetchAndStore(L, TRUE)
           w == Cover(W)
<1>1. x \in Seq(Calls) /\ x # <<>> /\ r \in Seq(Calls) /\ l \in Seq(Calls) /\ w \in Seq(Calls)
  BY RestType, CallTypes
<1> HIDE DEF x, r, l, w
<1>2. r \o x \in Seq(Calls) /\ r \o x # <<>>
  BY <1>1, ConcatProperties, ConcatEqualIffEmpty
<1>3. l \o (r \o x) \in Seq(Calls) /\ l \o (r \o x) # <<>>
  BY <1>1, <1>2, ConcatProperties, ConcatEqualIffEmpty
<1>4. w \o (l \o (r \o x)) \in Seq(Calls) /\ w \o (l \o (r \o x)) # <<>>
  BY <1>1, <1>3, ConcatProperties, ConcatEqualIffEmpty
<1> QED
  BY <1>2, <1>3, <1>4 DEF Pending, x, r, l, w

\* A chunk that is to be covered comes first.
LEMMA PendingCover ==
  ASSUME NEW p \in Phases, PhaseCall(p) \in Calls, NEW W \in SUBSET Sessions,
         NEW L \in SUBSET Sessions, NEW R \in SUBSET Sessions, NEW f \in BOOLEAN, W # {}
  PROVE  /\ Head(Pending(p, W, L, R, f)).op = "cover"
         /\ Head(Pending(p, W, L, R, f)).days = W
         /\ <<>> \o Tail(Pending(p, W, L, R, f)) = Pending(p, {}, L, R, f)
<1> DEFINE y == FetchAndStore(L, TRUE) \o (FetchAndStore(R, f) \o Rest(p))
           e == [Call("cover") EXCEPT !.days = W]
<1>1. y \in Seq(Calls)
  BY PendingType
<1>2. e \in Calls /\ e.op = "cover" /\ e.days = W
  BY CalendarAssumption DEF Call, Calls
<1>3. Pending(p, W, L, R, f) = <<e>> \o y /\ Pending(p, {}, L, R, f) = <<>> \o y
  BY DEF Pending, Cover
<1> HIDE DEF y, e
<1>4. Head(<<e>> \o y) = e /\ Tail(<<e>> \o y) = y /\ <<>> \o y = y
  BY <1>1, <1>2, Cons, ConcatEmptySeq
<1> QED
  BY <1>2, <1>3, <1>4

\* The sets of sessions; a name of their own spares the provers the subsets.
DaySets == SUBSET Sessions

\* The days of the first call, its side, and the calls that follow when A is its
\* chunk and B are its other days.
FirstDays(calls) == Head(calls).days
FirstLeft(calls) == Head(calls).left
StartsWith(calls, call, rest) == Head(calls) = call /\ Tail(calls) = rest
Leaving(A, B, left, calls) == (Cover(A) \o FetchAndStore(B, left)) \o Tail(calls)
LeavingLeft(A, B, calls) == (Cover(A) \o FetchAndStore(B, TRUE)) \o Tail(calls)

\* Then the days to the left; a chunk of them leaves its cover and the others.
LEMMA LeftTail ==
  ASSUME NEW p \in Phases, PhaseCall(p) \in Calls,
         NEW L \in DaySets, NEW R \in DaySets, NEW f \in BOOLEAN, L # {}
  PROVE  StartsWith(Pending(p, {}, L, R, f), [Call("fetch") EXCEPT !.days = L, !.left = TRUE],
                    FetchAndStore(R, f) \o Rest(p))
<1> DEFINE y == FetchAndStore(R, f) \o Rest(p)
           e == [Call("fetch") EXCEPT !.days = L, !.left = TRUE]
<1>1. y \in Seq(Calls)
  BY PendingType DEF DaySets
<1>2. e \in Calls
  BY CalendarAssumption DEF Call, Calls, DaySets
<1>3. Pending(p, {}, L, R, f) = <<>> \o (<<e>> \o y)
  BY DEF Pending, Cover, FetchAndStore
<1> HIDE DEF y, e
<1>4. <<e>> \o y \in Seq(Calls) /\ Head(<<e>> \o y) = e /\ Tail(<<e>> \o y) = y
  BY <1>1, <1>2, Cons
<1>5. <<>> \o (<<e>> \o y) = <<e>> \o y
  BY <1>4, ConcatEmptySeq
<1> QED
  BY <1>3, <1>4, <1>5 DEF y, e, StartsWith

LEMMA PendingLeft ==
  ASSUME NEW p \in Phases, PhaseCall(p) \in Calls,
         NEW L \in DaySets, NEW R \in DaySets, NEW f \in BOOLEAN, L # {}
  PROVE  /\ Head(Pending(p, {}, L, R, f)).op = "fetch"
         /\ FirstDays(Pending(p, {}, L, R, f)) = L
         /\ FirstLeft(Pending(p, {}, L, R, f)) = TRUE
<1>1. StartsWith(Pending(p, {}, L, R, f), [Call("fetch") EXCEPT !.days = L, !.left = TRUE],
                 FetchAndStore(R, f) \o Rest(p))
  BY LeftTail
<1>2. Head(Pending(p, {}, L, R, f)) = [Call("fetch") EXCEPT !.days = L, !.left = TRUE]
  BY <1>1 DEF StartsWith
<1> QED
  BY <1>2 DEF FirstDays, FirstLeft, Call

LEMMA LeftLeaves ==
  ASSUME NEW p \in Phases, PhaseCall(p) \in Calls,
         NEW L \in DaySets, NEW R \in DaySets, NEW f \in BOOLEAN, L # {},
         NEW A \in DaySets, NEW B \in DaySets
  PROVE  LeavingLeft(A, B, Pending(p, {}, L, R, f)) = Pending(p, A, B, R, f)
<1> DEFINE y == FetchAndStore(R, f) \o Rest(p)
           a == Cover(A)
           b == FetchAndStore(B, TRUE)
<1>1. y \in Seq(Calls)
  BY PendingType DEF DaySets
<1>2. a \in Seq(Calls) /\ b \in Seq(Calls)
  BY CallTypes DEF DaySets
<1>3. Pending(p, A, B, R, f) = a \o (b \o y)
  BY DEF Pending
<1>4. Tail(Pending(p, {}, L, R, f)) = y
  <2>1. StartsWith(Pending(p, {}, L, R, f), [Call("fetch") EXCEPT !.days = L, !.left = TRUE],
                   FetchAndStore(R, f) \o Rest(p))
    BY LeftTail
  <2> QED
    BY <2>1 DEF StartsWith
<1>5. LeavingLeft(A, B, Pending(p, {}, L, R, f)) = (a \o b) \o y
  BY <1>4 DEF LeavingLeft
<1> HIDE DEF y, a, b
<1>6. (a \o b) \o y = a \o (b \o y)
  BY <1>1, <1>2, ConcatAssociative
<1> QED
  BY <1>3, <1>5, <1>6

\* Then the days to the right.
LEMMA PendingRight ==
  ASSUME NEW p \in Phases, PhaseCall(p) \in Calls,
         NEW R \in SUBSET Sessions, NEW f \in BOOLEAN, R # {}
  PROVE  /\ Head(Pending(p, {}, {}, R, f)).op = "fetch"
         /\ FirstDays(Pending(p, {}, {}, R, f)) = R
         /\ FirstLeft(Pending(p, {}, {}, R, f)) = f
         /\ \A A, B \in SUBSET Sessions :
               Leaving(A, B, f, Pending(p, {}, {}, R, f)) = Pending(p, A, {}, B, f)
<1> DEFINE y == Rest(p)
           e == [Call("fetch") EXCEPT !.days = R, !.left = f]
<1>1. y \in Seq(Calls)
  BY RestType
<1>2. e \in Calls /\ e.op = "fetch" /\ e.days = R /\ e.left = f
  BY CalendarAssumption DEF Call, Calls
<1>3. /\ Pending(p, {}, {}, R, f) = <<>> \o (<<>> \o (<<e>> \o y))
      /\ \A A, B : Pending(p, A, {}, B, f) = Cover(A) \o (<<>> \o (FetchAndStore(B, f) \o y))
  BY DEF Pending, Cover, FetchAndStore
<1> HIDE DEF y, e
<1>4. <<e>> \o y \in Seq(Calls) /\ Head(<<e>> \o y) = e /\ Tail(<<e>> \o y) = y
  BY <1>1, <1>2, Cons
<1>5. <<>> \o (<<>> \o (<<e>> \o y)) = <<e>> \o y
  BY <1>4, ConcatEmptySeq
<1>6. Head(Pending(p, {}, {}, R, f)) = e /\ Tail(Pending(p, {}, {}, R, f)) = y
  BY <1>3, <1>4, <1>5
<1>7. ASSUME NEW A \in SUBSET Sessions, NEW B \in SUBSET Sessions
      PROVE  (Cover(A) \o FetchAndStore(B, f)) \o y = Pending(p, A, {}, B, f)
  <2> DEFINE a == Cover(A)
             b == FetchAndStore(B, f)
  <2>1. a \in Seq(Calls) /\ b \in Seq(Calls)
    BY CallTypes
  <2>2. Pending(p, A, {}, B, f) = a \o (<<>> \o (b \o y))
    BY <1>3
  <2> HIDE DEF a, b
  <2>3. b \o y \in Seq(Calls) /\ (a \o b) \o y = a \o (b \o y)
    <3>1. b \o y \in Seq(Calls)
      BY <1>1, <2>1, ConcatProperties
    <3>2. (a \o b) \o y = a \o (b \o y)
      BY <1>1, <2>1, ConcatAssociative
    <3> QED
      BY <3>1, <3>2
  <2>4. <<>> \o (b \o y) = b \o y
    BY <2>3, ConcatEmptySeq
  <2> QED
    BY <2>2, <2>3, <2>4 DEF a, b
<1>8. \A A, B \in SUBSET Sessions :
        Leaving(A, B, f, Pending(p, {}, {}, R, f)) = Pending(p, A, {}, B, f)
  BY <1>6, <1>7 DEF Leaving
<1>9. /\ FirstDays(Pending(p, {}, {}, R, f)) = R
      /\ FirstLeft(Pending(p, {}, {}, R, f)) = f
      /\ Head(Pending(p, {}, {}, R, f)).op = "fetch"
  BY <1>2, <1>6 DEF FirstDays, FirstLeft
<1> QED
  BY <1>8, <1>9

\* Then the step of the phase.
LEMMA PendingRest ==
  ASSUME NEW p \in Phases, PhaseCall(p) \in Calls, NEW f
  PROVE  /\ Head(Pending(p, {}, {}, {}, f)) = PhaseCall(p)
         /\ Head(Pending(p, {}, {}, {}, f)).op = p
         /\ Tail(Pending(p, {}, {}, {}, f)) = After(p)
         /\ <<>> \o Tail(Pending(p, {}, {}, {}, f)) = After(p)
<1>1. After(p) \in Seq(Calls) /\ Head(Rest(p)) = PhaseCall(p) /\ Tail(Rest(p)) = After(p)
  BY RestType
<1>2. PhaseCall(p).op = p
  BY CallTypes DEF PhaseCall, Call
<1>3. <<>> \o After(p) = After(p)
  BY <1>1, ConcatEmptySeq
<1> QED
  BY <1>1, <1>2, <1>3, PendingEmpty

\* The call at the head tells where the request is.
LEMMA PendingHead ==
  ASSUME NEW p \in Phases, PhaseCall(p) \in Calls, NEW W \in SUBSET Sessions,
         NEW L \in SUBSET Sessions, NEW R \in SUBSET Sessions, NEW f \in BOOLEAN
  PROVE  /\ Head(Pending(p, W, L, R, f)).op = "cover" => W # {}
         /\ Head(Pending(p, W, L, R, f)).op = "fetch" => W = {} /\ (L # {} \/ R # {})
         /\ Head(Pending(p, W, L, R, f)).op \in Phases =>
               W = {} /\ L = {} /\ R = {} /\ Head(Pending(p, W, L, R, f)).op = p
<1>1. "cover" \notin Phases /\ "fetch" \notin Phases
  BY DEF Phases
<1>2. CASE W # {}
  <2>1. Head(Pending(p, W, L, R, f)).op = "cover"
    BY <1>2, PendingCover DEF Phases
  <2> QED
    BY <1>1, <1>2, <2>1
<1>3. CASE W = {} /\ L # {}
  <2>1. L \in DaySets /\ R \in DaySets
    BY DEF DaySets
  <2>2. Head(Pending(p, {}, L, R, f)).op = "fetch"
    BY <1>3, <2>1, PendingLeft DEF Phases
  <2> QED
    BY <1>1, <1>3, <2>2
<1>4. CASE W = {} /\ L = {} /\ R # {}
  <2>1. Head(Pending(p, {}, {}, R, f)).op = "fetch"
    BY <1>4, PendingRight
  <2> QED
    BY <1>1, <1>4, <2>1
<1>5. CASE W = {} /\ L = {} /\ R = {}
  <2>1. Head(Pending(p, {}, {}, {}, f)).op = p
    BY PendingRest
  <2> QED
    BY <1>1, <1>5, <2>1
<1> QED
  BY <1>2, <1>3, <1>4, <1>5

\* What a sequence holds it still holds when another is put before or after it.
LEMMA ConcatHolds ==
  ASSUME NEW S, NEW s \in Seq(S), NEW t \in Seq(S)
  PROVE  /\ \A i \in DOMAIN s : \E j \in DOMAIN (s \o t) : (s \o t)[j] = s[i]
         /\ \A i \in DOMAIN t : \E j \in DOMAIN (s \o t) : (s \o t)[j] = t[i]
<1> DEFINE y == s \o t
<1>1. /\ y \in Seq(S)
      /\ Len(y) = Len(s) + Len(t)
      /\ \A i \in 1 .. Len(s) + Len(t) : y[i] = IF i <= Len(s) THEN s[i] ELSE t[i - Len(s)]
  BY ConcatProperties
<1> HIDE DEF y
<1>2. /\ Len(s) \in Nat /\ DOMAIN s = 1 .. Len(s)
      /\ Len(t) \in Nat /\ DOMAIN t = 1 .. Len(t)
      /\ DOMAIN y = 1 .. Len(y)
  BY <1>1, LenProperties
<1>3. ASSUME NEW i \in DOMAIN s PROVE \E j \in DOMAIN y : y[j] = s[i]
  <2>1. i \in DOMAIN y /\ y[i] = s[i]
    BY <1>1, <1>2
  <2> QED
    BY <2>1
<1>4. ASSUME NEW i \in DOMAIN t PROVE \E j \in DOMAIN y : y[j] = t[i]
  <2>1. /\ i + Len(s) \in 1 .. Len(s) + Len(t)
        /\ ~(i + Len(s) <= Len(s))
        /\ (i + Len(s)) - Len(s) = i
    BY <1>2
  <2>2. y[i + Len(s)] = t[i]
    BY <1>1, <2>1
  <2>3. i + Len(s) \in DOMAIN y
    BY <1>1, <1>2, <2>1
  <2> QED
    BY <2>2, <2>3
<1> QED
  BY <1>3, <1>4 DEF y

ToFetch(calls) == UNION {calls[i].days : i \in {j \in DOMAIN calls : calls[j].op = "fetch"}}

Fetches(calls, D) == \E i \in DOMAIN calls : calls[i].op = "fetch" /\ calls[i].days = D

LEMMA FetchesStay ==
  ASSUME NEW s \in Seq(Calls), NEW t \in Seq(Calls), NEW D, Fetches(s, D) \/ Fetches(t, D)
  PROVE  Fetches(s \o t, D)
<1> DEFINE y == s \o t
<1>1. /\ \A i \in DOMAIN s : \E j \in DOMAIN y : y[j] = s[i]
      /\ \A i \in DOMAIN t : \E j \in DOMAIN y : y[j] = t[i]
  BY ConcatHolds
<1> HIDE DEF y
<1>2. Fetches(y, D)
  BY <1>1 DEF Fetches
<1> QED
  BY <1>2 DEF y

\* The days that are still to be fetched are all of the calls that are left.
LEMMA PendingFetches ==
  ASSUME NEW p \in Phases, PhaseCall(p) \in Calls, NEW W \in SUBSET Sessions,
         NEW L \in SUBSET Sessions, NEW R \in SUBSET Sessions, NEW f \in BOOLEAN
  PROVE  L \cup R \subseteq ToFetch(Pending(p, W, L, R, f))
<1> DEFINE x == Rest(p)
           r == FetchAndStore(R, f)
           l == FetchAndStore(L, TRUE)
           w == Cover(W)
<1>1. x \in Seq(Calls) /\ r \in Seq(Calls) /\ l \in Seq(Calls) /\ w \in Seq(Calls)
  BY RestType, CallTypes
<1>2. r \o x \in Seq(Calls) /\ l \o (r \o x) \in Seq(Calls)
  BY PendingType
<1>3. R # {} => Fetches(r, R)
  <2>1. ASSUME R # {} PROVE Fetches(r, R)
    <3> DEFINE e == [Call("fetch") EXCEPT !.days = R, !.left = f]
    <3>1. r = <<e>> /\ e.op = "fetch" /\ e.days = R
      BY <2>1 DEF FetchAndStore, Call
    <3> HIDE DEF e
    <3>2. 1 \in DOMAIN <<e>> /\ <<e>>[1] = e
      OBVIOUS
    <3>3. Fetches(<<e>>, R)
      BY <3>1, <3>2 DEF Fetches
    <3> QED
      BY <3>1, <3>3
  <2> QED
    BY <2>1
<1>4. L # {} => Fetches(l, L)
  <2>1. ASSUME L # {} PROVE Fetches(l, L)
    <3> DEFINE e == [Call("fetch") EXCEPT !.days = L, !.left = TRUE]
    <3>1. l = <<e>> /\ e.op = "fetch" /\ e.days = L
      BY <2>1 DEF FetchAndStore, Call
    <3> HIDE DEF e
    <3>2. 1 \in DOMAIN <<e>> /\ <<e>>[1] = e
      OBVIOUS
    <3>3. Fetches(<<e>>, L)
      BY <3>1, <3>2 DEF Fetches
    <3> QED
      BY <3>1, <3>3
  <2> QED
    BY <2>1
<1> HIDE DEF x, r, l, w
<1>5. R # {} => Fetches(r \o x, R)
  BY <1>1, <1>3, FetchesStay
<1>6. R # {} => Fetches(l \o (r \o x), R)
  BY <1>1, <1>2, <1>5, FetchesStay
<1>7. L # {} => Fetches(l \o (r \o x), L)
  BY <1>1, <1>2, <1>4, FetchesStay
<1> DEFINE y == w \o (l \o (r \o x))
<1>8. (R # {} => Fetches(y, R)) /\ (L # {} => Fetches(y, L))
  BY <1>1, <1>2, <1>6, <1>7, FetchesStay
<1>9. Pending(p, W, L, R, f) = y
  BY DEF Pending, x, r, l, w
<1> HIDE DEF y
<1>10. (R # {} => R \subseteq ToFetch(y)) /\ (L # {} => L \subseteq ToFetch(y))
  BY <1>8 DEF ToFetch, Fetches
<1> QED
  BY <1>9, <1>10

-------------------------------------------------------------------------------
(* The invariant.                                                          *)

InHand == DOMAIN chunk

Stored(d) == store[d] # "none"

\* The day the row may speak of: a request does not see the calendar move on.
Now == IF todo = <<>> THEN clock ELSE req.today

Types ==
  /\ clock \in Days /\ \E s \in Sessions : s < clock
  /\ tape \in Tapes
  /\ store \in [Days -> Blobs \cup {"none"}]
  /\ chunk \in [InHand -> Blobs] /\ InHand \subseteq Sessions
  /\ aborts \in 0 .. MaxAborts
  /\ torn \in BOOLEAN

\* The ends of the range are set together, the first is stored, no session
\* lies between the last and the first, and the live day follows the last.
RowOK ==
  /\ LET day == Days \cup {Unset} IN row \in [first : day, last : day, live : day]
  /\ row.first = Unset <=> row.last = Unset
  /\ row.first # Unset => row.first \in Sessions /\ Stored(row.first)
  /\ row.first <= Now /\ row.last <= Now /\ row.live <= Now
  /\ row.first # Unset => \A s \in Sessions : ~(row.last < s /\ s < row.first)
  /\ row.live # Unset =>
       /\ row.first # Unset /\ row.live \in Sessions /\ Stored(row.live)
       /\ row.first <= row.live /\ row.last <= row.live
       /\ \A s \in Sessions : s < row.live => s <= row.last

ReqOK ==
  /\ req \in [from : Days \cup {Unset}, to : Days, today : Days]
  /\ req.today <= clock
  /\ \E s \in Sessions : s < req.today

\* What each phase fetches, and what of the chunk is stored already.
Form(p, W, L, R, f) ==
  /\ p \notin {"sealed", "today", "live"} => W = {} /\ R = {}
  /\ p # "today" => L = {} /\ ~f
  /\ p # "discovered" => InHand \subseteq W /\ \A s \in W : Stored(s) \/ s \in InHand
  /\ p = "discovered" =>
       /\ row.first = Unset
       /\ Discoverable # {}
       /\ InHand \subseteq DiscoverDays
       /\ \A s \in DiscoverDays : Stored(s) \/ s \in InHand
  /\ p = "sealed" =>
       /\ row.live # Unset /\ row.live < req.today
       /\ W \subseteq {row.live} /\ R \subseteq {row.live}
  /\ p \notin {"seal", "sealed"} => row.live \in {Unset, req.today}
  /\ p = "live" =>
       /\ WantsToday
       /\ W \subseteq {req.today} /\ R \subseteq {req.today}
       /\ W = {} \/ R = {}
       /\ W = {} /\ R = {} => row.last = req.today /\ Stored(req.today)

\* Where the days lie that fill_closed has still to write or to fetch.
Ranges(p, W, L, R, f) ==
  p = "today" =>
    /\ \A s \in W \cup L \cup R : s <= ClosedTo
    /\ \A s \in W : \A e \in L \cup R : s < e
    /\ \A s \in L : \A e \in R : s < e
    /\ f => L = {} /\ row.first <= row.last
    /\ row.first = Unset => L = {} /\ (f \/ W \cup R = {})
    /\ row.first # Unset => \A s \in R : row.last < s
    /\ row.first = Unset => \A e \in W \cup R : SessionDays(e, ClosedTo) \subseteq W \cup R
    /\ ~torn /\ row.first # Unset =>
         \A e \in W \cup L : \A s \in Sessions : e <= s /\ s < row.first => s \in W \cup L

\* An untorn range has no hole, but for days that are under way; nor has the
\* closed part of the request, from fill_closed on.
Whole(p, W, L, R) ==
  /\ \A s \in Covered : Stored(s) \/ s \in InHand \cup L \cup R
  /\ p \in {"today", "live", "load"} =>
       /\ row.first # Unset =>
            \A s \in Sessions : row.last < s /\ s <= ClosedTo => p = "today" /\ s \in W \cup R
       /\ req.from = Unset /\ row.first = Unset => Discoverable = {}
       /\ req.from # Unset =>
            \A d \in tape : req.from <= d /\ d <= ClosedTo =>
               Stored(d) \/ d \in InHand \cup L \cup R

\* As long as no request was dropped, what is stored is final but for the live
\* day, and it is covered or about to be.
Uncut(p, W, L, R) ==
  /\ \A d \in Days : \/ store[d] \in {"none", FinalBlob(d)}
                     \/ d = row.live \/ (p = "live" /\ d = req.today)
  /\ \A d \in InHand : chunk[d] = FinalBlob(d) \/ (p = "live" /\ d = req.today)
  /\ p # "live" => row.last < req.today
  /\ \A d \in Days : Stored(d) =>
        d \in Covered \/ d = row.live \/ d \in W \/ (p = "discovered" /\ d \in DiscoverDays)
  /\ p = "sealed" => row.live \in R \/ row.live \in InHand \/ store[row.live] = FinalBlob(row.live)
  /\ p = "today" => \A s \in L \cup R : ~Stored(s)

Under(p, W, L, R, f) ==
  /\ todo = Pending(p, W, L, R, f)
  /\ Form(p, W, L, R, f)
  /\ Ranges(p, W, L, R, f)
  /\ ~torn => Whole(p, W, L, R)
  /\ aborts = 0 => Uncut(p, W, L, R)

Busy ==
  /\ ReqOK
  /\ \E p \in Phases, W \in SUBSET Sessions, L \in SUBSET Sessions, R \in SUBSET Sessions,
        f \in BOOLEAN : Under(p, W, L, R, f)

Idle ==
  /\ req = NoRequest
  /\ InHand = {}
  /\ ~torn => CoveredIsStored
  /\ aborts = 0 =>
       /\ \A d \in Days : store[d] \in {"none", FinalBlob(d)} \/ d = row.live
       /\ row.last < clock
       /\ \A d \in Days : Stored(d) => d \in Covered \/ d = row.live

IInv == Types /\ RowOK /\ (todo = <<>> => Idle) /\ (todo # <<>> => Busy)

-------------------------------------------------------------------------------
(* Facts that hold in every state.                                         *)

LEMMA DayTypes ==
  /\ \A s \in Sessions : s \in Days
  /\ \A d \in Days : d \in Int /\ d >= 1 /\ d # Unset
  /\ Unset \in Int /\ Unset = 0
  /\ \A t \in Tapes : t \subseteq Sessions
BY CalendarAssumption DEF Days, Unset

\* The closed part of a request ends at a closed session or before.
LEMMA ClosedFacts ==
  ASSUME Types, ReqOK
  PROVE  /\ ClosedTo \in Days
         /\ ClosedTo <= req.to /\ ClosedTo <= PrevSession(req.today)
         /\ ClosedTo < req.today /\ req.today <= clock
         /\ req.to >= req.today => ClosedTo = PrevSession(req.today)
         /\ PrevSession(req.today) \in Sessions
         /\ PrevSession(req.today) < req.today
         /\ \A s \in Sessions : s < req.today => s <= PrevSession(req.today)
<1> DEFINE q == PrevSession(req.today)
<1>1. req.today \in Days /\ req.to \in Days /\ req.today <= clock
  BY DEF ReqOK
<1>2. q \in Sessions /\ q < req.today /\ \A s \in Sessions : s < req.today => s <= q
  BY <1>1, SessionBefore DEF ReqOK
<1> HIDE DEF q
<1>3. {q, req.to} \in SUBSET (Days \cup {Unset}) /\ {q, req.to} # {}
  BY <1>1, <1>2, DayTypes
<1>4. Min({q, req.to}) \in {q, req.to} /\ \A y \in {q, req.to} : Min({q, req.to}) <= y
  BY <1>3, LeastDay
<1>5. ClosedTo = Min({q, req.to})
  BY DEF ClosedTo, q
<1>6. q \in Int /\ req.to \in Int /\ req.today \in Int /\ clock \in Int
  BY <1>1, <1>2, DayTypes DEF Types
<1>7. /\ ClosedTo \in {q, req.to} /\ ClosedTo <= q /\ ClosedTo <= req.to
  BY <1>4, <1>5
<1>8. ClosedTo \in Days
  BY <1>1, <1>2, <1>7, DayTypes
<1>9. req.to >= req.today => ClosedTo = q
  BY <1>2, <1>6, <1>7
<1>10. ClosedTo < req.today
  BY <1>2, <1>6, <1>7
<1> QED
  BY <1>1, <1>2, <1>7, <1>8, <1>9, <1>10 DEF q

\* The days of a discovery.
LEMMA DiscoverFacts ==
  ASSUME Types, ReqOK, Discoverable # {}
  PROVE  /\ Min(Discoverable) \in tape /\ Min(Discoverable) \in Sessions
         /\ Min(Discoverable) <= ClosedTo
         /\ \A d \in tape : d <= ClosedTo => Min(Discoverable) <= d
         /\ Min(Discoverable) \in DiscoverDays
         /\ DiscoverDays \subseteq Sessions
         /\ \A s \in Sessions : s \in DiscoverDays
                                  <=> Min(Discoverable) <= s /\ s <= ClosedTo
<1>1. Discoverable \in SUBSET (Days \cup {Unset})
  BY DayTypes DEF Types, Discoverable
<1>2. Min(Discoverable) \in Discoverable /\ \A y \in Discoverable : Min(Discoverable) <= y
  BY <1>1, LeastDay
<1>3. /\ Min(Discoverable) \in tape /\ Min(Discoverable) \in Sessions
      /\ Min(Discoverable) <= ClosedTo
  BY <1>2, DayTypes DEF Types, Discoverable
<1>4. Min(Discoverable) <= Min(Discoverable)
  BY <1>3, DayTypes
<1>5. \A d \in tape : d <= ClosedTo => Min(Discoverable) <= d
  BY <1>2 DEF Discoverable
<1> QED
  BY <1>3, <1>4, <1>5 DEF DiscoverDays, SessionDays

\* The step of a phase is a call.
LEMMA PhaseType ==
  ASSUME Types, ReqOK, NEW p \in Phases, p = "discovered" => Discoverable # {}
  PROVE  PhaseCall(p) \in Calls
<1>1. CASE p = "discovered"
  <2>1. Min(Discoverable) \in Days /\ ClosedTo \in Days
    BY <1>1, ClosedFacts, DiscoverFacts, DayTypes
  <2>2. [Call(p) EXCEPT !.days = {Min(Discoverable), ClosedTo}] \in Calls
    <3> DEFINE D == {Min(Discoverable), ClosedTo}
    <3>1. D \subseteq Days
      BY <2>1
    <3> HIDE DEF D
    <3>2. [Call(p) EXCEPT !.days = D] \in Calls
      BY <1>1, <3>1 DEF Call, Calls
    <3> QED
      BY <3>2 DEF D
  <2> QED
    BY <1>1, <2>2 DEF PhaseCall
<1>2. CASE p # "discovered"
  BY <1>2, CallTypes
<1> QED
  BY <1>1, <1>2

\* The form of the calls depends on the request and the tape alone.
LEMMA PendingSame ==
  ASSUME tape' = tape, req' = req, NEW p, NEW W, NEW L, NEW R, NEW f
  PROVE  /\ Pending(p, W, L, R, f)' = Pending(p, W, L, R, f)
         /\ ClosedTo' = ClosedTo /\ Discoverable' = Discoverable /\ DiscoverDays' = DiscoverDays
         /\ WantsToday' = WantsToday /\ PrevSession(req.today)' = PrevSession(req.today)
         /\ \A d : FinalBlob(d)' = FinalBlob(d)
<1>1. PrevSession(req.today)' = PrevSession(req.today)
  BY DEF PrevSession
<1>2. ClosedTo' = ClosedTo
  BY <1>1 DEF ClosedTo
<1>3. Discoverable' = Discoverable
  BY <1>2 DEF Discoverable
<1>4. DiscoverDays' = DiscoverDays
  BY <1>2, <1>3 DEF DiscoverDays, SessionDays
<1>5. PhaseCall(p)' = PhaseCall(p)
  BY <1>2, <1>3 DEF PhaseCall
<1>6. Rest(p)' = Rest(p)
  BY <1>5 DEF Rest, After
<1>7. Pending(p, W, L, R, f)' = Pending(p, W, L, R, f)
  BY <1>6 DEF Pending
<1>8. WantsToday' = WantsToday
  BY DEF WantsToday, IsSession
<1>9. \A d : FinalBlob(d)' = FinalBlob(d)
  BY DEF FinalBlob
<1> QED
  BY <1>1, <1>2, <1>3, <1>4, <1>7, <1>8, <1>9

\* The row stays right when it stays, the store loses nothing and time goes on.
LEMMA RowStays ==
  ASSUME RowOK, row' = row, \A d \in Days : Stored(d) => Stored(d)', Now \in Int, Now' \in Int,
         Now <= Now'
  PROVE  RowOK'
<1>1. row.first \in Int /\ row.last \in Int /\ row.live \in Int
  BY DayTypes DEF RowOK
<1>2. row'.first <= Now' /\ row'.last <= Now' /\ row'.live <= Now'
  BY <1>1 DEF RowOK
<1> QED
  BY <1>2, DayTypes DEF RowOK

LEMMA ChunkType ==
  ASSUME Types
  PROVE  chunk = NoBlobs <=> InHand = {}
BY DEF Types, InHand, NoBlobs

-------------------------------------------------------------------------------
(* The invariant holds initially and every step keeps it.                  *)

LEMMA InitHolds ==
  ASSUME Init
  PROVE  IInv
<1>1. InHand = {} /\ chunk \in [InHand -> Blobs]
  BY DEF Init, InHand, NoBlobs
<1>2. Types
  <2>1. clock \in Days /\ \E s \in Sessions : s < clock
    BY DEF Init
  <2>2. store \in [Days -> Blobs \cup {"none"}]
    BY DEF Init
  <2>3. aborts \in 0 .. MaxAborts
    BY CalendarAssumption DEF Init
  <2>4. torn \in BOOLEAN /\ tape \in Tapes
    BY DEF Init
  <2> QED
    BY <1>1, <2>1, <2>2, <2>3, <2>4 DEF Types
<1>3. clock \in Int /\ clock >= 1
  BY <1>2, DayTypes DEF Types
<1>4. RowOK
  BY <1>3, DayTypes DEF Init, RowOK, Now
<1>5. Idle
  BY <1>1, <1>3, DayTypes DEF Init, Idle, CoveredIsStored, Covered, Stored
<1> QED
  BY <1>2, <1>4, <1>5 DEF Init, IInv

LEMMA TickStep ==
  ASSUME IInv, Tick
  PROVE  IInv'
<1>1. /\ clock' = clock + 1 /\ clock < LastDay
      /\ UNCHANGED <<tape, store, row, req, todo, chunk, aborts, torn>>
  BY DEF Tick
<1>2. clock \in Days /\ clock' \in Days /\ clock \in Int /\ clock' \in Int /\ clock < clock'
  BY <1>1, CalendarAssumption DEF IInv, Types, Days
<1>3. Types'
  <2>1. \E s \in Sessions : s < clock'
    <3>1. PICK s \in Sessions : s < clock
      BY DEF IInv, Types
    <3>2. s \in Int
      BY DayTypes
    <3>3. s < clock'
      BY <1>2, <3>1, <3>2
    <3> QED
      BY <3>3
  <2> QED
    BY <1>1, <1>2, <2>1 DEF IInv, Types, InHand
<1>4. RowOK'
  <2>1. todo # <<>> => req.today \in Int
    BY DayTypes DEF IInv, Busy, ReqOK
  <2>2. Now \in Int /\ Now' \in Int /\ Now <= Now'
    BY <1>1, <1>2, <2>1 DEF Now
  <2> QED
    BY <1>1, <2>2, RowStays DEF IInv, Stored
<1>5. ASSUME todo' = <<>> PROVE Idle'
  <2>1. Idle
    BY <1>1, <1>5 DEF IInv
  <2>2. Covered' = Covered /\ InHand' = InHand
    BY <1>1 DEF Covered, InHand
  <2>3. row.last \in Int
    BY DayTypes DEF IInv, RowOK
  <2>4. \A d : FinalBlob(d)' = FinalBlob(d)
    BY <1>1 DEF FinalBlob
  <2> QED
    BY <1>1, <1>2, <2>1, <2>2, <2>3, <2>4 DEF Idle, CoveredIsStored, Stored
<1>6. ASSUME todo' # <<>> PROVE Busy'
  <2>1. ReqOK /\ ReqOK'
    <3>1. ReqOK
      BY <1>1, <1>6 DEF IInv, Busy
    <3>2. req.today \in Int /\ req.today <= clock
      BY <3>1, DayTypes DEF ReqOK
    <3>3. req.today <= clock'
      BY <1>2, <3>2
    <3> QED
      BY <1>1, <3>1, <3>3 DEF ReqOK
  <2>2. PICK p \in Phases, W \in SUBSET Sessions, L \in SUBSET Sessions, R \in SUBSET Sessions,
             f \in BOOLEAN : Under(p, W, L, R, f)
    BY <1>1, <1>6 DEF IInv, Busy
  <2>3. Under(p, W, L, R, f)'
    <3>1. Covered' = Covered /\ InHand' = InHand
      BY <1>1 DEF Covered, InHand
    <3>2. Form(p, W, L, R, f)'
      BY <1>1, <2>2, <3>1, PendingSame DEF Under, Form, Stored
    <3>3. Ranges(p, W, L, R, f)'
      BY <1>1, <2>2, <3>1, PendingSame DEF Under, Ranges
    <3>4. ~torn' => Whole(p, W, L, R)'
      BY <1>1, <2>2, <3>1, PendingSame DEF Under, Whole, Stored
    <3>5. aborts' = 0 => Uncut(p, W, L, R)'
      BY <1>1, <2>2, <3>1, PendingSame DEF Under, Uncut, Stored
    <3>6. todo' = Pending(p, W, L, R, f)'
      BY <1>1, <2>2, PendingSame DEF Under
    <3> QED
      BY <3>2, <3>3, <3>4, <3>5, <3>6 DEF Under
  <2> QED
    BY <2>1, <2>3 DEF Busy
<1> QED
  BY <1>3, <1>4, <1>5, <1>6 DEF IInv

\* The rest of a request that was dropped is gone; the range may be torn.
LEMMA AbortStep ==
  ASSUME IInv, Abort
  PROVE  IInv'
<1>1. /\ todo # <<>> /\ aborts < MaxAborts /\ aborts' = aborts + 1
      /\ todo' = <<>> /\ chunk' = NoBlobs
      /\ UNCHANGED <<clock, tape, store, row>>
  BY DEF Abort
<1>2. InHand' = {}
  BY <1>1 DEF InHand, NoBlobs
<1>3. ReqOK
  BY <1>1 DEF IInv, Busy
<1>4. PICK p \in Phases, W \in SUBSET Sessions, L \in SUBSET Sessions, R \in SUBSET Sessions,
           f \in BOOLEAN : Under(p, W, L, R, f)
  BY <1>1 DEF IInv, Busy
<1>5. PhaseCall(p) \in Calls
  BY <1>3, <1>4, PhaseType DEF IInv, Under, Form
<1>6. torn' \in BOOLEAN /\ (~torn' => ~torn /\ ~CutInside)
  BY DEF Abort, IInv, Types
<1>7. Types'
  <2>1. chunk' \in [InHand' -> Blobs]
    BY <1>1, <1>2 DEF NoBlobs
  <2>2. aborts' \in 0 .. MaxAborts
    BY <1>1, CalendarAssumption DEF IInv, Types
  <2> QED
    BY <1>1, <1>2, <1>6, <2>1, <2>2 DEF IInv, Types
<1>8. RowOK'
  <2>1. Now = req.today /\ Now' = clock
    BY <1>1 DEF Now
  <2>2. Now \in Int /\ Now' \in Int /\ Now <= Now'
    BY <1>1, <1>3, <2>1, DayTypes DEF ReqOK, IInv, Types
  <2> QED
    BY <1>1, <2>2, RowStays DEF IInv, Stored
<1>9. Idle'
  <2>1. aborts' # 0
    BY <1>1, CalendarAssumption DEF IInv, Types
  <2>2. Covered' = Covered
    BY <1>1 DEF Covered
  <2>3. ASSUME ~torn', NEW d \in Covered PROVE Stored(d)
    <3>1. Stored(d) \/ d \in InHand \cup L \cup R
      BY <1>4, <1>6, <2>3 DEF Under, Whole
    <3>2. ASSUME d \in InHand \cup L \cup R PROVE Stored(d)
      <4>1. L \cup R \subseteq ToFetch(todo)
        BY <1>4, <1>5, PendingFetches DEF Under
      <4>2. ~(row.first < d /\ d <= row.last)
        BY <1>6, <2>3, <3>2, <4>1 DEF CutInside, ToFetch, InHand
      <4>3. row.first # Unset /\ row.first <= d /\ d <= row.last
        BY DEF Covered, SessionDays
      <4>4. row.first \in Int /\ row.last \in Int /\ d \in Int
        BY DayTypes DEF Covered, SessionDays, IInv, RowOK
      <4>5. d = row.first
        BY <4>2, <4>3, <4>4
      <4> QED
        BY <4>3, <4>5 DEF IInv, RowOK
    <3> QED
      BY <3>1, <3>2
  <2>4. req' = NoRequest
    BY DEF Abort
  <2> QED
    BY <1>1, <1>2, <2>1, <2>2, <2>3, <2>4 DEF Idle, CoveredIsStored, Stored
<1> QED
  BY <1>1, <1>7, <1>8, <1>9 DEF IInv

\* What holds when the step of a phase is next.
LEMMA AtPhase ==
  ASSUME IInv, NEW q \in Phases, Doing(q)
  PROVE  /\ Types /\ ReqOK /\ RowOK /\ InHand = {} /\ todo # <<>>
         /\ PhaseCall(q) \in Calls /\ Head(todo) = PhaseCall(q)
         /\ \A calls \in Seq(Calls) : calls \o Tail(todo) = calls \o After(q)
         /\ <<>> \o Tail(todo) = After(q)
         /\ \E f \in BOOLEAN : Under(q, {}, {}, {}, f)
<1>1. todo # <<>> /\ chunk = NoBlobs /\ Head(todo).op = q
  BY DEF Doing
<1>2. Types /\ ReqOK /\ RowOK
  BY <1>1 DEF IInv, Busy
<1>3. InHand = {}
  BY <1>1, <1>2, ChunkType
<1>4. PICK p \in Phases, W \in SUBSET Sessions, L \in SUBSET Sessions, R \in SUBSET Sessions,
           f \in BOOLEAN : Under(p, W, L, R, f)
  BY <1>1 DEF IInv, Busy
<1>5. PhaseCall(p) \in Calls /\ todo = Pending(p, W, L, R, f)
  BY <1>2, <1>4, PhaseType DEF Under, Form
<1>6. W = {} /\ L = {} /\ R = {} /\ p = q
  BY <1>1, <1>5, PendingHead
<1>7. todo = Pending(q, {}, {}, {}, f) /\ PhaseCall(q) \in Calls
  BY <1>5, <1>6
<1>8. Head(todo) = PhaseCall(q) /\ Tail(todo) = After(q) /\ <<>> \o Tail(todo) = After(q)
  BY <1>7, PendingRest
<1> QED
  BY <1>1, <1>2, <1>3, <1>4, <1>6, <1>7, <1>8

\* The request is in a phase with nothing to fetch.
LEMMA IntoPhase ==
  ASSUME Types, ReqOK, tape' = tape, req' = req, NEW q \in Phases, q # "discovered"
  PROVE  /\ Pending(q, {}, {}, {}, FALSE)' = Rest(q)
         /\ Rest(q) # <<>> /\ Rest(q) \in Seq(Calls)
<1>1. PhaseCall(q) \in Calls
  BY CallTypes
<1>2. Pending(q, {}, {}, {}, FALSE) = Rest(q) /\ Rest(q) # <<>> /\ Rest(q) \in Seq(Calls)
  BY <1>1, PendingEmpty, RestType
<1> QED
  BY <1>2, PendingSame

LEMMA RequestStep ==
  ASSUME IInv, NEW from \in Froms, NEW to \in 1 .. clock, Request(from, to)
  PROVE  IInv'
<1>1. /\ todo = <<>>
      /\ req' = [from |-> from, to |-> to, today |-> clock]
      /\ todo' = Rest("seal")
      /\ UNCHANGED <<clock, tape, store, row, chunk, aborts, torn>>
  BY RestSteps DEF Request
<1>2. /\ req'.from = from /\ req'.to = to /\ req'.today = clock
      /\ req' \in [from : Days \cup {Unset}, to : Days, today : Days]
  BY <1>1, CalendarAssumption DEF IInv, Types, Days, Unset
<1>3. Types /\ Idle /\ RowOK
  BY <1>1 DEF IInv
<1>4. Types'
  BY <1>1, <1>3 DEF Types, InHand
<1>5. ReqOK'
  BY <1>1, <1>2, <1>3, DayTypes DEF ReqOK, Types
<1>6. todo' # <<>>
  BY <1>1, CallTypes, RestType DEF Phases
<1>7. RowOK'
  <2>1. Now = clock /\ Now' = clock /\ clock \in Int
    BY <1>1, <1>2, <1>3, <1>6, DayTypes DEF Now, Types
  <2> QED
    BY <1>1, <1>3, <2>1, RowStays DEF Stored
<1>8. Under("seal", {}, {}, {}, FALSE)'
  <2>1. todo' = Pending("seal", {}, {}, {}, FALSE)'
    <3>1. PhaseCall("seal") \in Calls /\ PhaseCall("seal")' = PhaseCall("seal")
      BY CallTypes DEF Phases, PhaseCall
    <3>2. Rest("seal")' = Rest("seal")
      BY <3>1 DEF Rest, After
    <3>3. Pending("seal", {}, {}, {}, FALSE) = Rest("seal")
      BY <3>1, PendingEmpty DEF Phases
    <3>4. Pending("seal", {}, {}, {}, FALSE)' = Pending("seal", {}, {}, {}, FALSE)
      BY <3>2 DEF Pending
    <3> QED
      BY <1>1, <3>3, <3>4
  <2>2. Covered' = Covered /\ InHand' = InHand /\ InHand = {}
    BY <1>1, <1>3 DEF Covered, InHand, Idle
  <2>3. Form("seal", {}, {}, {}, FALSE)'
    BY <2>2 DEF Form
  <2>4. Ranges("seal", {}, {}, {}, FALSE)'
    BY DEF Ranges
  <2>5. ~torn' => Whole("seal", {}, {}, {})'
    BY <1>1, <1>3, <2>2 DEF Whole, Idle, CoveredIsStored, Stored
  <2>6. aborts' = 0 => Uncut("seal", {}, {}, {})'
    <3>1. \A d : FinalBlob(d)' = FinalBlob(d)
      BY <1>1 DEF FinalBlob
    <3> QED
      BY <1>1, <1>2, <1>3, <2>2, <3>1 DEF Uncut, Idle, Stored
  <2> QED
    BY <2>1, <2>3, <2>4, <2>5, <2>6 DEF Under
<1>9. Busy'
  BY <1>5, <1>8 DEF Busy, Phases
<1> QED
  BY <1>4, <1>6, <1>7, <1>9 DEF IInv

LEMMA LoadStep ==
  ASSUME IInv, Load
  PROVE  IInv'
<1>1. /\ Doing("load") /\ todo' = <<>> \o Tail(todo)
      /\ UNCHANGED <<clock, tape, store, row, chunk, aborts, torn>>
  BY DEF Load, Then
<1>2. /\ Types /\ ReqOK /\ RowOK /\ InHand = {} /\ todo # <<>>
      /\ <<>> \o Tail(todo) = After("load")
      /\ \E f \in BOOLEAN : Under("load", {}, {}, {}, f)
  BY <1>1, AtPhase DEF Phases
<1>3. PICK f \in BOOLEAN : Under("load", {}, {}, {}, f)
  BY <1>2
<1>4. todo' = <<>>
  BY <1>1, <1>2, RestSteps
<1>5. Types'
  BY <1>1, <1>2 DEF Types, InHand
<1>6. RowOK'
  <2>1. Now = req.today /\ Now' = clock
    BY <1>1, <1>2, <1>4 DEF Now
  <2>2. Now \in Int /\ Now' \in Int /\ Now <= Now'
    BY <1>1, <1>2, <2>1, DayTypes DEF ReqOK, Types
  <2> QED
    BY <1>1, <1>2, <2>2, RowStays DEF Stored
<1>7. Idle'
  <2>1. Covered' = Covered /\ InHand' = {}
    BY <1>1, <1>2 DEF Covered, InHand
  <2>2. ~torn' => CoveredIsStored'
    BY <1>1, <1>2, <1>3, <2>1 DEF Under, Whole, CoveredIsStored, Stored
  <2>3. ASSUME aborts' = 0
        PROVE  /\ \A d \in Days : store'[d] \in {"none", FinalBlob(d)'} \/ d = row'.live
               /\ row'.last < clock'
               /\ \A d \in Days : Stored(d)' => d \in Covered' \/ d = row'.live
    <3>1. Uncut("load", {}, {}, {})
      BY <1>1, <1>3, <2>3 DEF Under
    <3>2. row.last < clock
      BY <1>2, <3>1, DayTypes DEF Uncut, ReqOK, Types, RowOK
    <3>3. \A d : FinalBlob(d)' = FinalBlob(d)
      BY <1>1 DEF FinalBlob
    <3> QED
      BY <1>1, <2>1, <3>1, <3>2, <3>3 DEF Uncut, Stored
  <2>4. req' = NoRequest
    BY DEF Load
  <2> QED
    BY <1>1, <2>1, <2>2, <2>3, <2>4 DEF Idle
<1> QED
  BY <1>4, <1>5, <1>6, <1>7 DEF IInv

\* Some days are to be fetched before the step of a phase.
LEMMA FetchThen ==
  ASSUME NEW q \in Phases \ {"discovered"}, NEW R \in SUBSET Sessions, NEW f \in BOOLEAN
  PROVE  /\ FetchAndStore(R, f) \o <<Call(q)>> \in Seq(Calls)
         /\ (FetchAndStore(R, f) \o <<Call(q)>>) \o After(q) = Pending(q, {}, {}, R, f)
<1> DEFINE r == FetchAndStore(R, f)
           c == <<Call(q)>>
           t == After(q)
<1>1. r \in Seq(Calls) /\ c \in Seq(Calls) /\ t \in Seq(Calls) /\ PhaseCall(q) = Call(q)
  BY CallTypes, RestType
<1>2. Pending(q, {}, {}, R, f) = <<>> \o (<<>> \o (r \o (c \o t)))
  BY <1>1 DEF Pending, Cover, FetchAndStore, Rest
<1> HIDE DEF r, c, t
<1>3. r \o c \in Seq(Calls) /\ c \o t \in Seq(Calls) /\ (r \o c) \o t = r \o (c \o t)
  BY <1>1, ConcatProperties, ConcatAssociative
<1>4. r \o (c \o t) \in Seq(Calls)
  BY <1>1, <1>3, ConcatProperties
<1>5. <<>> \o (<<>> \o (r \o (c \o t))) = r \o (c \o t)
  BY <1>4, ConcatEmptySeq
<1> QED
  BY <1>2, <1>3, <1>5 DEF r, c, t

LEMMA FillThen ==
  ASSUME NEW L \in SUBSET Sessions, NEW R \in SUBSET Sessions, NEW f \in BOOLEAN
  PROVE  /\ FetchAndStore(L, TRUE) \o FetchAndStore(R, f) \in Seq(Calls)
         /\ (FetchAndStore(L, TRUE) \o FetchAndStore(R, f)) \o After("fill")
               = Pending("today", {}, L, R, f)
<1> DEFINE l == FetchAndStore(L, TRUE)
           r == FetchAndStore(R, f)
           t == After("fill")
<1>1. l \in Seq(Calls) /\ r \in Seq(Calls) /\ t \in Seq(Calls) /\ t = Rest("today")
  <2>1. PhaseCall("fill") \in Calls /\ "fill" \in Phases
    BY CallTypes DEF Phases
  <2> QED
    BY <2>1, CallTypes, RestType, RestSteps
<1>2. Pending("today", {}, L, R, f) = <<>> \o (l \o (r \o t))
  BY <1>1 DEF Pending, Cover
<1> HIDE DEF l, r, t
<1>3. l \o r \in Seq(Calls) /\ r \o t \in Seq(Calls) /\ (l \o r) \o t = l \o (r \o t)
  BY <1>1, ConcatProperties, ConcatAssociative
<1>4. l \o (r \o t) \in Seq(Calls)
  BY <1>1, <1>3, ConcatProperties
<1>5. <<>> \o (l \o (r \o t)) = l \o (r \o t)
  BY <1>4, ConcatEmptySeq
<1> QED
  BY <1>2, <1>3, <1>5 DEF l, r, t

\* What does not change when only the calls that are left do.
LEMMA Quiet ==
  ASSUME IInv, ReqOK, todo # <<>>, todo' # <<>>, InHand = {},
         UNCHANGED <<clock, tape, store, row, req, chunk, aborts, torn>>
  PROVE  /\ Types' /\ RowOK' /\ ReqOK' /\ InHand' = {} /\ Covered' = Covered
         /\ \A d : Stored(d)' = Stored(d)
<1>1. Types'
  BY DEF IInv, Types, InHand
<1>2. RowOK'
  <2>1. Now = req.today /\ Now' = req.today /\ req.today \in Int
    BY DayTypes DEF Now, ReqOK
  <2> QED
    BY <2>1, RowStays DEF IInv, Stored
<1>3. ReqOK'
  BY DEF ReqOK
<1> QED
  BY <1>1, <1>2, <1>3 DEF InHand, Covered, Stored

LEMMA SealStaleLiveStep ==
  ASSUME IInv, SealStaleLive
  PROVE  IInv'
<1>1. Doing("seal") /\ UNCHANGED <<clock, tape, store, row, req, chunk, aborts, torn>>
  BY DEF SealStaleLive
<1>2. /\ Types /\ ReqOK /\ RowOK /\ InHand = {} /\ todo # <<>>
      /\ \A calls \in Seq(Calls) : calls \o Tail(todo) = calls \o After("seal")
      /\ <<>> \o Tail(todo) = After("seal")
      /\ \E f \in BOOLEAN : Under("seal", {}, {}, {}, f)
  BY <1>1, AtPhase DEF Phases
<1>3. PICK f \in BOOLEAN : Under("seal", {}, {}, {}, f)
  BY <1>2
<1>4. ASSUME StaleLive PROVE IInv'
  <2>1. row.live # Unset /\ row.live \in Sessions /\ row.live # req.today
    BY <1>2, <1>4 DEF StaleLive, IsSession, RowOK
  <2>2. row.live <= req.today /\ row.live \in Int /\ req.today \in Int
    BY <1>2, DayTypes DEF RowOK, Now, ReqOK
  <2>3. row.live < req.today
    BY <2>1, <2>2
  <2> DEFINE R == {row.live}
  <2>4. R \in SUBSET Sessions
    BY <2>1
  <2>5. /\ FetchAndStore(R, FALSE) \o <<Call("sealed")>> \in Seq(Calls)
        /\ (FetchAndStore(R, FALSE) \o <<Call("sealed")>>) \o After("sealed")
              = Pending("sealed", {}, {}, R, FALSE)
    BY <2>4, FetchThen DEF Phases
  <2>6. todo' = (FetchAndStore(R, FALSE) \o <<Call("sealed")>>) \o Tail(todo)
    BY <1>4 DEF SealStaleLive, Then
  <2>7. todo' = Pending("sealed", {}, {}, R, FALSE)
    BY <1>2, <2>5, <2>6, RestSteps
  <2>8. todo' # <<>>
    <3>1. PhaseCall("sealed") \in Calls
      BY CallTypes DEF Phases
    <3> QED
      BY <2>4, <2>7, <3>1, PendingType DEF Phases
  <2>9. /\ Types' /\ RowOK' /\ ReqOK' /\ InHand' = {} /\ Covered' = Covered
        /\ \A d : Stored(d)' = Stored(d)
    BY <1>1, <1>2, <2>8, Quiet
  <2>10. Under("sealed", {}, {}, R, FALSE)'
    <3>1. todo' = Pending("sealed", {}, {}, {row.live}, FALSE)'
      <4>1. \A T : Pending("sealed", {}, {}, T, FALSE)' = Pending("sealed", {}, {}, T, FALSE)
        BY <1>1, PendingSame
      <4> QED
        BY <1>1, <2>7, <4>1
    <3>2. Form("sealed", {}, {}, R, FALSE)'
      BY <1>1, <2>1, <2>3, <2>9 DEF Form
    <3>3. Ranges("sealed", {}, {}, R, FALSE)'
      BY DEF Ranges
    <3>4. ~torn' => Whole("sealed", {}, {}, R)'
      BY <1>1, <1>2, <1>3, <2>9 DEF Under, Whole
    <3>5. aborts' = 0 => Uncut("sealed", {}, {}, R)'
      BY <1>1, <1>2, <1>3, <2>9, PendingSame DEF Under, Uncut
    <3> QED
      BY <3>1, <3>2, <3>3, <3>4, <3>5 DEF Under
  <2>11. R' = R
    BY <1>1
  <2>12. Busy'
    <3> HIDE DEF R
    <3>1. Under("sealed", {}, {}, R, FALSE)'
      BY <2>10
    <3> QED
      BY <2>4, <2>9, <2>11, <3>1 DEF Busy, Phases
  <2> QED
    BY <2>8, <2>9, <2>12 DEF IInv
<1>5. ASSUME ~StaleLive PROVE IInv'
  <2>1. todo' = Rest("fill")
    BY <1>2, <1>5, RestSteps DEF SealStaleLive, Then
  <2>2. todo' = Pending("fill", {}, {}, {}, FALSE)' /\ todo' # <<>>
    BY <1>1, <1>2, <2>1, IntoPhase DEF Phases
  <2>3. /\ Types' /\ RowOK' /\ ReqOK' /\ InHand' = {} /\ Covered' = Covered
        /\ \A d : Stored(d)' = Stored(d)
    BY <1>1, <1>2, <2>2, Quiet
  <2>4. row.live \in {Unset, req.today}
    BY <1>5 DEF StaleLive
  <2>5. Under("fill", {}, {}, {}, FALSE)'
    <3>1. Form("fill", {}, {}, {}, FALSE)'
      BY <1>1, <2>3, <2>4 DEF Form
    <3>2. Ranges("fill", {}, {}, {}, FALSE)'
      BY DEF Ranges
    <3>3. ~torn' => Whole("fill", {}, {}, {})'
      BY <1>1, <1>2, <1>3, <2>3 DEF Under, Whole
    <3>4. aborts' = 0 => Uncut("fill", {}, {}, {})'
      BY <1>1, <1>2, <1>3, <2>3, PendingSame DEF Under, Uncut
    <3> QED
      BY <2>2, <3>1, <3>2, <3>3, <3>4 DEF Under
  <2>6. Busy'
    BY <2>3, <2>5 DEF Busy, Phases
  <2> QED
    BY <2>2, <2>3, <2>6 DEF IInv
<1> QED
  BY <1>4, <1>5

LEMMA SealedStep ==
  ASSUME IInv, Sealed
  PROVE  IInv'
<1>1. /\ Doing("sealed") /\ row' = SealedRow /\ todo' = <<>> \o Tail(todo)
      /\ UNCHANGED <<clock, tape, store, req, chunk, aborts, torn>>
  BY DEF Sealed, Then
<1>2. /\ Types /\ ReqOK /\ RowOK /\ InHand = {} /\ todo # <<>>
      /\ <<>> \o Tail(todo) = After("sealed")
      /\ \E f \in BOOLEAN : Under("sealed", {}, {}, {}, f)
  BY <1>1, AtPhase DEF Phases
<1>3. PICK f \in BOOLEAN : Under("sealed", {}, {}, {}, f)
  BY <1>2
<1>4. todo' = Pending("fill", {}, {}, {}, FALSE)' /\ todo' # <<>>
  BY <1>1, <1>2, RestSteps, IntoPhase DEF Phases
<1>5. /\ row.live # Unset /\ row.live < req.today /\ row.first # Unset
      /\ row.live \in Sessions /\ Stored(row.live) /\ row.first \in Sessions /\ Stored(row.first)
      /\ row.first <= row.live /\ row.last <= row.live
      /\ \A s \in Sessions : s < row.live => s <= row.last
  BY <1>2, <1>3 DEF Under, Form, RowOK
<1>6. row.last \in Int /\ row.live \in Int /\ row.first \in Int /\ req.today \in Int
      /\ {row.last, row.live} \in SUBSET (Days \cup {Unset}) /\ row.live \in Days
  BY <1>2, <1>5, DayTypes DEF RowOK, ReqOK
<1>7. Max({row.last, row.live}) = row.live
  <2>1. /\ Max({row.last, row.live}) \in {row.last, row.live}
        /\ \A y \in {row.last, row.live} : y <= Max({row.last, row.live})
    BY <1>6, GreatestDay
  <2> QED
    BY <1>5, <1>6, <2>1
<1>8. row'.first = row.first /\ row'.last = row.live /\ row'.live = Unset
      /\ row' = [first |-> row.first, last |-> row.live, live |-> Unset]
  BY <1>1, <1>5, <1>7 DEF SealedRow
<1>9. Types' /\ ReqOK' /\ InHand' = {}
  BY <1>1, <1>2 DEF Types, ReqOK, InHand
<1>10. RowOK'
  <2>1. Now' = req.today
    BY <1>1, <1>4 DEF Now
  <2>2. LET day == Days \cup {Unset} IN row' \in [first : day, last : day, live : day]
    BY <1>5, <1>6, <1>8, DayTypes
  <2>3. row'.first <= Now' /\ row'.last <= Now' /\ row'.live <= Now'
    BY <1>5, <1>6, <1>8, <1>2, <2>1, DayTypes DEF ReqOK
  <2>4. \A s \in Sessions : ~(row'.last < s /\ s < row'.first)
    BY <1>5, <1>6, <1>8, DayTypes
  <2> QED
    BY <1>1, <1>5, <1>6, <1>8, <2>2, <2>3, <2>4, DayTypes DEF RowOK, Stored
<1>11. /\ \A d \in Covered' : d \in Covered \/ d = row.live
       /\ \A d \in Covered : d \in Covered'
       /\ row.live \in Covered'
  <2>1. Covered' = {s \in Sessions : row.first <= s /\ s <= row.live}
    BY <1>5, <1>8, DayTypes DEF Covered, SessionDays
  <2>2. \A s \in Sessions : s <= row.last => s <= row.live
    BY <1>5, <1>6, DayTypes
  <2>3. \A s \in Sessions : s <= row.live => s = row.live \/ s <= row.last
    BY <1>5, <1>6, DayTypes
  <2>4. Covered = {s \in Sessions : row.first <= s /\ s <= row.last}
    BY <1>2, <1>5 DEF Covered, SessionDays, RowOK
  <2> QED
    BY <1>5, <1>6, <2>1, <2>2, <2>3, <2>4
<1>12. Under("fill", {}, {}, {}, FALSE)'
  <2>1. Form("fill", {}, {}, {}, FALSE)'
    BY <1>8, <1>9 DEF Form
  <2>2. Ranges("fill", {}, {}, {}, FALSE)'
    BY DEF Ranges
  <2>3. ~torn' => Whole("fill", {}, {}, {})'
    BY <1>1, <1>2, <1>3, <1>5, <1>9, <1>11 DEF Under, Whole, Stored
  <2>4. aborts' = 0 => Uncut("fill", {}, {}, {})'
    BY <1>1, <1>2, <1>3, <1>5, <1>8, <1>9, <1>11, PendingSame DEF Under, Uncut, Stored
  <2> QED
    BY <1>4, <2>1, <2>2, <2>3, <2>4 DEF Under
<1>13. Busy'
  BY <1>9, <1>12 DEF Busy, Phases
<1> QED
  BY <1>4, <1>9, <1>10, <1>13 DEF IInv

\* From the phase of fill_closed on, with nothing left to fetch for it.
LEMMA RefreshTodayStep ==
  ASSUME IInv, RefreshToday
  PROVE  IInv'
<1>1. Doing("today") /\ UNCHANGED <<clock, tape, store, row, req, chunk, aborts, torn>>
  BY DEF RefreshToday
<1>2. /\ Types /\ ReqOK /\ RowOK /\ InHand = {} /\ todo # <<>>
      /\ \A calls \in Seq(Calls) : calls \o Tail(todo) = calls \o After("today")
      /\ <<>> \o Tail(todo) = After("today")
      /\ \E f \in BOOLEAN : Under("today", {}, {}, {}, f)
  BY <1>1, AtPhase DEF Phases
<1>3. PICK f \in BOOLEAN : Under("today", {}, {}, {}, f)
  BY <1>2
<1>4. ASSUME todo' = <<>> \o Tail(todo) PROVE IInv'
  <2>1. todo' = Pending("load", {}, {}, {}, FALSE)' /\ todo' # <<>>
    BY <1>1, <1>2, <1>4, RestSteps, IntoPhase DEF Phases
  <2>2. /\ Types' /\ RowOK' /\ ReqOK' /\ InHand' = {} /\ Covered' = Covered
        /\ \A d : Stored(d)' = Stored(d)
    BY <1>1, <1>2, <2>1, Quiet
  <2>3. Under("load", {}, {}, {}, FALSE)'
    <3>1. Form("load", {}, {}, {}, FALSE)'
      BY <1>1, <1>3, <2>2 DEF Under, Form
    <3>2. Ranges("load", {}, {}, {}, FALSE)'
      BY DEF Ranges
    <3>3. ~torn' => Whole("load", {}, {}, {})'
      BY <1>1, <1>2, <1>3, <2>2, PendingSame DEF Under, Whole
    <3>4. aborts' = 0 => Uncut("load", {}, {}, {})'
      BY <1>1, <1>2, <1>3, <2>2, PendingSame DEF Under, Uncut
    <3> QED
      BY <2>1, <3>1, <3>2, <3>3, <3>4 DEF Under
  <2>4. Busy'
    BY <2>2, <2>3 DEF Busy, Phases
  <2> QED
    BY <2>1, <2>2, <2>4 DEF IInv
<1>5. ASSUME WantsToday, Then(FetchAndStore({req.today}, FALSE) \o <<Call("live")>>)
      PROVE  IInv'
  <2>1. req.today \in Sessions
    BY <1>5 DEF WantsToday, IsSession
  <2> DEFINE R == {req.today}
  <2>2. R \in SUBSET Sessions
    BY <2>1
  <2>3. /\ FetchAndStore(R, FALSE) \o <<Call("live")>> \in Seq(Calls)
        /\ (FetchAndStore(R, FALSE) \o <<Call("live")>>) \o After("live")
              = Pending("live", {}, {}, R, FALSE)
    BY <2>2, FetchThen DEF Phases
  <2>4. todo' = Pending("live", {}, {}, R, FALSE)
    BY <1>2, <1>5, <2>3, RestSteps DEF Then
  <2>5. todo' # <<>>
    <3>1. PhaseCall("live") \in Calls
      BY CallTypes DEF Phases
    <3> QED
      BY <2>2, <2>4, <3>1, PendingType DEF Phases
  <2>6. /\ Types' /\ RowOK' /\ ReqOK' /\ InHand' = {} /\ Covered' = Covered
        /\ \A d : Stored(d)' = Stored(d)
    BY <1>1, <1>2, <2>5, Quiet
  <2>7. R' = R
    BY <1>1
  <2>8. Under("live", {}, {}, R, FALSE)'
    <3>1. todo' = Pending("live", {}, {}, {req.today}, FALSE)'
      <4>1. \A T : Pending("live", {}, {}, T, FALSE)' = Pending("live", {}, {}, T, FALSE)
        BY <1>1, PendingSame
      <4> QED
        BY <1>1, <2>4, <4>1
    <3>2. Form("live", {}, {}, R, FALSE)'
      <4>1. WantsToday' /\ row'.live \in {Unset, req'.today}
        BY <1>1, <1>3, <1>5, PendingSame DEF Under, Form
      <4> QED
        BY <2>6, <4>1 DEF Form
    <3>3. Ranges("live", {}, {}, R, FALSE)'
      BY DEF Ranges
    <3>4. ~torn' => Whole("live", {}, {}, R)'
      BY <1>1, <1>2, <1>3, <2>6, PendingSame DEF Under, Whole
    <3>5. aborts' = 0 => Uncut("live", {}, {}, R)'
      BY <1>1, <1>2, <1>3, <2>6, PendingSame DEF Under, Uncut
    <3> QED
      BY <3>1, <3>2, <3>3, <3>4, <3>5 DEF Under
  <2>9. Busy'
    <3> HIDE DEF R
    <3> QED
      BY <2>2, <2>6, <2>7, <2>8 DEF Busy, Phases
  <2> QED
    BY <2>5, <2>6, <2>9 DEF IInv
<1> QED
  BY <1>4, <1>5 DEF RefreshToday, Then

LEMMA LiveStep ==
  ASSUME IInv, Live
  PROVE  IInv'
<1>1. /\ Doing("live") /\ row' = LiveRow /\ todo' = <<>> \o Tail(todo)
      /\ UNCHANGED <<clock, tape, store, req, chunk, aborts, torn>>
  BY DEF Live, Then
<1>2. /\ Types /\ ReqOK /\ RowOK /\ InHand = {} /\ todo # <<>>
      /\ <<>> \o Tail(todo) = After("live")
      /\ \E f \in BOOLEAN : Under("live", {}, {}, {}, f)
  BY <1>1, AtPhase DEF Phases
<1>3. PICK f \in BOOLEAN : Under("live", {}, {}, {}, f)
  BY <1>2
<1>4. todo' = Pending("load", {}, {}, {}, FALSE)' /\ todo' # <<>>
  BY <1>1, <1>2, RestSteps, IntoPhase DEF Phases
<1> DEFINE q == PrevSession(req.today)
<1>5. /\ q \in Sessions /\ q < req.today /\ ClosedTo <= q
      /\ \A s \in Sessions : s < req.today => s <= q
  BY <1>2, ClosedFacts
<1>6. /\ row.last = req.today /\ Stored(req.today) /\ req.today \in Sessions
      /\ row.live \in {Unset, req.today}
  BY <1>3 DEF Under, Form, WantsToday, IsSession
<1>7. row.first # Unset /\ row.first \in Sessions /\ Stored(row.first)
  BY <1>2, <1>6, DayTypes DEF RowOK
<1>8. q \in Int /\ q \in Days /\ req.today \in Int /\ row.first \in Int /\ row.first <= req.today
      /\ req.today \in Days /\ ClosedTo \in Int
  BY <1>2, <1>5, <1>6, <1>7, ClosedFacts, DayTypes DEF RowOK, Now
<1>9. /\ row' = [first |-> row.first, last |-> q, live |-> req.today]
      /\ row'.first = row.first /\ row'.last = q /\ row'.live = req.today
  BY <1>1, <1>6 DEF LiveRow
<1>10. q' = q
  BY <1>1 DEF PrevSession
<1> HIDE DEF q
<1>11. Types' /\ ReqOK' /\ InHand' = {}
  BY <1>1, <1>2 DEF Types, ReqOK, InHand
<1>12. RowOK'
  <2>1. Now' = req.today
    BY <1>1, <1>4 DEF Now
  <2>2. LET day == Days \cup {Unset} IN row' \in [first : day, last : day, live : day]
    BY <1>7, <1>8, <1>9, DayTypes
  <2>3. row'.first <= Now' /\ row'.last <= Now' /\ row'.live <= Now'
    BY <1>5, <1>8, <1>9, <2>1
  <2>4. \A s \in Sessions : ~(row'.last < s /\ s < row'.first)
    BY <1>5, <1>8, <1>9, DayTypes
  <2>5. row'.first # Unset /\ row'.last # Unset
    BY <1>7, <1>8, <1>9, DayTypes
  <2>6. /\ row'.live \in Sessions /\ Stored(row'.live) /\ row'.first <= row'.live
        /\ row'.last <= row'.live /\ \A s \in Sessions : s < row'.live => s <= row'.last
    BY <1>5, <1>6, <1>8, <1>9
  <2> QED
    BY <1>1, <1>7, <1>9, <2>2, <2>3, <2>4, <2>5, <2>6 DEF RowOK, Stored
<1>13. /\ \A d \in Covered' : d \in Covered
       /\ \A d \in Covered : d \in Covered' \/ d = req.today
  <2>1. Covered' = {s \in Sessions : row.first <= s /\ s <= q}
    BY <1>7, <1>8, <1>9, DayTypes DEF Covered, SessionDays
  <2>2. \A s \in Sessions : s <= q => s <= req.today
    BY <1>5, <1>8, DayTypes
  <2>3. \A s \in Sessions : s <= req.today => s = req.today \/ s <= q
    BY <1>5, <1>8, DayTypes
  <2>4. Covered = {s \in Sessions : row.first <= s /\ s <= req.today}
    BY <1>6, <1>7, <1>8, DayTypes DEF Covered, SessionDays
  <2> QED
    BY <2>1, <2>2, <2>3, <2>4
<1>14. Under("load", {}, {}, {}, FALSE)'
  <2>1. Form("load", {}, {}, {}, FALSE)'
    BY <1>1, <1>9, <1>11 DEF Form
  <2>2. Ranges("load", {}, {}, {}, FALSE)'
    BY DEF Ranges
  <2>3. ~torn' => Whole("load", {}, {}, {})'
    <3>1. \A s \in Sessions : ~(row'.last < s /\ s <= ClosedTo)
      BY <1>5, <1>8, <1>9, DayTypes
    <3>2. \A s \in Covered' : ~torn' => Stored(s)'
      BY <1>1, <1>2, <1>3, <1>13 DEF Under, Whole, Stored
    <3>3. /\ row'.first # Unset
          /\ ~torn' /\ req'.from # Unset =>
               \A d \in tape' : req'.from <= d /\ d <= ClosedTo' => Stored(d)'
      BY <1>1, <1>2, <1>3, <1>7, <1>9, PendingSame DEF Under, Whole, Stored
    <3>4. ClosedTo' = ClosedTo
      BY <1>1, PendingSame
    <3> QED
      BY <3>1, <3>2, <3>3, <3>4 DEF Whole
  <2>4. aborts' = 0 => Uncut("load", {}, {}, {})'
    <3>1. \A d \in Days : d = row.live => d = req.today
      BY <1>6, DayTypes
    <3> QED
      BY <1>1, <1>2, <1>3, <1>5, <1>9, <1>11, <1>13, <3>1, PendingSame DEF Under, Uncut, Stored
  <2> QED
    BY <1>4, <2>1, <2>2, <2>3, <2>4 DEF Under
<1>15. Busy'
  BY <1>11, <1>14 DEF Busy, Phases
<1> QED
  BY <1>4, <1>11, <1>12, <1>15 DEF IInv

LEMMA DiscoverClosedStep ==
  ASSUME IInv, DiscoverClosed
  PROVE  IInv'
<1>1. /\ Doing("fill") /\ FillFrom = Unset
      /\ UNCHANGED <<clock, tape, store, row, req, aborts, torn>>
  BY DEF DiscoverClosed
<1>2. /\ Types /\ ReqOK /\ RowOK /\ InHand = {} /\ todo # <<>>
      /\ \A calls \in Seq(Calls) : calls \o Tail(todo) = calls \o After("fill")
      /\ <<>> \o Tail(todo) = After("fill")
      /\ \E f \in BOOLEAN : Under("fill", {}, {}, {}, f)
  BY <1>1, AtPhase DEF Phases
<1>3. PICK f \in BOOLEAN : Under("fill", {}, {}, {}, f)
  BY <1>2
<1>4. req.from = Unset /\ row.first = Unset /\ row.live = Unset
  BY <1>1, <1>2 DEF FillFrom, RowOK
<1>5. ASSUME Discoverable = {} PROVE IInv'
  <2>1. chunk' = chunk /\ todo' = Rest("today")
    BY <1>2, <1>5, RestSteps DEF DiscoverClosed, Then
  <2>2. todo' = Pending("today", {}, {}, {}, FALSE)' /\ todo' # <<>>
    BY <1>1, <1>2, <2>1, IntoPhase DEF Phases
  <2>3. /\ Types' /\ RowOK' /\ ReqOK' /\ InHand' = {} /\ Covered' = Covered
        /\ \A d : Stored(d)' = Stored(d)
    BY <1>1, <1>2, <2>1, <2>2, Quiet
  <2>4. Under("today", {}, {}, {}, FALSE)'
    <3>1. Form("today", {}, {}, {}, FALSE)'
      BY <1>1, <1>4, <2>3 DEF Form
    <3>2. Ranges("today", {}, {}, {}, FALSE)'
      BY DEF Ranges
    <3>3. ~torn' => Whole("today", {}, {}, {})'
      BY <1>1, <1>2, <1>3, <1>4, <1>5, <2>3, PendingSame DEF Under, Whole
    <3>4. aborts' = 0 => Uncut("today", {}, {}, {})'
      BY <1>1, <1>2, <1>3, <2>3, PendingSame DEF Under, Uncut
    <3> QED
      BY <2>2, <3>1, <3>2, <3>3, <3>4 DEF Under
  <2>5. Busy'
    BY <2>3, <2>4 DEF Busy, Phases
  <2> QED
    BY <2>2, <2>3, <2>5 DEF IInv
<1>6. ASSUME Discoverable # {} PROVE IInv'
  <2>1. /\ chunk' = [d \in DiscoverDays |-> FinalBlob(d)]
        /\ todo' = <<[Call("discovered") EXCEPT !.days = {Min(Discoverable), ClosedTo}]>> \o Tail(todo)
    BY <1>6 DEF DiscoverClosed, Then
  <2>2. PhaseCall("discovered") \in Calls
    BY <1>2, <1>6, PhaseType DEF Phases
  <2>3. todo' = <<PhaseCall("discovered")>> \o Tail(todo)
    BY <2>1 DEF PhaseCall
  <2>4. todo' = Rest("discovered")
    <3>1. <<PhaseCall("discovered")>> \in Seq(Calls)
      BY <2>2
    <3> QED
      BY <1>2, <2>3, <3>1, RestSteps DEF Rest
  <2>5. todo' = Pending("discovered", {}, {}, {}, FALSE)' /\ todo' # <<>>
    <3>1. Pending("discovered", {}, {}, {}, FALSE) = Rest("discovered") /\ Rest("discovered") # <<>>
      BY <2>2, PendingEmpty, RestType DEF Phases
    <3> QED
      BY <1>1, <2>4, <3>1, PendingSame
  <2>6. InHand' = DiscoverDays /\ \A d \in DiscoverDays : chunk'[d] = FinalBlob(d)
    BY <2>1 DEF InHand
  <2>7. /\ DiscoverDays \subseteq Sessions
        /\ \A d : FinalBlob(d) \in Blobs
    BY <1>2, <1>6, DiscoverFacts DEF FinalBlob, Blobs
  <2>8. Types'
    <3>1. chunk' \in [InHand' -> Blobs]
      BY <2>1, <2>6, <2>7
    <3> QED
      BY <1>1, <1>2, <2>6, <2>7, <3>1 DEF Types
  <2>9. ReqOK'
    BY <1>1, <1>2 DEF ReqOK
  <2>10. RowOK'
    <3>1. Now = req.today /\ Now' = req.today /\ req.today \in Int
      BY <1>1, <1>2, <2>5, DayTypes DEF Now, ReqOK
    <3> QED
      BY <1>1, <1>2, <3>1, RowStays DEF Stored
  <2>11. Under("discovered", {}, {}, {}, FALSE)'
    <3>1. Form("discovered", {}, {}, {}, FALSE)'
      <4>1. /\ row'.first = Unset /\ Discoverable' # {} /\ InHand' \subseteq DiscoverDays'
            /\ \A s \in DiscoverDays' : s \in InHand'
            /\ row'.live \in {Unset, req'.today}
        BY <1>1, <1>4, <1>6, <2>6, PendingSame
      <4> QED
        BY <4>1 DEF Form
    <3>2. Ranges("discovered", {}, {}, {}, FALSE)'
      BY DEF Ranges
    <3>3. ~torn' => Whole("discovered", {}, {}, {})'
      <4>1. Covered' = {}
        BY <1>1, <1>4 DEF Covered
      <4> QED
        BY <4>1 DEF Whole
    <3>4. aborts' = 0 => Uncut("discovered", {}, {}, {})'
      <4>1. Covered' = Covered
        BY <1>1 DEF Covered
      <4> QED
        BY <1>1, <1>2, <1>3, <2>6, <4>1, PendingSame DEF Under, Uncut, Stored
    <3> QED
      BY <2>5, <3>1, <3>2, <3>3, <3>4 DEF Under
  <2>12. Busy'
    BY <2>9, <2>11 DEF Busy, Phases
  <2> QED
    BY <2>5, <2>8, <2>10, <2>12 DEF IInv
<1> QED
  BY <1>5, <1>6

LEMMA DiscoveredStep ==
  ASSUME IInv, Discovered
  PROVE  IInv'
<1>1. /\ Doing("discovered") /\ todo' = <<>> \o Tail(todo)
      /\ UNCHANGED <<clock, tape, store, req, chunk, aborts, torn>>
  BY DEF Discovered, Then
<1>2. /\ Types /\ ReqOK /\ RowOK /\ InHand = {} /\ todo # <<>>
      /\ Head(todo) = PhaseCall("discovered")
      /\ <<>> \o Tail(todo) = After("discovered")
      /\ \E f \in BOOLEAN : Under("discovered", {}, {}, {}, f)
  BY <1>1, AtPhase DEF Phases
<1>3. PICK f \in BOOLEAN : Under("discovered", {}, {}, {}, f)
  BY <1>2
<1>4. todo' = Pending("today", {}, {}, {}, FALSE)' /\ todo' # <<>>
  BY <1>1, <1>2, RestSteps, IntoPhase DEF Phases
<1> DEFINE m == Min(Discoverable)
<1>5. /\ row.first = Unset /\ row.live = Unset /\ Discoverable # {}
      /\ \A s \in DiscoverDays : Stored(s)
  BY <1>2, <1>3 DEF Under, Form, RowOK
<1>6. /\ m \in tape /\ m \in Sessions /\ m <= ClosedTo /\ m \in DiscoverDays
      /\ \A d \in tape : d <= ClosedTo => m <= d
      /\ DiscoverDays \subseteq Sessions
      /\ \A s \in Sessions : s \in DiscoverDays <=> m <= s /\ s <= ClosedTo
  BY <1>2, <1>5, DiscoverFacts
<1>7. /\ ClosedTo \in Days /\ ClosedTo < req.today
  BY <1>2, ClosedFacts
<1>8. Head(todo).days = {m, ClosedTo}
  BY <1>2 DEF PhaseCall, Call
<1> HIDE DEF m
<1>9. m \in Days /\ m \in Int /\ ClosedTo \in Int /\ req.today \in Int
  BY <1>2, <1>6, <1>7, DayTypes DEF ReqOK
<1>10. Min({m, ClosedTo}) = m /\ Max({m, ClosedTo}) = ClosedTo
  <2>1. {m, ClosedTo} \in SUBSET (Days \cup {Unset}) /\ {m, ClosedTo} # {}
    BY <1>7, <1>9
  <2>2. /\ Min({m, ClosedTo}) \in {m, ClosedTo}
        /\ \A y \in {m, ClosedTo} : Min({m, ClosedTo}) <= y
    BY <2>1, LeastDay
  <2>3. /\ Max({m, ClosedTo}) \in {m, ClosedTo}
        /\ \A y \in {m, ClosedTo} : y <= Max({m, ClosedTo})
    BY <2>1, GreatestDay
  <2> QED
    BY <1>6, <1>9, <2>2, <2>3
<1>11. /\ row' = [first |-> m, last |-> ClosedTo, live |-> Unset]
       /\ row'.first = m /\ row'.last = ClosedTo /\ row'.live = Unset
  <2>1. row' = [first |-> Min(Head(todo).days), last |-> Max(Head(todo).days), live |-> Unset]
    BY DEF Discovered
  <2> QED
    BY <1>8, <1>10, <2>1
<1>12. Types' /\ ReqOK' /\ InHand' = {} /\ ClosedTo' = ClosedTo
  BY <1>1, <1>2, PendingSame DEF Types, ReqOK, InHand
<1>13. RowOK'
  <2>1. Now' = req.today
    BY <1>1, <1>4 DEF Now
  <2>2. LET day == Days \cup {Unset} IN row' \in [first : day, last : day, live : day]
    BY <1>7, <1>9, <1>11
  <2>3. row'.first <= Now' /\ row'.last <= Now' /\ row'.live <= Now'
    BY <1>2, <1>6, <1>7, <1>9, <1>11, <2>1, DayTypes DEF ReqOK
  <2>4. \A s \in Sessions : ~(row'.last < s /\ s < row'.first)
    BY <1>6, <1>9, <1>11, DayTypes
  <2>5. row'.first # Unset /\ row'.last # Unset
    BY <1>7, <1>9, <1>11, DayTypes
  <2> QED
    BY <1>1, <1>5, <1>6, <1>11, <2>2, <2>3, <2>4, <2>5 DEF RowOK, Stored
<1>14. Covered' = DiscoverDays /\ Covered = {}
  BY <1>5, <1>6, <1>7, <1>9, <1>11, DayTypes DEF Covered, SessionDays
<1>15. Under("today", {}, {}, {}, FALSE)'
  <2>1. Form("today", {}, {}, {}, FALSE)'
    BY <1>11, <1>12 DEF Form
  <2>2. Ranges("today", {}, {}, {}, FALSE)'
    BY <1>9, <1>11, DayTypes DEF Ranges
  <2>3. ~torn' => Whole("today", {}, {}, {})'
    <3>1. \A s \in Covered' : Stored(s)'
      BY <1>1, <1>5, <1>14 DEF Stored
    <3>2. \A s \in Sessions : ~(row'.last < s /\ s <= ClosedTo')
      <4>1. \A s \in Sessions : ~(ClosedTo < s /\ s <= ClosedTo)
        <5>1. \A s \in Sessions : s \in Int
          BY DayTypes
        <5>2. ClosedTo \in Int
          BY <1>9
        <5> QED
          BY <5>1, <5>2
      <4> QED
        BY <1>11, <1>12, <4>1
    <3>3. row'.first # Unset
      BY <1>9, <1>11, DayTypes
    <3>4. \A d \in tape' : d <= ClosedTo' => Stored(d)'
      <4>1. \A d \in tape : d \in Sessions
        BY <1>2, DayTypes DEF Types
      <4> QED
        BY <1>1, <1>5, <1>6, <1>12, <4>1 DEF Stored
    <3> QED
      BY <3>1, <3>2, <3>3, <3>4 DEF Whole
  <2>4. aborts' = 0 => Uncut("today", {}, {}, {})'
    <3>1. \A d \in Days : d # row.live
      BY <1>5, DayTypes
    <3> QED
      BY <1>1, <1>2, <1>3, <1>7, <1>11, <1>12, <1>14, <3>1, PendingSame DEF Under, Uncut, Stored
  <2> QED
    BY <1>4, <2>1, <2>2, <2>3, <2>4 DEF Under
<1>16. Busy'
  BY <1>12, <1>15 DEF Busy, Phases
<1> QED
  BY <1>4, <1>12, <1>13, <1>16 DEF IInv

\* fill_closed asks for what the row does not claim, and it tears the range
\* when the row will reach over sessions that it does not ask for.
LEMMA FillClosedStep ==
  ASSUME IInv, FillClosed
  PROVE  IInv'
<1>0. PICK L, R, f : L = Left /\ R = Missing \ Left /\ f = (row.first = Unset)
  OBVIOUS
<1>1. /\ Doing("fill") /\ FillFrom # Unset
      /\ todo' = (FetchAndStore(L, TRUE) \o FetchAndStore(R, f)) \o Tail(todo)
      /\ torn' = (torn \/ JumpsOver)
      /\ UNCHANGED <<clock, tape, store, row, req, chunk, aborts>>
  BY <1>0 DEF FillClosed, Then
<1>2. /\ Types /\ ReqOK /\ RowOK /\ InHand = {} /\ todo # <<>>
      /\ \A calls \in Seq(Calls) : calls \o Tail(todo) = calls \o After("fill")
      /\ \E g \in BOOLEAN : Under("fill", {}, {}, {}, g)
  BY <1>1, AtPhase DEF Phases
<1>3. PICK g \in BOOLEAN : Under("fill", {}, {}, {}, g)
  BY <1>2
<1>4. /\ L \in SUBSET Sessions /\ R \in SUBSET Sessions /\ f \in BOOLEAN
      /\ \A s \in Sessions : s \in Missing
            <=> FillFrom <= s /\ s <= ClosedTo /\ s \notin Covered
      /\ \A s \in Sessions : s \in L <=> s \in Missing /\ row.first # Unset /\ s < row.first
      /\ \A s \in Sessions : s \in R <=> s \in Missing /\ ~(row.first # Unset /\ s < row.first)
      /\ f <=> row.first = Unset
  BY <1>0 DEF Missing, Left, SessionDays
<1>5. \A s \in Sessions : s \in Covered
            <=> row.first # Unset /\ row.first <= s /\ s <= row.last
  BY <1>2 DEF Covered, SessionDays, RowOK
<1>6. todo' = Pending("today", {}, L, R, f) /\ todo' # <<>>
  <2>1. PhaseCall("today") \in Calls
    BY CallTypes DEF Phases
  <2>2. /\ FetchAndStore(L, TRUE) \o FetchAndStore(R, f) \in Seq(Calls)
        /\ (FetchAndStore(L, TRUE) \o FetchAndStore(R, f)) \o After("fill")
              = Pending("today", {}, L, R, f)
    BY <1>4, FillThen
  <2>3. todo' = Pending("today", {}, L, R, f)
    BY <1>1, <1>2, <2>2
  <2>4. Pending("today", {}, L, R, f) # <<>>
    BY <1>4, <2>1, PendingType DEF Phases
  <2> QED
    BY <2>3, <2>4
<1>7. torn' \in BOOLEAN /\ (~torn' => ~torn /\ ~JumpsOver)
  BY <1>1, <1>2 DEF Types
<1>8. Types' /\ ReqOK' /\ InHand' = {} /\ ClosedTo' = ClosedTo /\ Covered' = Covered
  BY <1>1, <1>2, <1>7, PendingSame DEF Types, ReqOK, InHand, Covered
<1>9. RowOK'
  <2>1. Now = req.today /\ Now' = req.today /\ req.today \in Int
    BY <1>1, <1>2, <1>6, DayTypes DEF Now, ReqOK
  <2> QED
    BY <1>1, <1>2, <2>1, RowStays DEF Stored
<1>10. /\ row.first \in Int /\ row.last \in Int /\ ClosedTo \in Int /\ FillFrom \in Int
       /\ req.today \in Int /\ ClosedTo < req.today
       /\ \A s \in Sessions : s \in Int
       /\ row.first # Unset => row.last # Unset
       /\ row.first # Unset => \A s \in Sessions : ~(row.last < s /\ s < row.first)
  BY <1>2, ClosedFacts, DayTypes DEF RowOK, ReqOK, FillFrom
<1>11. /\ row.first = Unset => row.last = Unset
       /\ ~torn' => \A s \in Sessions : ~(row.last # Unset /\ row.last < s /\ s < FillFrom)
       /\ ~torn' => \A s \in Sessions : ~(row.first # Unset /\ ClosedTo < s /\ s < row.first)
  BY <1>2, <1>7 DEF JumpsOver, RowOK
<1>12. row.live \in {Unset, req.today}
  BY <1>3 DEF Under, Form
<1>13. Form("today", {}, L, R, f)'
  BY <1>1, <1>8, <1>12 DEF Form
<1>14. Ranges("today", {}, L, R, f)'
  <2>1. \A s \in {} \cup L \cup R : s <= ClosedTo
    BY <1>4
  <2>2. \A s \in L : \A e \in R : s < e
    BY <1>4, <1>10
  <2>3. f => L = {} /\ row.first <= row.last
    BY <1>4, <1>10, <1>11
  <2>4. row.first = Unset => L = {} /\ f
    BY <1>4
  <2>5. row.first # Unset => \A s \in R : row.last < s
    BY <1>4, <1>5, <1>10
  <2>6. row.first = Unset => \A e \in R : SessionDays(e, ClosedTo) \subseteq R
    BY <1>4, <1>5, <1>10 DEF SessionDays
  <2>7. ~torn' /\ row.first # Unset =>
          \A e \in L : \A s \in Sessions : e <= s /\ s < row.first => s \in L
    BY <1>4, <1>5, <1>10, <1>11
  <2>8. row' = row
    BY <1>1
  <2> QED
    BY <1>8, <2>1, <2>2, <2>3, <2>4, <2>5, <2>6, <2>7, <2>8 DEF Ranges, SessionDays
<1>15. ~torn' => Whole("today", {}, L, R)'
  <2>1. SUFFICES ASSUME ~torn' PROVE Whole("today", {}, L, R)'
    OBVIOUS
  <2>2. ~torn /\ Whole("fill", {}, {}, {})
    BY <1>3, <1>7, <2>1 DEF Under
  <2>3. \A s \in Covered : Stored(s)
    BY <1>2, <2>2 DEF Whole
  <2>4. row.first # Unset =>
          \A s \in Sessions : row.last < s /\ s <= ClosedTo => s \in R
    BY <1>4, <1>5, <1>10, <1>11, <2>1
  <2>5. ~(req.from = Unset /\ row.first = Unset)
    BY <1>1 DEF FillFrom
  <2>6. req.from # Unset =>
          \A d \in tape : req.from <= d /\ d <= ClosedTo => Stored(d) \/ d \in L \cup R
    <3>1. req.from # Unset => FillFrom = req.from
      BY DEF FillFrom
    <3>2. \A d \in tape : d \in Sessions
      BY <1>2, DayTypes DEF Types
    <3> QED
      BY <1>4, <2>3, <3>1, <3>2
  <2>7. row' = row /\ req' = req /\ tape' = tape /\ \A d : Stored(d)' = Stored(d)
    BY <1>1 DEF Stored
  <2> QED
    BY <1>8, <2>3, <2>4, <2>5, <2>6, <2>7 DEF Whole
<1>16. aborts' = 0 => Uncut("today", {}, L, R)'
  <2>1. SUFFICES ASSUME aborts' = 0 PROVE Uncut("today", {}, L, R)'
    OBVIOUS
  <2>2. Uncut("fill", {}, {}, {})
    BY <1>1, <1>3, <2>1 DEF Under
  <2>3. \A s \in L \cup R : ~Stored(s)
    <3>1. ASSUME NEW s \in L \cup R PROVE ~Stored(s)
      <4>1. s \in Days /\ s \notin Covered /\ s <= ClosedTo
        BY <1>4, DayTypes
      <4>2. s # row.live
        BY <1>10, <1>12, <4>1, DayTypes
      <4> QED
        BY <2>2, <4>1, <4>2 DEF Uncut
    <3> QED
      BY <3>1
  <2>4. \A d : FinalBlob(d)' = FinalBlob(d) /\ Stored(d)' = Stored(d)
    BY <1>1, PendingSame DEF Stored
  <2> QED
    BY <1>1, <1>8, <2>2, <2>3, <2>4 DEF Uncut
<1>17. Under("today", {}, L, R, f)'
  <2>1. todo' = Pending("today", {}, L, R, f)'
    BY <1>1, <1>6, PendingSame
  <2> QED
    BY <1>13, <1>14, <1>15, <1>16, <2>1 DEF Under
<1>18. Busy'
  BY <1>4, <1>8, <1>17 DEF Busy, Phases
<1> QED
  BY <1>6, <1>8, <1>9, <1>18 DEF IInv

LEMMA PutSessionStep ==
  ASSUME IInv, PutSession
  PROVE  IInv'
<1>1. PICK m : m = NextToPut
  OBVIOUS
<1>2. /\ chunk # NoBlobs
      /\ store' = [store EXCEPT ![m] = chunk[m]]
      /\ chunk' = [d \in InHand \ {m} |-> chunk[d]]
      /\ UNCHANGED <<clock, tape, row, req, todo, aborts, torn>>
  BY <1>1 DEF PutSession, InHand
<1>3. Types /\ RowOK /\ InHand # {}
  BY <1>2, ChunkType DEF IInv
<1>4. todo # <<>> /\ ReqOK
  BY <1>3 DEF IInv, Idle, Busy
<1>5. PICK p \in Phases, W \in SUBSET Sessions, L \in SUBSET Sessions, R \in SUBSET Sessions,
           f \in BOOLEAN : Under(p, W, L, R, f)
  BY <1>4 DEF IInv, Busy
<1>6. m \in InHand /\ m \in Sessions /\ m \in Days
  <2>1. InHand \in SUBSET (Days \cup {Unset})
    BY <1>3, DayTypes DEF Types
  <2> QED
    BY <1>1, <1>3, <2>1, LeastDay, DayTypes DEF NextToPut, InHand, Types
<1>7. chunk[m] \in Blobs /\ InHand' = InHand \ {m}
  BY <1>2, <1>3, <1>6 DEF Types, InHand
<1>8. \A d \in Days : store'[d] = IF d = m THEN chunk[m] ELSE store[d]
  BY <1>2, <1>3 DEF Types
<1>9. \A d \in Days : Stored(d)' <=> Stored(d) \/ d = m
  BY <1>7, <1>8 DEF Stored, Blobs
<1>10. \A d \in InHand \ {m} : chunk'[d] = chunk[d]
  BY <1>2
<1>11. Types'
  <2>1. store' \in [Days -> Blobs \cup {"none"}]
    BY <1>2, <1>3, <1>7 DEF Types
  <2>2. chunk' \in [InHand' -> Blobs]
    BY <1>2, <1>3, <1>7 DEF Types
  <2> QED
    BY <1>2, <1>3, <1>7, <2>1, <2>2 DEF Types
<1>12. ReqOK' /\ Covered' = Covered
  BY <1>2, <1>4 DEF ReqOK, Covered
<1>13. RowOK'
  <2>1. Now = req.today /\ Now' = req.today /\ req.today \in Int
    BY <1>2, <1>4, DayTypes DEF Now, ReqOK
  <2> QED
    BY <1>2, <1>3, <1>9, <2>1, RowStays
<1>14. \A s \in Sessions : (Stored(s) \/ s \in InHand) => (Stored(s)' \/ s \in InHand')
  BY <1>7, <1>9, DayTypes
<1>15. \A s \in Sessions : Stored(s) => Stored(s)'
  BY <1>9, DayTypes
<1>16. p \notin {"sealed", "today", "live"} => p = "discovered"
  BY <1>5, <1>6 DEF Under, Form
<1>17. Form(p, W, L, R, f)'
  <2>1. p # "discovered" => InHand' \subseteq W /\ \A s \in W : Stored(s)' \/ s \in InHand'
    BY <1>5, <1>7, <1>14 DEF Under, Form
  <2>2. p = "discovered" =>
          /\ row'.first = Unset /\ Discoverable' # {}
          /\ InHand' \subseteq DiscoverDays'
          /\ \A s \in DiscoverDays' : Stored(s)' \/ s \in InHand'
    <3>1. ASSUME p = "discovered"
          PROVE  /\ row.first = Unset /\ Discoverable # {}
                 /\ InHand' \subseteq DiscoverDays
                 /\ \A s \in DiscoverDays : Stored(s)' \/ s \in InHand'
      <4>1. /\ row.first = Unset /\ Discoverable # {}
            /\ InHand \subseteq DiscoverDays
            /\ \A s \in DiscoverDays : Stored(s) \/ s \in InHand
        BY <1>5, <3>1 DEF Under, Form
      <4>2. DiscoverDays \subseteq Sessions
        BY <1>3, <1>4, <4>1, DiscoverFacts
      <4> QED
        BY <1>7, <1>14, <4>1, <4>2
    <3> QED
      BY <1>2, <3>1, PendingSame
  <2>3. p = "live" /\ W = {} /\ R = {} => row'.last = req'.today /\ Stored(req.today)'
    BY <1>5, <1>6 DEF Under, Form
  <2>4. row' = row /\ req' = req /\ WantsToday' = WantsToday
    BY <1>2, PendingSame
  <2>5. /\ p \notin {"sealed", "today", "live"} => W = {} /\ R = {}
        /\ p # "today" => L = {} /\ ~f
        /\ p = "sealed" => row.live # Unset /\ row.live < req.today
                            /\ W \subseteq {row.live} /\ R \subseteq {row.live}
        /\ p \notin {"seal", "sealed"} => row.live \in {Unset, req.today}
        /\ p = "live" => /\ WantsToday /\ W \subseteq {req.today} /\ R \subseteq {req.today}
                         /\ W = {} \/ R = {}
    BY <1>5 DEF Under, Form
  <2> QED
    BY <2>1, <2>2, <2>3, <2>4, <2>5 DEF Form
<1>18. Ranges(p, W, L, R, f)'
  BY <1>2, <1>5, PendingSame DEF Under, Ranges
<1>19. ~torn' => Whole(p, W, L, R)'
  <2>1. SUFFICES ASSUME ~torn' PROVE Whole(p, W, L, R)'
    OBVIOUS
  <2>2. Whole(p, W, L, R)
    BY <1>2, <1>5, <2>1 DEF Under
  <2>3. Covered \subseteq Sessions /\ tape \subseteq Sessions
    BY <1>3, DayTypes DEF Covered, SessionDays, Types
  <2>4. \A s \in Covered : Stored(s)' \/ s \in InHand' \cup L \cup R
    BY <1>14, <2>2, <2>3 DEF Whole
  <2>5. p \in {"today", "live", "load"} /\ req.from # Unset =>
          \A d \in tape : req.from <= d /\ d <= ClosedTo =>
             Stored(d)' \/ d \in InHand' \cup L \cup R
    BY <1>14, <2>2, <2>3 DEF Whole
  <2> QED
    BY <1>2, <1>12, <2>2, <2>4, <2>5, PendingSame DEF Whole
<1>20. aborts' = 0 => Uncut(p, W, L, R)'
  <2>1. SUFFICES ASSUME aborts' = 0 PROVE Uncut(p, W, L, R)'
    OBVIOUS
  <2>2. Uncut(p, W, L, R)
    BY <1>2, <1>5, <2>1 DEF Under
  <2>3. chunk[m] = FinalBlob(m) \/ (p = "live" /\ m = req.today)
    BY <1>6, <2>2 DEF Uncut
  <2>4. \A d \in Days : \/ store'[d] \in {"none", FinalBlob(d)}
                        \/ d = row.live \/ (p = "live" /\ d = req.today)
    BY <1>8, <2>2, <2>3 DEF Uncut
  <2>5. \A d \in InHand' : chunk'[d] = FinalBlob(d) \/ (p = "live" /\ d = req.today)
    BY <1>7, <1>10, <2>2 DEF Uncut
  <2>6. \A d \in Days : Stored(d)' =>
           d \in Covered \/ d = row.live \/ d \in W \/ (p = "discovered" /\ d \in DiscoverDays)
    <3>1. m \in W \/ (p = "discovered" /\ m \in DiscoverDays)
      BY <1>5, <1>6 DEF Under, Form
    <3> QED
      BY <1>9, <2>2, <3>1 DEF Uncut
  <2>7. p = "sealed" =>
          row.live \in R \/ row.live \in InHand' \/ store'[row.live] = FinalBlob(row.live)
    <3>1. SUFFICES ASSUME p = "sealed", row.live \notin R, row.live \notin InHand'
                   PROVE  store'[row.live] = FinalBlob(row.live)
      OBVIOUS
    <3>2. row.live \in Days
      BY <1>3, <1>5, <3>1, DayTypes DEF Under, Form, RowOK
    <3>3. CASE row.live = m
      BY <1>8, <2>3, <3>1, <3>2, <3>3
    <3>4. CASE row.live # m
      BY <1>7, <1>8, <2>2, <3>1, <3>2, <3>4 DEF Uncut
    <3> QED
      BY <3>3, <3>4
  <2>8. p = "today" => \A s \in L \cup R : ~Stored(s)'
    <3>1. SUFFICES ASSUME p = "today", NEW s \in L \cup R PROVE ~Stored(s)'
      OBVIOUS
    <3>2. m < s
      BY <1>5, <1>6, <3>1 DEF Under, Form, Ranges
    <3>3. s # m /\ s \in Days
      BY <1>6, <3>2, DayTypes
    <3> QED
      BY <1>9, <2>2, <3>1, <3>3 DEF Uncut
  <2>9. \A d : FinalBlob(d)' = FinalBlob(d)
    BY <1>2, PendingSame
  <2>10. DiscoverDays' = DiscoverDays
    BY <1>2, PendingSame
  <2>11. row' = row /\ req' = req
    BY <1>2
  <2>12. p # "live" => row.last < req.today
    BY <2>2 DEF Uncut
  <2> QED
    BY <1>12, <2>4, <2>5, <2>6, <2>7, <2>8, <2>9, <2>10, <2>11, <2>12 DEF Uncut
<1>21. Under(p, W, L, R, f)'
  <2>1. todo' = Pending(p, W, L, R, f)'
    BY <1>2, <1>5, PendingSame DEF Under
  <2> QED
    BY <1>17, <1>18, <1>19, <1>20, <2>1 DEF Under
<1>22. Busy'
  BY <1>12, <1>21 DEF Busy
<1> QED
  BY <1>2, <1>4, <1>11, <1>13, <1>22 DEF IInv

\* What covering a chunk does to the row.
LEMMA WidenedFacts ==
  ASSUME RowOK, NEW W \in SUBSET Sessions, W # {}, NEW r, r = Widened(W)
  PROVE  /\ LET day == Days \cup {Unset} IN r \in [first : day, last : day, live : day]
         /\ r.live = row.live
         /\ r.first \in W \/ (row.first # Unset /\ r.first = row.first)
         /\ \A s \in W : r.first <= s
         /\ row.first # Unset => r.first <= row.first
         /\ r.last \in W \/ (row.last # Unset /\ r.last = row.last)
         /\ \A s \in W : s <= r.last
         /\ row.last <= r.last
<1> DEFINE A == W \cup ({row.first} \ {Unset})
           B == W \cup {row.last}
           a == Min(A)
           b == Max(B)
<1>1. /\ row.first \in Days \cup {Unset} /\ row.last \in Days \cup {Unset}
      /\ row.live \in Days \cup {Unset}
      /\ row = [first |-> row.first, last |-> row.last, live |-> row.live]
  BY DEF RowOK
<1>2. A \in SUBSET (Days \cup {Unset}) /\ A # {} /\ B \in SUBSET (Days \cup {Unset}) /\ B # {}
  BY <1>1, DayTypes
<1>3. a \in A /\ \A y \in A : a <= y
  BY <1>2, LeastDay
<1>4. b \in B /\ \A y \in B : y <= b
  BY <1>2, GreatestDay
<1>5. r = [first |-> a, last |-> b, live |-> row.live]
  BY <1>1 DEF Widened
<1> HIDE DEF a, b
<1>6. r.first = a /\ r.last = b /\ r.live = row.live
  BY <1>5
<1>7. a \in Days \cup {Unset} /\ b \in Days \cup {Unset}
  BY <1>2, <1>3, <1>4
<1>8. LET day == Days \cup {Unset} IN r \in [first : day, last : day, live : day]
  BY <1>1, <1>5, <1>7
<1>9. b \in W \/ (row.last # Unset /\ b = row.last)
  <2>1. PICK w \in W : TRUE
    OBVIOUS
  <2>2. w <= b /\ w \in Int /\ w >= 1
    BY <1>4, DayTypes
  <2>3. b # Unset
    BY <2>2, DayTypes
  <2> QED
    BY <1>4, <2>3
<1> QED
  BY <1>3, <1>4, <1>6, <1>8, <1>9

LEMMA CoverChunkStep ==
  ASSUME IInv, CoverChunk
  PROVE  IInv'
<1>1. /\ todo # <<>> /\ chunk = NoBlobs /\ Head(todo).op = "cover"
      /\ row' = Widened(Head(todo).days) /\ todo' = <<>> \o Tail(todo)
      /\ UNCHANGED <<clock, tape, store, req, chunk, aborts, torn>>
  BY DEF CoverChunk, Doing, Then
<1>2. Types /\ RowOK /\ ReqOK /\ InHand = {}
  BY <1>1, ChunkType DEF IInv, Busy
<1>3. PICK p \in Phases, W \in SUBSET Sessions, L \in SUBSET Sessions, R \in SUBSET Sessions,
           f \in BOOLEAN : Under(p, W, L, R, f)
  BY <1>1 DEF IInv, Busy
<1>4. PhaseCall(p) \in Calls /\ todo = Pending(p, W, L, R, f)
  BY <1>2, <1>3, PhaseType DEF Under, Form
<1>5. W # {}
  <2>1. PhaseCall(p) \in Calls
    BY <1>4
  <2>2. Head(Pending(p, W, L, R, f)).op = "cover"
    BY <1>1, <1>4
  <2> QED
    BY <2>1, <2>2, PendingHead DEF Phases
<1>6. Head(todo).days = W /\ todo' = Pending(p, {}, L, R, f)
  <2>1. PhaseCall(p) \in Calls /\ W # {}
    BY <1>4, <1>5
  <2>2. Head(Pending(p, W, L, R, f)).days = W
    <3>1. \A D \in SUBSET Sessions : D # {} => Head(Pending(p, D, L, R, f)).days = D
      BY <2>1, PendingCover
    <3> QED
      BY <2>1, <3>1
  <2>3. <<>> \o Tail(Pending(p, W, L, R, f)) = Pending(p, {}, L, R, f)
    <3>1. \A D \in SUBSET Sessions :
            D # {} => <<>> \o Tail(Pending(p, D, L, R, f)) = Pending(p, {}, L, R, f)
      BY <2>1, PendingCover
    <3> QED
      BY <2>1, <3>1
  <2>4. todo = Pending(p, W, L, R, f) /\ todo' = <<>> \o Tail(todo)
    BY <1>1, <1>4
  <2> QED
    BY <2>2, <2>3, <2>4
<1>7. todo' # <<>>
  BY <1>4, <1>6, PendingType
<1>8. PICK a, b : a = row'.first /\ b = row'.last
  OBVIOUS
<1>9. /\ LET day == Days \cup {Unset} IN row' \in [first : day, last : day, live : day]
      /\ row'.live = row.live
      /\ a \in W \/ (row.first # Unset /\ a = row.first)
      /\ \A s \in W : a <= s
      /\ row.first # Unset => a <= row.first
      /\ b \in W \/ (row.last # Unset /\ b = row.last)
      /\ \A s \in W : s <= b
      /\ row.last <= b
  BY <1>1, <1>2, <1>5, <1>6, <1>8, WidenedFacts
<1>10. /\ row.first \in Int /\ row.last \in Int /\ row.live \in Int /\ req.today \in Int
       /\ a \in Int /\ b \in Int
       /\ ClosedTo \in Int /\ ClosedTo < req.today
       /\ \A s \in Sessions : s \in Int /\ s # Unset
  BY <1>2, <1>8, <1>9, ClosedFacts, DayTypes DEF RowOK, ReqOK
<1>11. a # Unset /\ b # Unset /\ a \in Sessions
  BY <1>2, <1>9, DayTypes DEF RowOK
<1>12. /\ p \in {"sealed", "today", "live"}
       /\ \A s \in W : Stored(s)
       /\ p = "sealed" => row.live # Unset /\ row.live < req.today /\ W = {row.live} /\ L = {}
       /\ p = "live" => /\ WantsToday /\ W = {req.today} /\ R = {} /\ L = {}
                        /\ row.live \in {Unset, req.today}
       /\ p = "today" => row.live \in {Unset, req.today} /\ \A s \in W : s <= ClosedTo
  BY <1>2, <1>3, <1>5 DEF Under, Form, Ranges
<1>13. Types' /\ ReqOK' /\ InHand' = {} /\ ClosedTo' = ClosedTo
  BY <1>1, <1>2, PendingSame DEF Types, ReqOK, InHand
<1>14. /\ row.first <= req.today /\ row.last <= req.today /\ row.live <= req.today
       /\ row.first # Unset => Stored(row.first) /\ row.first \in Sessions
       /\ row.first = Unset <=> row.last = Unset
       /\ row.first # Unset => \A s \in Sessions : ~(row.last < s /\ s < row.first)
       /\ row.live # Unset =>
            /\ row.first # Unset /\ row.live \in Sessions /\ Stored(row.live)
            /\ row.first <= row.live /\ row.last <= row.live
            /\ \A s \in Sessions : s < row.live => s <= row.last
  BY <1>1, <1>2 DEF RowOK, Now
<1>15. \A s \in W : s <= req.today /\ (row.live # Unset => s <= row.live)
  BY <1>10, <1>12, <1>14
<1>16. PICK w \in W : TRUE
  BY <1>5
<1>17. a <= w /\ w <= b /\ w \in Int
  BY <1>9, <1>10
<1>18. RowOK'
  <2>1. Now' = req.today
    BY <1>1, <1>7 DEF Now
  <2>2. a <= req.today /\ b <= req.today
    BY <1>9, <1>10, <1>14, <1>15
  <2>3. Stored(a)
    BY <1>9, <1>12, <1>14
  <2>4. \A s \in Sessions : ~(b < s /\ s < a)
    BY <1>10, <1>17
  <2>5. row.live # Unset =>
          /\ a <= row.live /\ b <= row.live
          /\ \A s \in Sessions : s < row.live => s <= b
    BY <1>9, <1>10, <1>14, <1>15
  <2>6. \A d : Stored(d)' = Stored(d)
    BY <1>1 DEF Stored
  <2> QED
    BY <1>8, <1>9, <1>11, <1>14, <2>1, <2>2, <2>3, <2>4, <2>5, <2>6 DEF RowOK
<1>19. /\ \A s \in Sessions : s \in Covered' <=> a <= s /\ s <= b
       /\ \A s \in Sessions : s \in Covered
             <=> row.first # Unset /\ row.first <= s /\ s <= row.last
       /\ \A s \in Covered' : s \in Sessions
       /\ \A s \in Covered : s \in Sessions
  BY <1>8, <1>11, <1>14 DEF Covered, SessionDays
<1>20. /\ \A s \in Covered : s \in Covered'
       /\ \A s \in W : s \in Covered'
  BY <1>9, <1>10, <1>19
<1>21. Form(p, {}, L, R, f)'
  <2>1. p = "live" => b = req.today /\ Stored(req.today)
    BY <1>9, <1>10, <1>12, <1>14
  <2>2. \A d : Stored(d)' = Stored(d)
    BY <1>1 DEF Stored
  <2>3. row'.live = row.live /\ row'.last = b /\ req' = req /\ WantsToday' = WantsToday
    BY <1>1, <1>8, <1>9, PendingSame
  <2>4. /\ p # "today" => L = {} /\ ~f
        /\ p = "sealed" => R \subseteq {row.live}
    BY <1>3 DEF Under, Form
  <2> QED
    BY <1>12, <1>13, <2>1, <2>2, <2>3, <2>4 DEF Form
<1>22. Ranges(p, {}, L, R, f)'
  <2>1. SUFFICES ASSUME p = "today" PROVE Ranges(p, {}, L, R, f)'
    BY DEF Ranges
  <2>2. /\ \A s \in W \cup L \cup R : s <= ClosedTo
        /\ \A s \in W : \A e \in L \cup R : s < e
        /\ \A s \in L : \A e \in R : s < e
        /\ f => L = {} /\ row.first <= row.last
        /\ row.first # Unset => \A s \in R : row.last < s
    BY <1>3, <2>1 DEF Under, Ranges
  <2>3. f => L = {} /\ a <= b
    BY <1>10, <1>17, <2>2
  <2>4. \A s \in R : b < s
    BY <1>9, <1>10, <1>14, <2>2
  <2>5. \A e \in L : \A s \in Sessions : ~(e <= s /\ s < a)
    <3>1. \A e \in L : w < e /\ e \in Int
      BY <1>10, <2>2
    <3> QED
      BY <1>10, <1>17, <3>1
  <2>6. row'.first = a /\ row'.last = b
    BY <1>8
  <2> QED
    BY <1>11, <1>13, <2>2, <2>3, <2>4, <2>5, <2>6 DEF Ranges
<1>23. ~torn' => Whole(p, {}, L, R)'
  <2>1. SUFFICES ASSUME ~torn' PROVE Whole(p, {}, L, R)'
    OBVIOUS
  <2>2. ~torn /\ Whole(p, W, L, R)
    BY <1>1, <1>3, <2>1 DEF Under
  <2>3. \A s \in Covered : Stored(s) \/ s \in L \cup R
    BY <1>2, <2>2 DEF Whole
  <2>4. /\ \A s \in Covered' : Stored(s) \/ s \in L \cup R
        /\ p \in {"today", "live"} =>
             \A s \in Sessions : b < s /\ s <= ClosedTo => p = "today" /\ s \in R
    <3>1. CASE p = "sealed"
      <4>1. ASSUME NEW s \in Covered' PROVE Stored(s) \/ s \in L \cup R
        <5>1. s \in Sessions /\ a <= s /\ s <= b
          BY <1>19
        <5>2. s <= row.live /\ row.first <= s
          BY <1>9, <1>10, <1>12, <1>14, <3>1, <5>1
        <5>3. s = row.live \/ s <= row.last
          BY <1>10, <1>12, <1>14, <3>1, <5>1, <5>2
        <5> QED
          BY <1>12, <1>14, <1>19, <2>3, <3>1, <5>1, <5>2, <5>3
      <4> QED
        BY <3>1, <4>1
    <3>2. CASE p = "live"
      <4>1. row.first # Unset => \A s \in Sessions : ~(row.last < s /\ s <= ClosedTo)
        BY <2>2, <3>2 DEF Whole
      <4>2. \A s \in Sessions : s < req.today => s <= ClosedTo
        BY <1>2, <1>12, <3>2, ClosedFacts DEF WantsToday
      <4>3. b = req.today
        BY <1>9, <1>10, <1>12, <1>14, <3>2
      <4>4. ASSUME NEW s \in Covered' PROVE Stored(s) \/ s \in L \cup R
        <5>1. s \in Sessions /\ a <= s /\ s <= req.today
          BY <1>19, <4>3
        <5>2. CASE s = req.today
          BY <1>12, <3>2, <5>2
        <5>3. CASE s < req.today
          <6>1. a # req.today
            BY <1>10, <5>1, <5>3
          <6>2. row.first # Unset /\ a = row.first
            BY <1>9, <1>12, <3>2, <6>1
          <6>3. s <= row.last
            BY <1>10, <4>1, <4>2, <5>1, <5>3, <6>2
          <6> QED
            BY <1>19, <2>3, <5>1, <6>2, <6>3
        <5> QED
          BY <1>10, <5>1, <5>2, <5>3
      <4>5. \A s \in Sessions : ~(b < s /\ s <= ClosedTo)
        BY <1>10, <4>3
      <4> QED
        BY <4>4, <4>5
    <3>3. CASE p = "today"
      <4>1. /\ \A s \in W \cup L \cup R : s <= ClosedTo
            /\ row.first = Unset => \A e \in W \cup R : SessionDays(e, ClosedTo) \subseteq W \cup R
            /\ row.first # Unset =>
                 \A e \in W \cup L : \A s \in Sessions : e <= s /\ s < row.first => s \in W \cup L
        BY <1>3, <2>2, <3>3 DEF Under, Ranges
      <4>2. row.first # Unset =>
              \A s \in Sessions : row.last < s /\ s <= ClosedTo => s \in W \cup R
        BY <2>2, <3>3 DEF Whole
      <4>3. \A s \in Sessions : a <= s /\ (s <= b \/ s <= ClosedTo) =>
               s \in W \cup L \cup R \/ (row.first # Unset /\ row.first <= s /\ s <= row.last)
        <5>1. SUFFICES ASSUME NEW s \in Sessions, a <= s, s <= b \/ s <= ClosedTo
                       PROVE  s \in W \cup L \cup R
                              \/ (row.first # Unset /\ row.first <= s /\ s <= row.last)
          OBVIOUS
        <5>2. CASE row.first = Unset
          <6>1. a \in W /\ b \in W
            BY <1>9, <1>14, <5>2
          <6>2. s <= ClosedTo
            BY <1>10, <4>1, <5>1, <6>1
          <6>3. s \in SessionDays(a, ClosedTo)
            BY <5>1, <6>2 DEF SessionDays
          <6> QED
            BY <4>1, <5>2, <6>1, <6>3
        <5>3. CASE row.first # Unset /\ s < row.first
          <6>1. a \in W
            BY <1>9, <1>10, <5>1, <5>3
          <6> QED
            BY <4>1, <5>1, <5>3, <6>1
        <5>4. CASE row.first # Unset /\ row.last < s
          <6>1. s <= ClosedTo
            BY <1>9, <1>10, <4>1, <5>1, <5>4
          <6> QED
            BY <4>2, <5>4, <6>1
        <5>5. CASE row.first # Unset /\ row.first <= s /\ s <= row.last
          BY <5>5
        <5> QED
          BY <1>10, <5>2, <5>3, <5>4, <5>5
      <4>4. ASSUME NEW s \in Covered' PROVE Stored(s) \/ s \in L \cup R
        BY <1>12, <1>19, <2>3, <4>3
      <4>5. ASSUME NEW s \in Sessions, b < s, s <= ClosedTo PROVE s \in R
        <5>1. s \notin W /\ s \notin Covered'
          BY <1>9, <1>10, <1>19, <4>5
        <5>2. row.last < s
          BY <1>9, <1>10, <4>5
        <5>3. CASE row.first # Unset
          BY <4>2, <4>5, <5>1, <5>2, <5>3
        <5>4. CASE row.first = Unset
          <6>1. a \in W /\ a <= s
            BY <1>9, <1>10, <1>17, <4>5, <5>4
          <6>2. s \in SessionDays(a, ClosedTo)
            BY <4>5, <6>1 DEF SessionDays
          <6> QED
            BY <4>1, <5>1, <5>4, <6>1, <6>2
        <5> QED
          BY <5>3, <5>4
      <4> QED
        BY <3>3, <4>4, <4>5
    <3> QED
      BY <1>12, <3>1, <3>2, <3>3
  <2>5. p \in {"today", "live"} /\ req.from # Unset =>
          \A d \in tape : req.from <= d /\ d <= ClosedTo => Stored(d) \/ d \in L \cup R
    BY <1>2, <2>2 DEF Whole
  <2>6. /\ \A d : Stored(d)' = Stored(d)
        /\ req' = req /\ tape' = tape /\ row'.first # Unset /\ row'.last = b
    BY <1>1, <1>8, <1>11 DEF Stored
  <2>7. /\ \A s \in Covered' : Stored(s)' \/ s \in InHand' \cup L \cup R
        /\ p # "load"
    BY <1>12, <2>4, <2>6
  <2>8. p \in {"today", "live"} =>
          \A s \in Sessions : row'.last < s /\ s <= ClosedTo' => p = "today" /\ s \in {} \cup R
    BY <1>13, <2>4, <2>6
  <2>9. p \in {"today", "live"} /\ req'.from # Unset =>
          \A d \in tape' : req'.from <= d /\ d <= ClosedTo' => Stored(d)' \/ d \in InHand' \cup L \cup R
    BY <1>13, <2>5, <2>6
  <2> QED
    BY <2>6, <2>7, <2>8, <2>9 DEF Whole
<1>24. aborts' = 0 => Uncut(p, {}, L, R)'
  <2>1. SUFFICES ASSUME aborts' = 0 PROVE Uncut(p, {}, L, R)'
    OBVIOUS
  <2>2. Uncut(p, W, L, R)
    BY <1>1, <1>3, <2>1 DEF Under
  <2>3. p # "live" => b < req.today
    <3>1. p # "live" => row.last < req.today
      BY <2>2 DEF Uncut
    <3>2. p # "live" => \A s \in W : s < req.today
      BY <1>10, <1>12
    <3> QED
      BY <1>9, <3>1, <3>2
  <2>4. \A d \in Days : Stored(d) => d \in Covered' \/ d = row.live
    BY <1>12, <1>20, <2>2 DEF Uncut
  <2>5. p = "sealed" => row.live \in R \/ store[row.live] = FinalBlob(row.live)
    BY <1>2, <2>2 DEF Uncut
  <2>6. p = "today" => \A s \in L \cup R : ~Stored(s)
    BY <2>2 DEF Uncut
  <2>7. /\ \A d : Stored(d)' = Stored(d) /\ FinalBlob(d)' = FinalBlob(d)
        /\ req' = req /\ row'.live = row.live /\ row'.last = b /\ store' = store
    BY <1>1, <1>8, <1>9, PendingSame DEF Stored
  <2>8. \A d \in Days : \/ store[d] \in {"none", FinalBlob(d)}
                        \/ d = row.live \/ (p = "live" /\ d = req.today)
    BY <2>2 DEF Uncut
  <2> QED
    BY <1>13, <2>3, <2>4, <2>5, <2>6, <2>7, <2>8 DEF Uncut
<1>25. Under(p, {}, L, R, f)'
  <2>1. todo' = Pending(p, {}, L, R, f)'
    BY <1>1, <1>6, PendingSame
  <2> QED
    BY <1>21, <1>22, <1>23, <1>24, <2>1 DEF Under
<1>26. Busy'
  <2>1. {} \in SUBSET Sessions
    OBVIOUS
  <2> QED
    BY <1>13, <1>25, <2>1 DEF Busy
<1> QED
  BY <1>7, <1>13, <1>18, <1>26 DEF IInv

\* A chunk that was fetched: its days, what is written of them, and the tear
\* when days inside of the range are skipped.
Fetched(X, days, w) ==
  /\ days \in SUBSET X /\ days # {} /\ w \in SUBSET days
  /\ \A d \in days : \A e \in X \ days : d < e
  /\ \A d \in w, e \in days : d <= e => e \in w
  /\ InHand' = w /\ chunk' \in [w -> Blobs]
  /\ \A d \in w : chunk'[d] \in VendorBlobs(d)
  /\ \A d \in days \ w : "empty" \in VendorBlobs(d)
  /\ torn' = (torn \/ SkipsInside(days \ w))

\* A fetch takes its first chunk off the days to the left, or when there are
\* none off those to the right.
LEMMA FetchSplit ==
  ASSUME IInv, FetchChunk
  PROVE  /\ UNCHANGED <<clock, tape, store, row, req, aborts>>
         /\ Types /\ RowOK /\ ReqOK /\ InHand = {} /\ todo # <<>> /\ todo' # <<>>
         /\ \E p \in Phases, L \in SUBSET Sessions, R \in SUBSET Sessions, f \in BOOLEAN,
               days \in SUBSET Sessions, w \in SUBSET Sessions :
              /\ Under(p, {}, L, R, f)
              /\ \/ L # {} /\ Fetched(L, days, w) /\ todo' = Pending(p, w, L \ days, R, f)
                 \/ /\ L = {} /\ Fetched(R, days, w) /\ todo' = Pending(p, w, {}, R \ days, f)
                    /\ ~f => w = days
<1>1. /\ todo # <<>> /\ chunk = NoBlobs /\ Head(todo).op = "fetch"
      /\ UNCHANGED <<clock, tape, store, row, req, aborts>>
  BY DEF FetchChunk, Doing
<1>2. Types /\ RowOK /\ ReqOK /\ InHand = {}
  BY <1>1, ChunkType DEF IInv, Busy
<1>3. PICK p \in Phases, W \in SUBSET Sessions, L \in SUBSET Sessions, R \in SUBSET Sessions,
           f \in BOOLEAN : Under(p, W, L, R, f)
  BY <1>1 DEF IInv, Busy
<1>4. PhaseCall(p) \in Calls
  BY <1>2, <1>3, PhaseType DEF Under, Form
<1>5. W = {} /\ (L # {} \/ R # {})
  <2>1. todo = Pending(p, W, L, R, f)
    BY <1>3 DEF Under
  <2>2. Head(Pending(p, W, L, R, f)).op = "fetch"
    BY <1>1, <2>1
  <2>3. Head(Pending(p, W, L, R, f)).op = "fetch" => W = {} /\ (L # {} \/ R # {})
    BY <1>4, PendingHead
  <2> QED
    BY <2>2, <2>3
<1>6. Under(p, {}, L, R, f) /\ todo = Pending(p, {}, L, R, f)
  BY <1>3, <1>5 DEF Under
<1>7. PICK X, left, days : X = FirstDays(todo) /\ left = FirstLeft(todo) /\ days = FirstChunk(X)
  OBVIOUS
<1>8. PICK blobs \in [days -> Blobs] :
        /\ \A d \in days : blobs[d] \in VendorBlobs(d)
        /\ chunk' = [d \in ToWrite(days, blobs, left) |-> blobs[d]]
        /\ todo' = Leaving(ToWrite(days, blobs, left), X \ days, left, todo)
        /\ torn' = (torn \/ SkipsInside(days \ ToWrite(days, blobs, left)))
  BY <1>7 DEF FetchChunk, Then, OtherChunks, FirstDays, FirstLeft, Leaving
<1>9. PICK w : w = ToWrite(days, blobs, left)
  OBVIOUS
<1>10. ASSUME X \in SUBSET Sessions, X # {}, left \in BOOLEAN
       PROVE  Fetched(X, days, w) /\ days \in SUBSET Sessions /\ w \in SUBSET Sessions
              /\ (~left => w = days)
  <2>1. X \in SUBSET Days
    BY <1>10, DayTypes
  <2>2. days \in SUBSET X /\ days # {} /\ \A d \in days : \A e \in X \ days : d < e
    BY <1>7, <1>10, <2>1, ChunkOfDays
  <2>3. days \in SUBSET Days
    BY <2>1, <2>2
  <2>4. /\ w \subseteq days /\ (~left => w = days)
        /\ \A d \in w, e \in days : d <= e => e \in w
        /\ \A d \in days \ w : blobs[d] = "empty"
    BY <1>9, <1>10, <2>3, WrittenOfChunk
  <2>5. chunk' = [d \in w |-> blobs[d]]
    BY <1>8, <1>9
  <2>6. InHand' = w /\ chunk' \in [w -> Blobs] /\ \A d \in w : chunk'[d] \in VendorBlobs(d)
    BY <1>8, <2>4, <2>5 DEF InHand
  <2>7. \A d \in days \ w : "empty" \in VendorBlobs(d)
    BY <1>8, <2>4
  <2> QED
    BY <1>8, <1>9, <1>10, <2>2, <2>4, <2>6, <2>7 DEF Fetched
<1>11. CASE L # {}
  <2>1. X = L /\ left = TRUE
    <3>0. L \in DaySets /\ R \in DaySets
      BY DEF DaySets
    <3>1. FirstDays(Pending(p, {}, L, R, f)) = L
      BY <1>4, <1>11, <3>0, PendingLeft
    <3>2. FirstLeft(Pending(p, {}, L, R, f)) = TRUE
      BY <1>4, <1>11, <3>0, PendingLeft
    <3> QED
      BY <1>6, <1>7, <1>11, <3>1, <3>2
  <2>2. Fetched(X, days, w) /\ days \in SUBSET Sessions /\ w \in SUBSET Sessions
    BY <1>10, <1>11, <2>1
  <2>3. LeavingLeft(w, L \ days, Pending(p, {}, L, R, f))
           = Pending(p, w, L \ days, R, f)
    <3>0. PICK B : B = L \ days
      OBVIOUS
    <3>00. L \in DaySets /\ R \in DaySets /\ w \in DaySets /\ B \in DaySets
      BY <2>2, <3>0 DEF DaySets
    <3>1. LeavingLeft(w, B, Pending(p, {}, L, R, f)) = Pending(p, w, B, R, f)
      BY <1>4, <1>11, <3>00, LeftLeaves
    <3> QED
      BY <3>0, <3>1
  <2>4. todo' = Pending(p, w, L \ days, R, f)
    <3>1. todo' = LeavingLeft(w, L \ days, todo)
      BY <1>8, <1>9, <2>1 DEF Leaving, LeavingLeft
    <3> QED
      BY <1>6, <2>3, <3>1
  <2>5. L \ days \in SUBSET Sessions
    OBVIOUS
  <2>6. todo' # <<>>
    BY <1>4, <2>2, <2>4, <2>5, PendingType
  <2> QED
    BY <1>1, <1>2, <1>6, <1>11, <2>1, <2>2, <2>4, <2>6
<1>12. CASE L = {}
  <2>1. X = R /\ left = f /\ R # {}
    <3>2. R # {}
      BY <1>5, <1>12
    <3>3. FirstDays(Pending(p, {}, {}, R, f)) = R
      BY <1>4, <3>2, PendingRight
    <3>4. FirstLeft(Pending(p, {}, {}, R, f)) = f
      BY <1>4, <3>2, PendingRight
    <3> QED
      BY <1>6, <1>7, <1>12, <3>2, <3>3, <3>4
  <2>2. Fetched(X, days, w) /\ days \in SUBSET Sessions /\ w \in SUBSET Sessions
        /\ (~left => w = days)
    BY <1>10, <1>12, <2>1
  <2>3. Leaving(w, R \ days, f, Pending(p, {}, {}, R, f))
           = Pending(p, w, {}, R \ days, f)
    <3>1. \A A, B \in SUBSET Sessions :
             Leaving(A, B, f, Pending(p, {}, {}, R, f))
               = Pending(p, A, {}, B, f)
      BY <1>4, <2>1, PendingRight
    <3>2. R \ days \in SUBSET Sessions
      OBVIOUS
    <3> QED
      BY <2>2, <3>1, <3>2
  <2>4. todo' = Pending(p, w, {}, R \ days, f)
    BY <1>6, <1>8, <1>9, <1>12, <2>1, <2>3
  <2>5. R \ days \in SUBSET Sessions /\ {} \in SUBSET Sessions
    OBVIOUS
  <2>6. todo' # <<>>
    BY <1>4, <2>2, <2>4, <2>5, PendingType
  <2> QED
    BY <1>1, <1>2, <1>6, <1>12, <2>1, <2>2, <2>4, <2>6
<1> QED
  BY <1>11, <1>12

\* A chunk that was fetched leaves the request in its form.
LEMMA FetchKeeps ==
  ASSUME Types, RowOK, ReqOK, InHand = {}, todo # <<>>,
         UNCHANGED <<clock, tape, store, row, req, aborts>>,
         NEW p \in Phases, NEW L \in SUBSET Sessions, NEW R \in SUBSET Sessions,
         NEW f \in BOOLEAN, NEW X \in SUBSET Sessions, NEW days, NEW w,
         NEW L2 \in SUBSET Sessions, NEW R2 \in SUBSET Sessions,
         Under(p, {}, L, R, f), Fetched(X, days, w), todo' = Pending(p, w, L2, R2, f),
         \/ X = L /\ L2 = L \ days /\ R2 = R
         \/ X = R /\ L = {} /\ L2 = {} /\ R2 = R \ days /\ (~f => w = days)
  PROVE  Under(p, w, L2, R2, f)'
<1>1. /\ days \in SUBSET X /\ days # {} /\ w \in SUBSET days
      /\ \A d \in days : \A e \in X \ days : d < e
      /\ \A d \in w, e \in days : d <= e => e \in w
      /\ InHand' = w /\ chunk' \in [w -> Blobs]
      /\ \A d \in w : chunk'[d] \in VendorBlobs(d)
      /\ \A d \in days \ w : "empty" \in VendorBlobs(d)
      /\ torn' = (torn \/ SkipsInside(days \ w))
  BY DEF Fetched
<1>2. /\ row.first \in Int /\ row.last \in Int /\ row.live \in Int /\ req.today \in Int
      /\ ClosedTo \in Int /\ ClosedTo < req.today /\ req.today <= clock /\ clock \in Int
      /\ \A s \in Sessions : s \in Int /\ s # Unset
  BY ClosedFacts, DayTypes DEF RowOK, ReqOK, Types
<1>3. Form(p, {}, L, R, f) /\ Ranges(p, {}, L, R, f)
  BY DEF Under
<1>4. p \in {"sealed", "today", "live"}
  BY <1>1, <1>3 DEF Form
<1>5. p # "today" => L = {} /\ ~f /\ X = R /\ w = days /\ L2 = {} /\ R = w \cup R2
  BY <1>1, <1>3 DEF Form
<1>6. /\ \A s \in L \cup R : s \in L2 \cup R2 \cup w \/ s \in days \ w
      /\ L2 \subseteq L /\ R2 \subseteq R /\ w \subseteq L \cup R
      /\ days \subseteq L \cup R
  BY <1>1
<1>7. /\ clock' = clock /\ tape' = tape /\ store' = store /\ row' = row /\ req' = req
      /\ aborts' = aborts
  OBVIOUS
<1>8. \A d : Stored(d)' = Stored(d)
  BY <1>7 DEF Stored
<1>9. /\ ClosedTo' = ClosedTo /\ Discoverable' = Discoverable /\ DiscoverDays' = DiscoverDays
      /\ WantsToday' = WantsToday /\ \A d : FinalBlob(d)' = FinalBlob(d)
      /\ Pending(p, w, L2, R2, f)' = Pending(p, w, L2, R2, f)
  BY <1>7, PendingSame
<1>10. Covered' = Covered
  BY <1>7 DEF Covered, SessionDays
<1>11. \A d \in tape : d < clock => "empty" \notin VendorBlobs(d)
  BY DEF VendorBlobs
<1>12. \A d : d < clock => VendorBlobs(d) = {FinalBlob(d)}
  BY DEF VendorBlobs, FinalBlob
<1>13. Form(p, w, L2, R2, f)'
  <2>1. p = "sealed" => w \subseteq {row.live} /\ R2 \subseteq {row.live}
                        /\ row.live # Unset /\ row.live < req.today
    BY <1>3, <1>5, <1>6 DEF Form
  <2>2. p = "live" => /\ w \subseteq {req.today} /\ R2 \subseteq {req.today}
                      /\ R2 = {} /\ w # {} /\ WantsToday
    <3>1. SUFFICES ASSUME p = "live" PROVE w = {req.today} /\ R2 = {} /\ WantsToday
      OBVIOUS
    <3>2. R \subseteq {req.today} /\ WantsToday
      BY <1>3, <3>1 DEF Form
    <3>3. X = R /\ w = days /\ R2 = R \ days
      BY <1>5, <3>1, <1>1
    <3> QED
      BY <1>1, <3>2, <3>3
  <2>3. p # "sealed" => row.live \in {Unset, req.today}
    BY <1>3, <1>4 DEF Form
  <2> QED
    BY <1>1, <1>4, <1>5, <1>7, <1>8, <1>9, <2>1, <2>2, <2>3 DEF Form
<1>14. Ranges(p, w, L2, R2, f)'
  <2>1. SUFFICES ASSUME p = "today" PROVE Ranges(p, w, L2, R2, f)'
    BY DEF Ranges
  <2>2. /\ \A s \in L \cup R : s <= ClosedTo
        /\ \A s \in L : \A e \in R : s < e
        /\ f => L = {} /\ row.first <= row.last
        /\ row.first = Unset => L = {} /\ (f \/ R = {})
        /\ row.first # Unset => \A s \in R : row.last < s
        /\ row.first = Unset => \A e \in R : SessionDays(e, ClosedTo) \subseteq R
        /\ ~torn /\ row.first # Unset =>
             \A e \in L : \A s \in Sessions : e <= s /\ s < row.first => s \in L
    BY <1>3, <2>1 DEF Ranges
  <2>3. \A s \in w \cup L2 \cup R2 : s <= ClosedTo
    BY <1>6, <2>2
  <2>4. \A s \in w : \A e \in L2 \cup R2 : s < e
    BY <1>1, <2>2
  <2>5. \A s \in L2 : \A e \in R2 : s < e
    BY <1>6, <2>2
  <2>6. f => L2 = {} /\ row.first <= row.last
    BY <1>6, <2>2
  <2>7. row.first = Unset => L2 = {} /\ f
    BY <1>1, <1>6, <2>2
  <2>8. row.first # Unset => \A s \in R2 : row.last < s
    BY <1>6, <2>2
  <2>9. \A e \in w \cup (X \ days), s \in X : e <= s => s \in w \cup (X \ days)
    <3>1. ASSUME NEW e \in w \cup (X \ days), NEW s \in days, e <= s PROVE s \in w
      <4>1. e \in Int /\ s \in Int
        BY <1>1, <1>2
      <4> QED
        BY <1>1, <3>1, <4>1
    <3> QED
      BY <3>1
  <2>10. row.first = Unset => \A e \in w \cup R2 : SessionDays(e, ClosedTo) \subseteq w \cup R2
    <3>1. SUFFICES ASSUME row.first = Unset, NEW e \in w \cup R2,
                          NEW s \in SessionDays(e, ClosedTo)
                   PROVE  s \in w \cup R2
      OBVIOUS
    <3>2. X = R /\ R2 = R \ days
      BY <1>1, <2>2, <3>1
    <3>3. e \in R /\ s \in R
      BY <1>1, <2>2, <3>1, <3>2
    <3>4. e <= s
      BY DEF SessionDays
    <3> QED
      BY <2>9, <3>2, <3>3, <3>4
  <2>11. ~torn' /\ row.first # Unset =>
           \A e \in w \cup L2 : \A s \in Sessions : e <= s /\ s < row.first => s \in w \cup L2
    <3>1. SUFFICES ASSUME ~torn, row.first # Unset, NEW e \in w \cup L2, NEW s \in Sessions,
                          e <= s, s < row.first
                   PROVE  s \in w \cup L2
      BY <1>1
    <3>2. CASE X = L /\ L2 = L \ days
      BY <1>1, <2>2, <2>9, <3>1, <3>2
    <3>3. CASE X = R /\ L2 = {}
      <4>1. e \in R /\ row.last < e /\ e \in Int
        BY <1>1, <1>2, <2>2, <3>1, <3>3
      <4>2. row.last < s
        BY <1>2, <3>1, <4>1
      <4> QED
        BY <3>1, <4>2 DEF RowOK
    <3> QED
      BY <3>2, <3>3
  <2> QED
    BY <1>7, <1>9, <2>3, <2>4, <2>5, <2>6, <2>7, <2>8, <2>10, <2>11 DEF Ranges, SessionDays
<1>15. ~torn' => Whole(p, w, L2, R2)'
  <2>1. SUFFICES ASSUME ~torn' PROVE Whole(p, w, L2, R2)'
    OBVIOUS
  <2>2. ~torn /\ ~SkipsInside(days \ w)
    BY <1>1, <2>1
  <2>3. Whole(p, {}, L, R)
    BY <2>2 DEF Under
  <2>4. row.first # Unset => \A d \in days \ w : ~(row.first < d)
    BY <2>2 DEF SkipsInside
  <2>5. ASSUME NEW s \in Covered PROVE Stored(s) \/ s \in w \cup L2 \cup R2
    <3>1. Stored(s) \/ s \in L \cup R
      BY <2>3 DEF Whole
    <3>2. CASE s \in days \ w
      <4>1. s \in Sessions /\ row.first # Unset /\ row.first <= s
        BY DEF Covered, SessionDays
      <4>2. s = row.first
        BY <1>2, <2>4, <3>2, <4>1
      <4> QED
        BY <4>1, <4>2 DEF RowOK
    <3> QED
      BY <1>6, <3>1, <3>2
  <2>6. p \in {"today", "live", "load"} /\ row.first # Unset =>
          \A s \in Sessions : row.last < s /\ s <= ClosedTo => p = "today" /\ s \in w \cup R2
    <3>1. SUFFICES ASSUME p \in {"today", "live"}, row.first # Unset, NEW s \in Sessions,
                          row.last < s, s <= ClosedTo
                   PROVE  p = "today" /\ s \in w \cup R2
      BY <1>4
    <3>2. p = "today" /\ s \in R
      BY <2>3, <3>1 DEF Whole
    <3>3. CASE s \in days \ w
      <4>1. X = R \/ X = L
        OBVIOUS
      <4>2. CASE f
        <5>1. row.first <= row.last
          BY <1>3, <3>2, <4>2 DEF Ranges
        <5> QED
          BY <1>2, <2>4, <3>1, <3>3, <5>1
      <4>3. CASE ~f
        <5>1. \A d \in L : ~(row.last < d) \/ d \notin R
          <6>1. \A d \in L : \A e \in R : d < e
            BY <1>3, <3>2 DEF Ranges
          <6> QED
            BY <1>2, <6>1
        <5> QED
          BY <1>1, <3>1, <3>2, <3>3, <4>3, <5>1
      <4> QED
        BY <4>2, <4>3
    <3> QED
      BY <1>6, <3>2, <3>3
  <2>7. p \in {"today", "live", "load"} /\ req.from = Unset /\ row.first = Unset => Discoverable = {}
    BY <2>3 DEF Whole
  <2>8. p \in {"today", "live", "load"} /\ req.from # Unset =>
          \A d \in tape : req.from <= d /\ d <= ClosedTo => Stored(d) \/ d \in w \cup L2 \cup R2
    <3>1. SUFFICES ASSUME p \in {"today", "live", "load"}, req.from # Unset, NEW d \in tape,
                          req.from <= d, d <= ClosedTo
                   PROVE  Stored(d) \/ d \in w \cup L2 \cup R2
      OBVIOUS
    <3>2. Stored(d) \/ d \in L \cup R
      BY <2>3, <3>1 DEF Whole
    <3>3. d \in Int
      BY DayTypes DEF Types
    <3>4. d < clock
      BY <1>2, <3>1, <3>3
    <3>5. d \notin days \ w
      BY <1>1, <1>11, <3>4
    <3> QED
      BY <1>6, <3>2, <3>5
  <2> QED
    BY <1>1, <1>7, <1>8, <1>9, <1>10, <2>5, <2>6, <2>7, <2>8 DEF Whole
<1>16. aborts' = 0 => Uncut(p, w, L2, R2)'
  <2>1. SUFFICES ASSUME aborts' = 0 PROVE Uncut(p, w, L2, R2)'
    OBVIOUS
  <2>2. Uncut(p, {}, L, R)
    BY <1>7, <2>1 DEF Under
  <2>3. ASSUME NEW d \in w PROVE chunk'[d] = FinalBlob(d) \/ (p = "live" /\ d = req.today)
    <3>1. d \in Int /\ d \in L \cup R
      BY <1>2, <1>6
    <3>2. CASE p = "live"
      <4>1. w \subseteq {req.today}
        BY <1>3, <1>5, <1>6, <3>2 DEF Form
      <4> QED
        BY <3>2, <4>1
    <3>3. CASE p = "sealed"
      <4>1. d = row.live /\ row.live < req.today
        BY <1>3, <3>1, <3>3, <1>5 DEF Form
      <4>2. d < clock
        BY <1>2, <4>1
      <4> QED
        BY <1>1, <1>12, <4>2
    <3>4. CASE p = "today"
      <4>1. d <= ClosedTo
        BY <1>3, <3>1, <3>4 DEF Ranges
      <4>2. d < clock
        BY <1>2, <3>1, <4>1
      <4> QED
        BY <1>1, <1>12, <4>2
    <3> QED
      BY <1>4, <3>2, <3>3, <3>4
  <2>4. \A d \in Days : Stored(d) => d \in Covered \/ d = row.live
    BY <1>4, <2>2 DEF Uncut
  <2>5. p = "sealed" => row.live \in R2 \/ row.live \in w \/ store[row.live] = FinalBlob(row.live)
    BY <1>5, <2>2 DEF Uncut
  <2>6. p = "today" => \A s \in L2 \cup R2 : ~Stored(s)
    BY <1>6, <2>2 DEF Uncut
  <2>7. p # "live" => row.last < req.today
    BY <2>2 DEF Uncut
  <2>8. \A d \in Days : \/ store[d] \in {"none", FinalBlob(d)}
                        \/ d = row.live \/ (p = "live" /\ d = req.today)
    BY <2>2 DEF Uncut
  <2> QED
    BY <1>1, <1>7, <1>8, <1>9, <1>10, <2>3, <2>4, <2>5, <2>6, <2>7, <2>8 DEF Uncut
<1> QED
  BY <1>9, <1>13, <1>14, <1>15, <1>16 DEF Under

LEMMA FetchChunkStep ==
  ASSUME IInv, FetchChunk
  PROVE  IInv'
<1>1. /\ UNCHANGED <<clock, tape, store, row, req, aborts>>
      /\ Types /\ RowOK /\ ReqOK /\ InHand = {} /\ todo # <<>> /\ todo' # <<>>
  BY FetchSplit
<1>2. PICK p \in Phases, L \in SUBSET Sessions, R \in SUBSET Sessions, f \in BOOLEAN,
           days \in SUBSET Sessions, w \in SUBSET Sessions :
        /\ Under(p, {}, L, R, f)
        /\ \/ L # {} /\ Fetched(L, days, w) /\ todo' = Pending(p, w, L \ days, R, f)
           \/ /\ L = {} /\ Fetched(R, days, w) /\ todo' = Pending(p, w, {}, R \ days, f)
              /\ ~f => w = days
  BY FetchSplit
<1>3. \E L2 \in SUBSET Sessions, R2 \in SUBSET Sessions : Under(p, w, L2, R2, f)'
  <2>1. CASE L # {}
    <3>1. PICK L2 : L2 = L \ days
      OBVIOUS
    <3>2. L2 \in SUBSET Sessions
      BY <3>1
    <3>3. /\ Under(p, {}, L, R, f)
          /\ Fetched(L, days, w) /\ todo' = Pending(p, w, L2, R, f)
      BY <1>2, <2>1, <3>1
    <3>4. Under(p, w, L2, R, f)'
      BY <1>1, <3>1, <3>2, <3>3, FetchKeeps
    <3> QED
      BY <3>2, <3>4
  <2>2. CASE L = {}
    <3>1. PICK R2, L2 : R2 = R \ days /\ L2 = {}
      OBVIOUS
    <3>2. R2 \in SUBSET Sessions /\ L2 \in SUBSET Sessions
      BY <3>1
    <3>3. /\ Under(p, {}, L, R, f)
          /\ Fetched(R, days, w) /\ todo' = Pending(p, w, L2, R2, f) /\ (~f => w = days)
      BY <1>2, <2>2, <3>1
    <3>4. PICK X \in SUBSET Sessions : X = R
      OBVIOUS
    <3>5. /\ Fetched(X, days, w)
          /\ \/ X = L /\ L2 = L \ days /\ R2 = R
             \/ X = R /\ L = {} /\ L2 = {} /\ R2 = R \ days /\ (~f => w = days)
      BY <2>2, <3>1, <3>3, <3>4
    <3>6. Under(p, w, L2, R2, f)'
      BY <1>1, <3>2, <3>3, <3>5, FetchKeeps
    <3> QED
      BY <3>2, <3>6
  <2> QED
    BY <2>1, <2>2
<1>4. \E X : Fetched(X, days, w)
  BY <1>2
<1>5. InHand' = w /\ chunk' \in [w -> Blobs] /\ torn' \in BOOLEAN
  <2>1. \A S : SkipsInside(S) \in BOOLEAN
    BY DEF SkipsInside
  <2> QED
    BY <1>1, <1>4, <2>1 DEF Fetched, Types
<1>6. Types'
  BY <1>1, <1>5 DEF Types
<1>7. ReqOK'
  BY <1>1 DEF ReqOK
<1>8. RowOK'
  BY <1>1 DEF RowOK, Now, Stored
<1>9. Busy'
  BY <1>3, <1>7 DEF Busy
<1> QED
  BY <1>1, <1>6, <1>8, <1>9 DEF IInv

LEMMA NextHolds ==
  ASSUME IInv, [Next]_vars
  PROVE  IInv'
<1>1. CASE \E from \in Froms, to \in 1 .. clock : Request(from, to)
  BY <1>1, RequestStep
<1>2. CASE SealStaleLive
  BY <1>2, SealStaleLiveStep
<1>3. CASE Sealed
  BY <1>3, SealedStep
<1>4. CASE FillClosed
  BY <1>4, FillClosedStep
<1>5. CASE DiscoverClosed
  BY <1>5, DiscoverClosedStep
<1>6. CASE Discovered
  BY <1>6, DiscoveredStep
<1>7. CASE RefreshToday
  BY <1>7, RefreshTodayStep
<1>8. CASE Live
  BY <1>8, LiveStep
<1>9. CASE FetchChunk
  BY <1>9, FetchChunkStep
<1>10. CASE PutSession
  BY <1>10, PutSessionStep
<1>11. CASE CoverChunk
  BY <1>11, CoverChunkStep
<1>12. CASE Load
  BY <1>12, LoadStep
<1>13. CASE Abort
  BY <1>13, AbortStep
<1>14. CASE Tick
  BY <1>14, TickStep
<1>15. CASE UNCHANGED vars
  <2>1. /\ clock' = clock /\ tape' = tape /\ store' = store /\ row' = row /\ req' = req
        /\ todo' = todo /\ chunk' = chunk /\ aborts' = aborts /\ torn' = torn
    BY <1>15 DEF vars
  <2>2. Types' = Types /\ ReqOK' = ReqOK
    BY <2>1 DEF Types, ReqOK, InHand
  <2>3. RowOK' = RowOK
    BY <2>1 DEF RowOK, Now, Stored
  <2>4. Idle' = Idle
    BY <2>1 DEF Idle, InHand, CoveredIsStored, Covered, SessionDays, FinalBlob, Stored
  <2>5. ASSUME NEW p, NEW W, NEW L, NEW R, NEW f, Under(p, W, L, R, f)
        PROVE  Under(p, W, L, R, f)'
    <3>1. /\ Pending(p, W, L, R, f)' = Pending(p, W, L, R, f)
          /\ ClosedTo' = ClosedTo /\ Discoverable' = Discoverable /\ DiscoverDays' = DiscoverDays
          /\ WantsToday' = WantsToday /\ \A d : FinalBlob(d)' = FinalBlob(d)
      BY <2>1, PendingSame
    <3>2. Form(p, W, L, R, f)' = Form(p, W, L, R, f)
      BY <2>1, <3>1 DEF Form, InHand, Stored
    <3>3. Ranges(p, W, L, R, f)' = Ranges(p, W, L, R, f)
      BY <2>1, <3>1 DEF Ranges, SessionDays
    <3>4. Covered' = Covered
      BY <2>1 DEF Covered, SessionDays
    <3>5. Whole(p, W, L, R)' = Whole(p, W, L, R)
      BY <2>1, <3>1, <3>4 DEF Whole, InHand, Stored
    <3>6. Uncut(p, W, L, R)' = Uncut(p, W, L, R)
      BY <2>1, <3>1, <3>4 DEF Uncut, InHand, Stored
    <3> QED
      BY <2>1, <2>5, <3>1, <3>2, <3>3, <3>5, <3>6 DEF Under
  <2>6. Busy => Busy'
    BY <2>2, <2>5 DEF Busy
  <2> QED
    BY <2>1, <2>2, <2>3, <2>4, <2>6 DEF IInv
<1> QED
  BY <1>1, <1>2, <1>3, <1>4, <1>5, <1>6, <1>7, <1>8, <1>9, <1>10, <1>11, <1>12, <1>13, <1>14,
     <1>15 DEF Next, Step

-------------------------------------------------------------------------------
(* What follows of it.                                                     *)

\* In every reachable state the calls of a request have their form, and the row,
\* the store and the request belong together as the invariant says.
THEOREM InvariantHolds == Spec => []IInv
<1>1. Init => IInv
  BY InitHolds
<1>2. IInv /\ [Next]_vars => IInv'
  BY NextHolds
<1> QED
  BY <1>1, <1>2, PTL DEF Spec

(***************************************************************************)
(* The row, the store and the calls of a request keep to their types.      *)
(***************************************************************************)
THEOREM TypeCorrect == Spec => []TypeOK
<1>1. ASSUME IInv PROVE TypeOK
  <2>1. Types /\ RowOK
    BY <1>1 DEF IInv
  <2>2. req \in [from : Days \cup {Unset}, to : Days \cup {Unset}, today : Days \cup {Unset}]
    <3>1. CASE todo = <<>>
      BY <1>1, <3>1 DEF IInv, Idle, NoRequest
    <3>2. CASE todo # <<>>
      BY <1>1, <3>2 DEF IInv, Busy, ReqOK
    <3> QED
      BY <3>1, <3>2
  <2>3. todo \in Seq(Calls)
    <3>1. CASE todo = <<>>
      BY <3>1
    <3>2. CASE todo # <<>>
      <4>1. PICK p \in Phases, W \in SUBSET Sessions, L \in SUBSET Sessions,
                 R \in SUBSET Sessions, f \in BOOLEAN : Under(p, W, L, R, f)
        BY <1>1, <3>2 DEF IInv, Busy
      <4>2. ReqOK
        BY <1>1, <3>2 DEF IInv, Busy
      <4>3. PhaseCall(p) \in Calls
        BY <2>1, <4>1, <4>2, PhaseType DEF Under, Form
      <4>4. Pending(p, W, L, R, f) \in Seq(Calls)
        BY <4>3, PendingType
      <4> QED
        BY <4>1, <4>4 DEF Under
    <3> QED
      BY <3>1, <3>2
  <2>4. \A i \in 1 .. Len(todo) : todo[i] \in Calls
    BY <2>3, ElementOfSeq
  <2>5. \A d \in DOMAIN chunk : d \in Sessions /\ chunk[d] \in Blobs
    BY <2>1 DEF Types, InHand
  <2>6. /\ clock \in Days /\ tape \in Tapes /\ store \in [Days -> Blobs \cup {"none"}]
        /\ aborts \in 0 .. MaxAborts
    BY <2>1 DEF Types
  <2>7. torn \in BOOLEAN
    BY <2>1 DEF Types
  <2>8. LET day == Days \cup {Unset} IN row \in [first : day, last : day, live : day]
    BY <2>1 DEF RowOK
  <2> QED
    BY <2>2, <2>4, <2>5, <2>6, <2>7, <2>8 DEF TypeOK
<1> QED
  BY <1>1, InvariantHolds, PTL

(***************************************************************************)
(* Between requests the range has no hole unless a request has torn it,    *)
(* wherever the others were cut off between vendor, store and row.         *)
(***************************************************************************)
THEOREM CoverageCorrect == Spec => []CoveredUnlessTorn
<1>1. IInv => CoveredUnlessTorn
  BY DEF IInv, Idle, CoveredUnlessTorn
<1> QED
  BY <1>1, InvariantHolds, PTL

(***************************************************************************)
(* As long as no request was dropped, the closed range holds what the      *)
(* vendor finally has, and never reaches today.                            *)
(***************************************************************************)
THEOREM FinalCorrect == Spec => []UncutSealedIsFinal
<1>1. ASSUME IInv, aborts = 0, todo = <<>> PROVE SealedIsFinal
  <2>1. Covered \subseteq Days
    BY DayTypes DEF Covered, SessionDays
  <2>2. /\ \A d \in Days : store[d] \in {"none", FinalBlob(d)} \/ d = row.live
        /\ row.last < clock
    BY <1>1 DEF IInv, Idle
  <2> QED
    BY <2>1, <2>2 DEF SealedIsFinal
<1>2. IInv => UncutSealedIsFinal
  BY <1>1 DEF UncutSealedIsFinal, SealedIsFinal
<1> QED
  BY <1>2, InvariantHolds, PTL

(***************************************************************************)
(* A request that comes to the read of load_bars finds a key for every     *)
(* closed day of its range the vendor has bars of, whichever requests were *)
(* cut off before, unless one of them has torn the range.                  *)
(***************************************************************************)
THEOREM AnswerCorrect == Spec => []AnswerHasEveryDay
<1>1. ASSUME IInv, ~torn, Doing("load"), NEW d \in tape, FillFrom <= d, d <= ClosedTo
      PROVE  store[d] # "none"
  <2>1. "load" \in Phases
    BY DEF Phases
  <2>2. PICK f \in BOOLEAN : Under("load", {}, {}, {}, f)
    BY <1>1, <2>1, AtPhase
  <2>3. Types /\ ReqOK /\ RowOK /\ InHand = {}
    BY <1>1, <2>1, AtPhase
  <2>4. Whole("load", {}, {}, {})
    BY <1>1, <2>2 DEF Under
  <2>5. d \in Sessions
    BY <2>3, DayTypes DEF Types
  <2>6. CASE req.from # Unset
    <3>1. req.from <= d
      BY <1>1, <2>6 DEF FillFrom
    <3> QED
      BY <1>1, <2>3, <2>4, <2>6, <3>1 DEF Whole, Stored
  <2>7. CASE req.from = Unset /\ row.first = Unset
    <3>1. Discoverable = {}
      BY <2>4, <2>7 DEF Whole
    <3> QED
      BY <1>1, <3>1 DEF Discoverable
  <2>8. CASE req.from = Unset /\ row.first # Unset
    <3>1. row.first <= d
      BY <1>1, <2>8 DEF FillFrom
    <3>2. ~(row.last < d)
      BY <1>1, <2>4, <2>5, <2>8 DEF Whole
    <3>3. d \in Int /\ row.last \in Int /\ row.last # Unset
      BY <2>3, <2>5, <2>8, DayTypes DEF RowOK
    <3>4. d \in Covered
      BY <2>5, <2>8, <3>1, <3>2, <3>3 DEF Covered, SessionDays
    <3> QED
      BY <2>3, <2>4, <3>4 DEF Whole, Stored
  <2> QED
    BY <2>6, <2>7, <2>8
<1>2. IInv => AnswerHasEveryDay
  BY <1>1 DEF AnswerHasEveryDay
<1> QED
  BY <1>2, InvariantHolds, PTL

NothingTwice ==
  aborts = 0 => \A d \in DOMAIN chunk' \ DOMAIN chunk :
                  d \in Covered /\ store[d] # "none" => d \in {row.live, req.today}

\* Only a fetch of a chunk and a discovery take new days in hand.
LEMMA StepFetchesOnce ==
  ASSUME IInv, [Next]_vars
  PROVE  [NothingTwice]_vars
<1>1. CASE FetchChunk
  <2>1. PICK p \in Phases, L \in SUBSET Sessions, R \in SUBSET Sessions, f \in BOOLEAN,
             days \in SUBSET Sessions, w \in SUBSET Sessions :
          /\ Under(p, {}, L, R, f)
          /\ \/ L # {} /\ Fetched(L, days, w) /\ todo' = Pending(p, w, L \ days, R, f)
             \/ /\ L = {} /\ Fetched(R, days, w) /\ todo' = Pending(p, w, {}, R \ days, f)
                /\ ~f => w = days
    BY <1>1, FetchSplit
  <2>2. DOMAIN chunk' \subseteq L \cup R
    BY <2>1 DEF Fetched, InHand
  <2>3. Form(p, {}, L, R, f)
    BY <2>1 DEF Under
  <2>4. aborts = 0 => Uncut(p, {}, L, R)
    BY <2>1 DEF Under
  <2>5. CASE p = "today"
    BY <2>2, <2>4, <2>5 DEF Uncut, Stored, NothingTwice
  <2>6. CASE p # "today"
    <3>1. L \cup R \subseteq {row.live, req.today}
      BY <2>3, <2>6 DEF Form
    <3> QED
      BY <2>2, <3>1 DEF NothingTwice
  <2> QED
    BY <2>5, <2>6
<1>2. CASE DiscoverClosed
  <2>1. FillFrom = Unset
    BY <1>2 DEF DiscoverClosed
  <2>2. row.first = Unset
    BY <2>1 DEF FillFrom
  <2>3. Covered = {}
    BY <2>2 DEF Covered
  <2> QED
    BY <2>3 DEF NothingTwice
<1>3. CASE PutSession
  <2>1. DOMAIN chunk' \subseteq DOMAIN chunk
    BY <1>3 DEF PutSession
  <2> QED
    BY <2>1 DEF NothingTwice
<1>4. CASE Abort
  <2>1. DOMAIN chunk' = {}
    BY <1>4 DEF Abort, NoBlobs
  <2> QED
    BY <2>1 DEF NothingTwice
<1>5. CASE UNCHANGED chunk
  BY <1>5 DEF NothingTwice
<1>6. CASE UNCHANGED vars
  BY <1>6
<1>7. UNCHANGED chunk \/ FetchChunk \/ DiscoverClosed \/ PutSession \/ Abort \/ UNCHANGED vars
  BY DEF Next, Step, Request, SealStaleLive, Sealed, FillClosed, Discovered, RefreshToday, Live,
         CoverChunk, Load, Tick
<1> QED
  BY <1>1, <1>2, <1>3, <1>4, <1>5, <1>6, <1>7

(***************************************************************************)
(* As long as no request was dropped, a day that is stored and covered is  *)
(* never asked of the vendor again, but for the live day and today.        *)
(***************************************************************************)
THEOREM FetchCorrect == Spec => NothingFetchedTwice
<1>1. IInv /\ [Next]_vars => [NothingTwice]_vars
  BY StepFetchesOnce
<1>2. IInv /\ [Next]_vars =>
        [aborts = 0 =>
           \A d \in DOMAIN chunk' \ DOMAIN chunk :
             d \in Covered /\ store[d] # "none" => d \in {row.live, req.today}]_vars
  BY <1>1 DEF NothingTwice
<1> QED
  BY <1>2, InvariantHolds, PTL DEF Spec, NothingFetchedTwice
=============================================================================
