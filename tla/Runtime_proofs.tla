----------------------------- MODULE Runtime_proofs -----------------------------
(***************************************************************************)
(* The accounting of the rings, the drain at stop and the capacity that    *)
(* loses nothing, for rings of every size and any number of bars, starts   *)
(* and stops.                                                              *)
(***************************************************************************)
EXTENDS Runtime, TLAPS

USE RuntimeAssumption DEF Rings, EventRings, Threads, Workers, Counters

\* Where the owner stands, the flags and the ended threads go together.
StopOrder ==
  /\ stopWorkers <=> main # "running"
  /\ stopPersist <=> main \in {"draining", "stopped"}
  /\ stopPersist => \A t \in Workers : pc[t] = "ended"
  /\ main = "stopped" => pc["persistence"] = "ended"

\* The rings that the drain has passed are empty.
DrainOrder ==
  /\ pc["persistence"] \in {"drain0", "drain1", "drain3", "drainLog", "ended"} => stopPersist
  /\ pc["persistence"] \in {"drain1", "drain3", "drainLog", "ended"} => ring["persist0"] = 0
  /\ pc["persistence"] \in {"drain3", "drainLog", "ended"} => ring["persist1"] = 0
  /\ pc["persistence"] \in {"drainLog", "ended"} => ring["persist3"] = 0
  /\ pc["persistence"] = "ended" => ring["log"] = 0

\* What each of the rings to persistence can have been given: persist_events_
\* counts the three of them together.
NotesBounded ==
  /\ Unread["persist0"] <= HotNotes
  /\ Unread["persist1"] <= RouterNotes
  /\ Unread["persist3"] <= OrderNotes

IInv == TypeOK /\ EveryEventCounted /\ NotesBounded /\ StopOrder /\ DrainOrder /\ FewBarsFit

-------------------------------------------------------------------------------
(* What a step does to one ring, one thread and one counter, and to no     *)
(* other.                                                                  *)

Pushed(r) ==
  /\ \A q \in Rings \ {r} : ring'[q] = ring[q] /\ lost'[q] = lost[q]
  /\ ring'[r] + lost'[r] = ring[r] + lost[r] + 1
  /\ ring[r] < Room(r) => lost'[r] = lost[r]

Popped(r) ==
  /\ \A q \in Rings \ {r} : ring'[q] = ring[q]
  /\ ring'[r] = ring[r] - 1 /\ UNCHANGED lost

Counted(c) ==
  /\ \A d \in Counters \ {c} : count'[d] = count[d]
  /\ count'[c] = count[c] + 1

Moved(t, there) ==
  /\ \A u \in Threads \ {t} : pc'[u] = pc[u]
  /\ pc'[t] = there
  /\ UNCHANGED <<main, stopWorkers, stopPersist, offered, starts>>

RingsOK    == ring \in [Rings -> Nat] /\ lost \in [Rings -> Nat] /\ \A r \in Rings : ring[r] <= Room(r)
PlacesOK   == /\ pc \in [Threads -> UNION {Positions[t] : t \in Threads}]
              /\ \A t \in Threads : pc[t] \in Positions[t]
CountersOK == count \in [Counters -> Nat]

\* What a thread has in its hand is one event or none.
LEMMA OneInHand ==
  /\ Taken \in {0, 1} /\ Routed \in {0, 1} /\ Noted \in {0, 1} /\ Ordered \in {0, 1}
  /\ FillTaken \in {0, 1} /\ RouteTaken \in {0, 1} /\ RouteUnsaid \in {0, 1}
  /\ OrderTaken \in {0, 1} /\ OrderUnsaid \in {0, 1}
  /\ Ordered <= Noted /\ Noted <= Routed /\ Routed <= Taken
  BY DEF Taken, Routed, Noted, Ordered, FillTaken, RouteTaken, RouteUnsaid, OrderTaken, OrderUnsaid,
     HotIn, Is

\* What is counted are numbers.
LEMMA Numbers ==
  TypeOK => /\ \A r \in Rings : ring[r] \in Nat /\ Unread[r] \in Nat /\ ring[r] <= Unread[r]
            /\ \A c \in Counters : count[c] \in Nat
            /\ offered \in Nat
  BY DEF TypeOK, Unread

\* The counts of what is owed to persistence are numbers.
LEMMA NotesAreNumbers == TypeOK => HotNotes \in Int /\ RouterNotes \in Int /\ OrderNotes \in Int
  BY Numbers, OneInHand DEF HotNotes, RouterNotes, OrderNotes

\* Every ring has room for an event.
LEMMA RoomIsPositive == \A r \in Rings : Room(r) \in Nat \ {0}
  BY DEF Room

\* A push adds one event to its ring or to those the ring has refused.
LEMMA PushAdds ==
  ASSUME TypeOK, NEW r \in Rings, Push(r)
  PROVE  RingsOK' /\ Pushed(r)
  <1>1. CASE ring[r] < Room(r) /\ ring' = [ring EXCEPT ![r] = @ + 1] /\ lost' = lost
    BY <1>1, RoomIsPositive DEF TypeOK, RingsOK, Pushed
  <1>2. CASE ring[r] = Room(r) /\ lost' = [lost EXCEPT ![r] = @ + 1] /\ ring' = ring
    BY <1>2, RoomIsPositive DEF TypeOK, RingsOK, Pushed
  <1> QED
    BY <1>1, <1>2 DEF Push

\* A ring with room for all that may come refuses no push.
LEMMA PushFits ==
  ASSUME TypeOK, FewBarsFit, NEW r \in Rings, Pushed(r), offered' = offered,
         ring[r] < EventsPerBar(r) * offered
  PROVE  FewBarsFit'
  <1> SUFFICES ASSUME NEW q \in Rings, EventsPerBar(q) * offered <= Room(q)
               PROVE  lost'[q] = 0
    BY DEF FewBarsFit, EventsPerBar, Room
  <1>1. lost[q] = 0
    BY DEF FewBarsFit
  <1>2. CASE q # r
    BY <1>1, <1>2 DEF Pushed
  <1>3. CASE q = r
    <2>1. ring[r] < Room(r)
      BY <1>3, RoomIsPositive DEF TypeOK, EventsPerBar
    <2> QED
      BY <1>1, <1>3, <2>1 DEF Pushed
  <1> QED
    BY <1>2, <1>3

\* A pop takes one event from its ring.
LEMMA PopTakes ==
  ASSUME TypeOK, NEW r \in Rings, Pop(r)
  PROVE  RingsOK' /\ Popped(r)
  BY RoomIsPositive DEF TypeOK, Pop, RingsOK, Popped

\* A count adds one to its counter.
LEMMA CountAdds ==
  ASSUME TypeOK, NEW c \in Counters, Count(c)
  PROVE  CountersOK' /\ Counted(c)
  BY DEF TypeOK, Count, CountersOK, Counted

\* A thread moves within its loop, and moves nobody else.
LEMMA GoMoves ==
  ASSUME TypeOK, NEW t \in Threads, NEW there \in Positions[t], Go(t, there)
  PROVE  PlacesOK' /\ Moved(t, there)
  <1>1. Positions[t] \subseteq UNION {Positions[u] : u \in Threads}
    OBVIOUS
  <1> QED
    BY <1>1 DEF TypeOK, Go, PlacesOK, Moved

-------------------------------------------------------------------------------
(* Each step keeps the invariant.                                          *)

\* The hot thread gives the bar to the router.
LEMMA RouteBarKeeps ==
  ASSUME IInv, RouteBar
  PROVE  IInv'
  <1>1. pc["hot"] = "route" /\ Push("routing") /\ Go("hot", "noteBar") /\ UNCHANGED count
    BY DEF RouteBar, At, Enter, Head
  <1>2. RingsOK' /\ Pushed("routing") /\ PlacesOK' /\ Moved("hot", "noteBar")
    BY <1>1, PushAdds, GoMoves DEF IInv, Positions
  <1>3. CountersOK' /\ UNCHANGED count
    BY <1>1 DEF IInv, TypeOK, CountersOK
  <1>4. TypeOK'
    BY <1>2, <1>3 DEF IInv, TypeOK, RingsOK, PlacesOK, CountersOK, Moved
  <1>5. /\ ring'["market_data"] = ring["market_data"]
       /\ Unread'["routing"] = Unread["routing"] + 1
       /\ Unread'["command"] = Unread["command"]
       /\ Unread'["order_out"] = Unread["order_out"]
       /\ Unread'["fill_in"] = Unread["fill_in"]
       /\ Unread'["persist0"] = Unread["persist0"]
       /\ Unread'["persist1"] = Unread["persist1"]
       /\ Unread'["persist3"] = Unread["persist3"]
       /\ Unread'["log"] = Unread["log"]
       /\ count'["bars"] = count["bars"]
       /\ count'["fills"] = count["fills"]
       /\ count'["commands"] = count["commands"]
       /\ count'["persisted"] = count["persisted"]
       /\ count'["logs"] = count["logs"]
       /\ offered' = offered
    BY <1>1, <1>2, <1>3, <1>4 DEF Pushed, Moved, Counters, TypeOK, Unread, IInv
  <1>6. /\ UNCHANGED <<Taken, Noted, Ordered, FillTaken, RouteTaken, RouteUnsaid, OrderTaken, OrderUnsaid>>
       /\ Routed' = Routed + 1
    BY <1>1, <1>2, <1>3, <1>4 DEF Moved, Taken, Routed, Noted, Ordered, FillTaken, RouteTaken,
       RouteUnsaid, OrderTaken, OrderUnsaid, HotIn, Is
  <1>7. TypeOK /\ EveryEventCounted /\ NotesBounded
    BY DEF IInv
  <1>8. HotNotes' = HotNotes
    BY <1>5, <1>6, <1>7, Numbers, OneInHand DEF HotNotes
  <1>9. RouterNotes' = RouterNotes
    BY <1>5, <1>6, <1>7, Numbers, OneInHand DEF RouterNotes
  <1>10. OrderNotes' = OrderNotes
    BY <1>5, <1>6, <1>7, Numbers, OneInHand DEF OrderNotes
  <1>11. BarsCounted'
    BY <1>5, <1>6, <1>7, Numbers, OneInHand DEF EveryEventCounted, BarsCounted
  <1>12. RoutesCounted'
    BY <1>5, <1>6, <1>7, Numbers, OneInHand DEF EveryEventCounted, RoutesCounted
  <1>13. OrdersCounted'
    BY <1>5, <1>6, <1>7, Numbers, OneInHand DEF EveryEventCounted, OrdersCounted
  <1>14. LogsCounted'
    BY <1>5, <1>6, <1>7, Numbers, OneInHand DEF EveryEventCounted, LogsCounted
  <1>15. NotesCounted'
    BY <1>5, <1>7, <1>8, <1>9, <1>10, Numbers, NotesAreNumbers DEF EveryEventCounted, NotesCounted
  <1>16. NotesBounded'
    BY <1>5, <1>7, <1>8, <1>9, <1>10, Numbers, NotesAreNumbers DEF NotesBounded
  <1>17. StopOrder' /\ DrainOrder'
    BY <1>1, <1>2, <1>3, <1>4 DEF Pushed, Moved, TypeOK, IInv, StopOrder, DrainOrder
  <1>18. Taken = 1 /\ Routed = 0 /\ Noted = 0 /\ Ordered = 0 /\ FillTaken = 0
    BY <1>1 DEF Taken, Routed, Noted, Ordered, FillTaken, HotIn, Is
  <1>19. ring["routing"] < EventsPerBar("routing") * offered
    BY <1>18, <1>7, Numbers, OneInHand DEF HotNotes, RouterNotes, OrderNotes, EventsPerBar,
       EveryEventCounted, BarsCounted,
       RoutesCounted, OrdersCounted, LogsCounted, NotesBounded
  <1>20. FewBarsFit'
    BY <1>2, <1>19, PushFits DEF IInv, Moved
  <1> QED
    BY <1>4, <1>11, <1>12, <1>13, <1>14, <1>15, <1>16, <1>17, <1>20 DEF IInv, EveryEventCounted

\* The hot thread gives the bar to persistence.
LEMMA NoteBarKeeps ==
  ASSUME IInv, NoteBar
  PROVE  IInv'
  <1>1. pc["hot"] = "noteBar" /\ Push("persist0") /\ Go("hot", "order") /\ UNCHANGED count
    BY DEF NoteBar, At, Enter, Head
  <1>2. RingsOK' /\ Pushed("persist0") /\ PlacesOK' /\ Moved("hot", "order")
    BY <1>1, PushAdds, GoMoves DEF IInv, Positions
  <1>3. CountersOK' /\ UNCHANGED count
    BY <1>1 DEF IInv, TypeOK, CountersOK
  <1>4. TypeOK'
    BY <1>2, <1>3 DEF IInv, TypeOK, RingsOK, PlacesOK, CountersOK, Moved
  <1>5. /\ ring'["market_data"] = ring["market_data"]
       /\ Unread'["routing"] = Unread["routing"]
       /\ Unread'["command"] = Unread["command"]
       /\ Unread'["order_out"] = Unread["order_out"]
       /\ Unread'["fill_in"] = Unread["fill_in"]
       /\ Unread'["persist0"] = Unread["persist0"] + 1
       /\ Unread'["persist1"] = Unread["persist1"]
       /\ Unread'["persist3"] = Unread["persist3"]
       /\ Unread'["log"] = Unread["log"]
       /\ count'["bars"] = count["bars"]
       /\ count'["fills"] = count["fills"]
       /\ count'["commands"] = count["commands"]
       /\ count'["persisted"] = count["persisted"]
       /\ count'["logs"] = count["logs"]
       /\ offered' = offered
    BY <1>1, <1>2, <1>3, <1>4 DEF Pushed, Moved, Counters, TypeOK, Unread, IInv
  <1>6. /\ UNCHANGED <<Taken, Routed, Ordered, FillTaken, RouteTaken, RouteUnsaid, OrderTaken, OrderUnsaid>>
       /\ Noted' = Noted + 1
    BY <1>1, <1>2, <1>3, <1>4 DEF Moved, Taken, Routed, Noted, Ordered, FillTaken, RouteTaken,
       RouteUnsaid, OrderTaken, OrderUnsaid, HotIn, Is
  <1>7. TypeOK /\ EveryEventCounted /\ NotesBounded
    BY DEF IInv
  <1>8. HotNotes' = HotNotes + 1
    BY <1>5, <1>6, <1>7, Numbers, OneInHand DEF HotNotes
  <1>9. RouterNotes' = RouterNotes
    BY <1>5, <1>6, <1>7, Numbers, OneInHand DEF RouterNotes
  <1>10. OrderNotes' = OrderNotes
    BY <1>5, <1>6, <1>7, Numbers, OneInHand DEF OrderNotes
  <1>11. BarsCounted'
    BY <1>5, <1>6, <1>7, Numbers, OneInHand DEF EveryEventCounted, BarsCounted
  <1>12. RoutesCounted'
    BY <1>5, <1>6, <1>7, Numbers, OneInHand DEF EveryEventCounted, RoutesCounted
  <1>13. OrdersCounted'
    BY <1>5, <1>6, <1>7, Numbers, OneInHand DEF EveryEventCounted, OrdersCounted
  <1>14. LogsCounted'
    BY <1>5, <1>6, <1>7, Numbers, OneInHand DEF EveryEventCounted, LogsCounted
  <1>15. NotesCounted'
    BY <1>5, <1>7, <1>8, <1>9, <1>10, Numbers, NotesAreNumbers DEF EveryEventCounted, NotesCounted
  <1>16. NotesBounded'
    BY <1>5, <1>7, <1>8, <1>9, <1>10, Numbers, NotesAreNumbers DEF NotesBounded
  <1>17. StopOrder' /\ DrainOrder'
    BY <1>1, <1>2, <1>3, <1>4 DEF Pushed, Moved, TypeOK, IInv, StopOrder, DrainOrder
  <1>18. Taken = 1 /\ Routed = 1 /\ Noted = 0 /\ Ordered = 0 /\ FillTaken = 0
    BY <1>1 DEF Taken, Routed, Noted, Ordered, FillTaken, HotIn, Is
  <1>19. ring["persist0"] < EventsPerBar("persist0") * offered
    BY <1>18, <1>7, Numbers, OneInHand DEF HotNotes, RouterNotes, OrderNotes, EventsPerBar,
       EveryEventCounted, BarsCounted,
       RoutesCounted, OrdersCounted, LogsCounted, NotesBounded
  <1>20. FewBarsFit'
    BY <1>2, <1>19, PushFits DEF IInv, Moved
  <1> QED
    BY <1>4, <1>11, <1>12, <1>13, <1>14, <1>15, <1>16, <1>17, <1>20 DEF IInv, EveryEventCounted

\* The hot thread asks for the order of the bar.
LEMMA OrderBarKeeps ==
  ASSUME IInv, OrderBar
  PROVE  IInv'
  <1>1. pc["hot"] = "order" /\ Push("order_out") /\ Go("hot", "log") /\ UNCHANGED count
    BY DEF OrderBar, At, Enter, Head
  <1>2. RingsOK' /\ Pushed("order_out") /\ PlacesOK' /\ Moved("hot", "log")
    BY <1>1, PushAdds, GoMoves DEF IInv, Positions
  <1>3. CountersOK' /\ UNCHANGED count
    BY <1>1 DEF IInv, TypeOK, CountersOK
  <1>4. TypeOK'
    BY <1>2, <1>3 DEF IInv, TypeOK, RingsOK, PlacesOK, CountersOK, Moved
  <1>5. /\ ring'["market_data"] = ring["market_data"]
       /\ Unread'["routing"] = Unread["routing"]
       /\ Unread'["command"] = Unread["command"]
       /\ Unread'["order_out"] = Unread["order_out"] + 1
       /\ Unread'["fill_in"] = Unread["fill_in"]
       /\ Unread'["persist0"] = Unread["persist0"]
       /\ Unread'["persist1"] = Unread["persist1"]
       /\ Unread'["persist3"] = Unread["persist3"]
       /\ Unread'["log"] = Unread["log"]
       /\ count'["bars"] = count["bars"]
       /\ count'["fills"] = count["fills"]
       /\ count'["commands"] = count["commands"]
       /\ count'["persisted"] = count["persisted"]
       /\ count'["logs"] = count["logs"]
       /\ offered' = offered
    BY <1>1, <1>2, <1>3, <1>4 DEF Pushed, Moved, Counters, TypeOK, Unread, IInv
  <1>6. /\ UNCHANGED <<Taken, Routed, Noted, FillTaken, RouteTaken, RouteUnsaid, OrderTaken, OrderUnsaid>>
       /\ Ordered' = Ordered + 1
    BY <1>1, <1>2, <1>3, <1>4 DEF Moved, Taken, Routed, Noted, Ordered, FillTaken, RouteTaken,
       RouteUnsaid, OrderTaken, OrderUnsaid, HotIn, Is
  <1>7. TypeOK /\ EveryEventCounted /\ NotesBounded
    BY DEF IInv
  <1>8. HotNotes' = HotNotes
    BY <1>5, <1>6, <1>7, Numbers, OneInHand DEF HotNotes
  <1>9. RouterNotes' = RouterNotes
    BY <1>5, <1>6, <1>7, Numbers, OneInHand DEF RouterNotes
  <1>10. OrderNotes' = OrderNotes
    BY <1>5, <1>6, <1>7, Numbers, OneInHand DEF OrderNotes
  <1>11. BarsCounted'
    BY <1>5, <1>6, <1>7, Numbers, OneInHand DEF EveryEventCounted, BarsCounted
  <1>12. RoutesCounted'
    BY <1>5, <1>6, <1>7, Numbers, OneInHand DEF EveryEventCounted, RoutesCounted
  <1>13. OrdersCounted'
    BY <1>5, <1>6, <1>7, Numbers, OneInHand DEF EveryEventCounted, OrdersCounted
  <1>14. LogsCounted'
    BY <1>5, <1>6, <1>7, Numbers, OneInHand DEF EveryEventCounted, LogsCounted
  <1>15. NotesCounted'
    BY <1>5, <1>7, <1>8, <1>9, <1>10, Numbers, NotesAreNumbers DEF EveryEventCounted, NotesCounted
  <1>16. NotesBounded'
    BY <1>5, <1>7, <1>8, <1>9, <1>10, Numbers, NotesAreNumbers DEF NotesBounded
  <1>17. StopOrder' /\ DrainOrder'
    BY <1>1, <1>2, <1>3, <1>4 DEF Pushed, Moved, TypeOK, IInv, StopOrder, DrainOrder
  <1>18. Taken = 1 /\ Routed = 1 /\ Noted = 1 /\ Ordered = 0 /\ FillTaken = 0
    BY <1>1 DEF Taken, Routed, Noted, Ordered, FillTaken, HotIn, Is
  <1>19. ring["order_out"] < EventsPerBar("order_out") * offered
    BY <1>18, <1>7, Numbers, OneInHand DEF HotNotes, RouterNotes, OrderNotes, EventsPerBar,
       EveryEventCounted, BarsCounted,
       RoutesCounted, OrdersCounted, LogsCounted, NotesBounded
  <1>20. FewBarsFit'
    BY <1>2, <1>19, PushFits DEF IInv, Moved
  <1> QED
    BY <1>4, <1>11, <1>12, <1>13, <1>14, <1>15, <1>16, <1>17, <1>20 DEF IInv, EveryEventCounted

\* The hot thread logs the bar.
LEMMA LogBarKeeps ==
  ASSUME IInv, LogBar
  PROVE  IInv'
  <1>1. pc["hot"] = "log" /\ Push("log") /\ Go("hot", "fill") /\ Count("bars")
    BY DEF LogBar, At, Enter, Head
  <1>2. RingsOK' /\ Pushed("log") /\ PlacesOK' /\ Moved("hot", "fill")
    BY <1>1, PushAdds, GoMoves DEF IInv, Positions
  <1>3. CountersOK' /\ Counted("bars")
    BY <1>1, CountAdds DEF IInv, TypeOK, CountersOK
  <1>4. TypeOK'
    BY <1>2, <1>3 DEF IInv, TypeOK, RingsOK, PlacesOK, CountersOK, Moved
  <1>5. /\ ring'["market_data"] = ring["market_data"]
       /\ Unread'["routing"] = Unread["routing"]
       /\ Unread'["command"] = Unread["command"]
       /\ Unread'["order_out"] = Unread["order_out"]
       /\ Unread'["fill_in"] = Unread["fill_in"]
       /\ Unread'["persist0"] = Unread["persist0"]
       /\ Unread'["persist1"] = Unread["persist1"]
       /\ Unread'["persist3"] = Unread["persist3"]
       /\ Unread'["log"] = Unread["log"] + 1
       /\ count'["bars"] = count["bars"] + 1
       /\ count'["fills"] = count["fills"]
       /\ count'["commands"] = count["commands"]
       /\ count'["persisted"] = count["persisted"]
       /\ count'["logs"] = count["logs"]
       /\ offered' = offered
    BY <1>1, <1>2, <1>3, <1>4 DEF Pushed, Moved, Counted, Counters, TypeOK, Unread, IInv
  <1>6. /\ UNCHANGED <<FillTaken, RouteTaken, RouteUnsaid, OrderTaken, OrderUnsaid>>
       /\ Taken' = Taken - 1
       /\ Routed' = Routed - 1
       /\ Noted' = Noted - 1
       /\ Ordered' = Ordered - 1
    BY <1>1, <1>2, <1>3, <1>4 DEF Moved, Taken, Routed, Noted, Ordered, FillTaken, RouteTaken,
       RouteUnsaid, OrderTaken, OrderUnsaid, HotIn, Is
  <1>7. TypeOK /\ EveryEventCounted /\ NotesBounded
    BY DEF IInv
  <1>8. HotNotes' = HotNotes
    BY <1>5, <1>6, <1>7, Numbers, OneInHand DEF HotNotes
  <1>9. RouterNotes' = RouterNotes
    BY <1>5, <1>6, <1>7, Numbers, OneInHand DEF RouterNotes
  <1>10. OrderNotes' = OrderNotes
    BY <1>5, <1>6, <1>7, Numbers, OneInHand DEF OrderNotes
  <1>11. BarsCounted'
    BY <1>5, <1>6, <1>7, Numbers, OneInHand DEF EveryEventCounted, BarsCounted
  <1>12. RoutesCounted'
    BY <1>5, <1>6, <1>7, Numbers, OneInHand DEF EveryEventCounted, RoutesCounted
  <1>13. OrdersCounted'
    BY <1>5, <1>6, <1>7, Numbers, OneInHand DEF EveryEventCounted, OrdersCounted
  <1>14. LogsCounted'
    BY <1>5, <1>6, <1>7, Numbers, OneInHand DEF EveryEventCounted, LogsCounted
  <1>15. NotesCounted'
    BY <1>5, <1>7, <1>8, <1>9, <1>10, Numbers, NotesAreNumbers DEF EveryEventCounted, NotesCounted
  <1>16. NotesBounded'
    BY <1>5, <1>7, <1>8, <1>9, <1>10, Numbers, NotesAreNumbers DEF NotesBounded
  <1>17. StopOrder' /\ DrainOrder'
    BY <1>1, <1>2, <1>3, <1>4 DEF Pushed, Moved, Counted, TypeOK, IInv, StopOrder, DrainOrder
  <1>18. Taken = 1 /\ Routed = 1 /\ Noted = 1 /\ Ordered = 1 /\ FillTaken = 0
    BY <1>1 DEF Taken, Routed, Noted, Ordered, FillTaken, HotIn, Is
  <1>19. ring["log"] < EventsPerBar("log") * offered
    BY <1>18, <1>7, Numbers, OneInHand DEF HotNotes, RouterNotes, OrderNotes, EventsPerBar,
       EveryEventCounted, BarsCounted,
       RoutesCounted, OrdersCounted, LogsCounted, NotesBounded
  <1>20. FewBarsFit'
    BY <1>2, <1>19, PushFits DEF IInv, Moved
  <1> QED
    BY <1>4, <1>11, <1>12, <1>13, <1>14, <1>15, <1>16, <1>17, <1>20 DEF IInv, EveryEventCounted

\* The hot thread gives the fill to persistence.
LEMMA NoteFillKeeps ==
  ASSUME IInv, NoteFill
  PROVE  IInv'
  <1>1. pc["hot"] = "noteFill" /\ Push("persist0") /\ Go("hot", "command") /\ Count("fills")
    BY DEF NoteFill, At, Enter, Head
  <1>2. RingsOK' /\ Pushed("persist0") /\ PlacesOK' /\ Moved("hot", "command")
    BY <1>1, PushAdds, GoMoves DEF IInv, Positions
  <1>3. CountersOK' /\ Counted("fills")
    BY <1>1, CountAdds DEF IInv, TypeOK, CountersOK
  <1>4. TypeOK'
    BY <1>2, <1>3 DEF IInv, TypeOK, RingsOK, PlacesOK, CountersOK, Moved
  <1>5. /\ ring'["market_data"] = ring["market_data"]
       /\ Unread'["routing"] = Unread["routing"]
       /\ Unread'["command"] = Unread["command"]
       /\ Unread'["order_out"] = Unread["order_out"]
       /\ Unread'["fill_in"] = Unread["fill_in"]
       /\ Unread'["persist0"] = Unread["persist0"] + 1
       /\ Unread'["persist1"] = Unread["persist1"]
       /\ Unread'["persist3"] = Unread["persist3"]
       /\ Unread'["log"] = Unread["log"]
       /\ count'["bars"] = count["bars"]
       /\ count'["fills"] = count["fills"] + 1
       /\ count'["commands"] = count["commands"]
       /\ count'["persisted"] = count["persisted"]
       /\ count'["logs"] = count["logs"]
       /\ offered' = offered
    BY <1>1, <1>2, <1>3, <1>4 DEF Pushed, Moved, Counted, Counters, TypeOK, Unread, IInv
  <1>6. /\ UNCHANGED <<Taken, Routed, Noted, Ordered, RouteTaken, RouteUnsaid, OrderTaken, OrderUnsaid>>
       /\ FillTaken' = FillTaken - 1
    BY <1>1, <1>2, <1>3, <1>4 DEF Moved, Taken, Routed, Noted, Ordered, FillTaken, RouteTaken,
       RouteUnsaid, OrderTaken, OrderUnsaid, HotIn, Is
  <1>7. TypeOK /\ EveryEventCounted /\ NotesBounded
    BY DEF IInv
  <1>8. HotNotes' = HotNotes + 1
    BY <1>5, <1>6, <1>7, Numbers, OneInHand DEF HotNotes
  <1>9. RouterNotes' = RouterNotes
    BY <1>5, <1>6, <1>7, Numbers, OneInHand DEF RouterNotes
  <1>10. OrderNotes' = OrderNotes
    BY <1>5, <1>6, <1>7, Numbers, OneInHand DEF OrderNotes
  <1>11. BarsCounted'
    BY <1>5, <1>6, <1>7, Numbers, OneInHand DEF EveryEventCounted, BarsCounted
  <1>12. RoutesCounted'
    BY <1>5, <1>6, <1>7, Numbers, OneInHand DEF EveryEventCounted, RoutesCounted
  <1>13. OrdersCounted'
    BY <1>5, <1>6, <1>7, Numbers, OneInHand DEF EveryEventCounted, OrdersCounted
  <1>14. LogsCounted'
    BY <1>5, <1>6, <1>7, Numbers, OneInHand DEF EveryEventCounted, LogsCounted
  <1>15. NotesCounted'
    BY <1>5, <1>7, <1>8, <1>9, <1>10, Numbers, NotesAreNumbers DEF EveryEventCounted, NotesCounted
  <1>16. NotesBounded'
    BY <1>5, <1>7, <1>8, <1>9, <1>10, Numbers, NotesAreNumbers DEF NotesBounded
  <1>17. StopOrder' /\ DrainOrder'
    BY <1>1, <1>2, <1>3, <1>4 DEF Pushed, Moved, Counted, TypeOK, IInv, StopOrder, DrainOrder
  <1>18. Taken = 0 /\ Routed = 0 /\ Noted = 0 /\ Ordered = 0 /\ FillTaken = 1
    BY <1>1 DEF Taken, Routed, Noted, Ordered, FillTaken, HotIn, Is
  <1>19. ring["persist0"] < EventsPerBar("persist0") * offered
    BY <1>18, <1>7, Numbers, OneInHand DEF HotNotes, RouterNotes, OrderNotes, EventsPerBar,
       EveryEventCounted, BarsCounted,
       RoutesCounted, OrdersCounted, LogsCounted, NotesBounded
  <1>20. FewBarsFit'
    BY <1>2, <1>19, PushFits DEF IInv, Moved
  <1> QED
    BY <1>4, <1>11, <1>12, <1>13, <1>14, <1>15, <1>16, <1>17, <1>20 DEF IInv, EveryEventCounted

\* The router takes a bar.
LEMMA TakeRoutedKeeps ==
  ASSUME IInv, TakeRouted
  PROVE  IInv'
  <1>1. pc["routing"] = "route" /\ Pop("routing") /\ Go("routing", "command") /\ UNCHANGED count
    BY DEF TakeRouted, At, Enter, Head
  <1>2. RingsOK' /\ Popped("routing") /\ PlacesOK' /\ Moved("routing", "command")
    BY <1>1, PopTakes, GoMoves DEF IInv, Positions
  <1>3. CountersOK' /\ UNCHANGED count
    BY <1>1 DEF IInv, TypeOK, CountersOK
  <1>4. TypeOK'
    BY <1>2, <1>3 DEF IInv, TypeOK, RingsOK, PlacesOK, CountersOK, Moved
  <1>5. /\ ring'["market_data"] = ring["market_data"]
       /\ Unread'["routing"] = Unread["routing"] - 1
       /\ Unread'["command"] = Unread["command"]
       /\ Unread'["order_out"] = Unread["order_out"]
       /\ Unread'["fill_in"] = Unread["fill_in"]
       /\ Unread'["persist0"] = Unread["persist0"]
       /\ Unread'["persist1"] = Unread["persist1"]
       /\ Unread'["persist3"] = Unread["persist3"]
       /\ Unread'["log"] = Unread["log"]
       /\ count'["bars"] = count["bars"]
       /\ count'["fills"] = count["fills"]
       /\ count'["commands"] = count["commands"]
       /\ count'["persisted"] = count["persisted"]
       /\ count'["logs"] = count["logs"]
       /\ offered' = offered
    BY <1>1, <1>2, <1>3, <1>4 DEF Popped, Moved, Counters, TypeOK, Unread, IInv
  <1>6. /\ UNCHANGED <<Taken, Routed, Noted, Ordered, FillTaken, RouteUnsaid, OrderTaken, OrderUnsaid>>
       /\ RouteTaken' = RouteTaken + 1
    BY <1>1, <1>2, <1>3, <1>4 DEF Moved, Taken, Routed, Noted, Ordered, FillTaken, RouteTaken,
       RouteUnsaid, OrderTaken, OrderUnsaid, HotIn, Is
  <1>7. TypeOK /\ EveryEventCounted /\ NotesBounded
    BY DEF IInv
  <1>8. HotNotes' = HotNotes
    BY <1>5, <1>6, <1>7, Numbers, OneInHand DEF HotNotes
  <1>9. RouterNotes' = RouterNotes
    BY <1>5, <1>6, <1>7, Numbers, OneInHand DEF RouterNotes
  <1>10. OrderNotes' = OrderNotes
    BY <1>5, <1>6, <1>7, Numbers, OneInHand DEF OrderNotes
  <1>11. BarsCounted'
    BY <1>5, <1>6, <1>7, Numbers, OneInHand DEF EveryEventCounted, BarsCounted
  <1>12. RoutesCounted'
    BY <1>5, <1>6, <1>7, Numbers, OneInHand DEF EveryEventCounted, RoutesCounted
  <1>13. OrdersCounted'
    BY <1>5, <1>6, <1>7, Numbers, OneInHand DEF EveryEventCounted, OrdersCounted
  <1>14. LogsCounted'
    BY <1>5, <1>6, <1>7, Numbers, OneInHand DEF EveryEventCounted, LogsCounted
  <1>15. NotesCounted'
    BY <1>5, <1>7, <1>8, <1>9, <1>10, Numbers, NotesAreNumbers DEF EveryEventCounted, NotesCounted
  <1>16. NotesBounded'
    BY <1>5, <1>7, <1>8, <1>9, <1>10, Numbers, NotesAreNumbers DEF NotesBounded
  <1>17. StopOrder' /\ DrainOrder'
    BY <1>1, <1>2, <1>3, <1>4 DEF Popped, Moved, TypeOK, IInv, StopOrder, DrainOrder
  <1>18. ring' \in [Rings -> Nat] /\ UNCHANGED <<lost, offered>>
    BY <1>1, <1>2, <1>3, <1>4 DEF Popped, Moved, TypeOK
  <1>19. FewBarsFit'
    BY <1>18 DEF IInv, FewBarsFit, EventsPerBar, Room
  <1> QED
    BY <1>4, <1>11, <1>12, <1>13, <1>14, <1>15, <1>16, <1>17, <1>19 DEF IInv, EveryEventCounted

\* The router sends a command.
LEMMA SendCommandKeeps ==
  ASSUME IInv, SendCommand
  PROVE  IInv'
  <1>1. pc["routing"] = "command" /\ Push("command") /\ Go("routing", "note") /\ UNCHANGED count
    BY DEF SendCommand, At, Enter, Head
  <1>2. RingsOK' /\ Pushed("command") /\ PlacesOK' /\ Moved("routing", "note")
    BY <1>1, PushAdds, GoMoves DEF IInv, Positions
  <1>3. CountersOK' /\ UNCHANGED count
    BY <1>1 DEF IInv, TypeOK, CountersOK
  <1>4. TypeOK'
    BY <1>2, <1>3 DEF IInv, TypeOK, RingsOK, PlacesOK, CountersOK, Moved
  <1>5. /\ ring'["market_data"] = ring["market_data"]
       /\ Unread'["routing"] = Unread["routing"]
       /\ Unread'["command"] = Unread["command"] + 1
       /\ Unread'["order_out"] = Unread["order_out"]
       /\ Unread'["fill_in"] = Unread["fill_in"]
       /\ Unread'["persist0"] = Unread["persist0"]
       /\ Unread'["persist1"] = Unread["persist1"]
       /\ Unread'["persist3"] = Unread["persist3"]
       /\ Unread'["log"] = Unread["log"]
       /\ count'["bars"] = count["bars"]
       /\ count'["fills"] = count["fills"]
       /\ count'["commands"] = count["commands"]
       /\ count'["persisted"] = count["persisted"]
       /\ count'["logs"] = count["logs"]
       /\ offered' = offered
    BY <1>1, <1>2, <1>3, <1>4 DEF Pushed, Moved, Counters, TypeOK, Unread, IInv
  <1>6. /\ UNCHANGED <<Taken, Routed, Noted, Ordered, FillTaken, OrderTaken, OrderUnsaid>>
       /\ RouteTaken' = RouteTaken - 1
       /\ RouteUnsaid' = RouteUnsaid + 1
    BY <1>1, <1>2, <1>3, <1>4 DEF Moved, Taken, Routed, Noted, Ordered, FillTaken, RouteTaken,
       RouteUnsaid, OrderTaken, OrderUnsaid, HotIn, Is
  <1>7. TypeOK /\ EveryEventCounted /\ NotesBounded
    BY DEF IInv
  <1>8. HotNotes' = HotNotes
    BY <1>5, <1>6, <1>7, Numbers, OneInHand DEF HotNotes
  <1>9. RouterNotes' = RouterNotes
    BY <1>5, <1>6, <1>7, Numbers, OneInHand DEF RouterNotes
  <1>10. OrderNotes' = OrderNotes
    BY <1>5, <1>6, <1>7, Numbers, OneInHand DEF OrderNotes
  <1>11. BarsCounted'
    BY <1>5, <1>6, <1>7, Numbers, OneInHand DEF EveryEventCounted, BarsCounted
  <1>12. RoutesCounted'
    BY <1>5, <1>6, <1>7, Numbers, OneInHand DEF EveryEventCounted, RoutesCounted
  <1>13. OrdersCounted'
    BY <1>5, <1>6, <1>7, Numbers, OneInHand DEF EveryEventCounted, OrdersCounted
  <1>14. LogsCounted'
    BY <1>5, <1>6, <1>7, Numbers, OneInHand DEF EveryEventCounted, LogsCounted
  <1>15. NotesCounted'
    BY <1>5, <1>7, <1>8, <1>9, <1>10, Numbers, NotesAreNumbers DEF EveryEventCounted, NotesCounted
  <1>16. NotesBounded'
    BY <1>5, <1>7, <1>8, <1>9, <1>10, Numbers, NotesAreNumbers DEF NotesBounded
  <1>17. StopOrder' /\ DrainOrder'
    BY <1>1, <1>2, <1>3, <1>4 DEF Pushed, Moved, TypeOK, IInv, StopOrder, DrainOrder
  <1>18. RouteTaken = 1 /\ RouteUnsaid = 0
    BY <1>1 DEF RouteTaken, RouteUnsaid, HotIn, Is
  <1>19. ring["command"] < EventsPerBar("command") * offered
    BY <1>18, <1>7, Numbers, OneInHand DEF HotNotes, RouterNotes, OrderNotes, EventsPerBar,
       EveryEventCounted, BarsCounted,
       RoutesCounted, OrdersCounted, LogsCounted, NotesBounded
  <1>20. FewBarsFit'
    BY <1>2, <1>19, PushFits DEF IInv, Moved
  <1> QED
    BY <1>4, <1>11, <1>12, <1>13, <1>14, <1>15, <1>16, <1>17, <1>20 DEF IInv, EveryEventCounted

\* The router gives the bar to persistence.
LEMMA NoteRoutedKeeps ==
  ASSUME IInv, NoteRouted
  PROVE  IInv'
  <1>1. pc["routing"] = "note" /\ Push("persist1") /\ Go("routing", "route") /\ UNCHANGED count
    BY DEF NoteRouted, At, Enter, Head
  <1>2. RingsOK' /\ Pushed("persist1") /\ PlacesOK' /\ Moved("routing", "route")
    BY <1>1, PushAdds, GoMoves DEF IInv, Positions
  <1>3. CountersOK' /\ UNCHANGED count
    BY <1>1 DEF IInv, TypeOK, CountersOK
  <1>4. TypeOK'
    BY <1>2, <1>3 DEF IInv, TypeOK, RingsOK, PlacesOK, CountersOK, Moved
  <1>5. /\ ring'["market_data"] = ring["market_data"]
       /\ Unread'["routing"] = Unread["routing"]
       /\ Unread'["command"] = Unread["command"]
       /\ Unread'["order_out"] = Unread["order_out"]
       /\ Unread'["fill_in"] = Unread["fill_in"]
       /\ Unread'["persist0"] = Unread["persist0"]
       /\ Unread'["persist1"] = Unread["persist1"] + 1
       /\ Unread'["persist3"] = Unread["persist3"]
       /\ Unread'["log"] = Unread["log"]
       /\ count'["bars"] = count["bars"]
       /\ count'["fills"] = count["fills"]
       /\ count'["commands"] = count["commands"]
       /\ count'["persisted"] = count["persisted"]
       /\ count'["logs"] = count["logs"]
       /\ offered' = offered
    BY <1>1, <1>2, <1>3, <1>4 DEF Pushed, Moved, Counters, TypeOK, Unread, IInv
  <1>6. /\ UNCHANGED <<Taken, Routed, Noted, Ordered, FillTaken, RouteTaken, OrderTaken, OrderUnsaid>>
       /\ RouteUnsaid' = RouteUnsaid - 1
    BY <1>1, <1>2, <1>3, <1>4 DEF Moved, Taken, Routed, Noted, Ordered, FillTaken, RouteTaken,
       RouteUnsaid, OrderTaken, OrderUnsaid, HotIn, Is
  <1>7. TypeOK /\ EveryEventCounted /\ NotesBounded
    BY DEF IInv
  <1>8. HotNotes' = HotNotes
    BY <1>5, <1>6, <1>7, Numbers, OneInHand DEF HotNotes
  <1>9. RouterNotes' = RouterNotes + 1
    BY <1>5, <1>6, <1>7, Numbers, OneInHand DEF RouterNotes
  <1>10. OrderNotes' = OrderNotes
    BY <1>5, <1>6, <1>7, Numbers, OneInHand DEF OrderNotes
  <1>11. BarsCounted'
    BY <1>5, <1>6, <1>7, Numbers, OneInHand DEF EveryEventCounted, BarsCounted
  <1>12. RoutesCounted'
    BY <1>5, <1>6, <1>7, Numbers, OneInHand DEF EveryEventCounted, RoutesCounted
  <1>13. OrdersCounted'
    BY <1>5, <1>6, <1>7, Numbers, OneInHand DEF EveryEventCounted, OrdersCounted
  <1>14. LogsCounted'
    BY <1>5, <1>6, <1>7, Numbers, OneInHand DEF EveryEventCounted, LogsCounted
  <1>15. NotesCounted'
    BY <1>5, <1>7, <1>8, <1>9, <1>10, Numbers, NotesAreNumbers DEF EveryEventCounted, NotesCounted
  <1>16. NotesBounded'
    BY <1>5, <1>7, <1>8, <1>9, <1>10, Numbers, NotesAreNumbers DEF NotesBounded
  <1>17. StopOrder' /\ DrainOrder'
    BY <1>1, <1>2, <1>3, <1>4 DEF Pushed, Moved, TypeOK, IInv, StopOrder, DrainOrder
  <1>18. RouteTaken = 0 /\ RouteUnsaid = 1
    BY <1>1 DEF RouteTaken, RouteUnsaid, HotIn, Is
  <1>19. ring["persist1"] < EventsPerBar("persist1") * offered
    BY <1>18, <1>7, Numbers, OneInHand DEF HotNotes, RouterNotes, OrderNotes, EventsPerBar,
       EveryEventCounted, BarsCounted,
       RoutesCounted, OrdersCounted, LogsCounted, NotesBounded
  <1>20. FewBarsFit'
    BY <1>2, <1>19, PushFits DEF IInv, Moved
  <1> QED
    BY <1>4, <1>11, <1>12, <1>13, <1>14, <1>15, <1>16, <1>17, <1>20 DEF IInv, EveryEventCounted

\* The exchange takes an order.
LEMMA TakeOrderKeeps ==
  ASSUME IInv, TakeOrder
  PROVE  IInv'
  <1>1. pc["execution"] = "order" /\ Pop("order_out") /\ Go("execution", "fill") /\ UNCHANGED count
    BY DEF TakeOrder, At, Enter, Head
  <1>2. RingsOK' /\ Popped("order_out") /\ PlacesOK' /\ Moved("execution", "fill")
    BY <1>1, PopTakes, GoMoves DEF IInv, Positions
  <1>3. CountersOK' /\ UNCHANGED count
    BY <1>1 DEF IInv, TypeOK, CountersOK
  <1>4. TypeOK'
    BY <1>2, <1>3 DEF IInv, TypeOK, RingsOK, PlacesOK, CountersOK, Moved
  <1>5. /\ ring'["market_data"] = ring["market_data"]
       /\ Unread'["routing"] = Unread["routing"]
       /\ Unread'["command"] = Unread["command"]
       /\ Unread'["order_out"] = Unread["order_out"] - 1
       /\ Unread'["fill_in"] = Unread["fill_in"]
       /\ Unread'["persist0"] = Unread["persist0"]
       /\ Unread'["persist1"] = Unread["persist1"]
       /\ Unread'["persist3"] = Unread["persist3"]
       /\ Unread'["log"] = Unread["log"]
       /\ count'["bars"] = count["bars"]
       /\ count'["fills"] = count["fills"]
       /\ count'["commands"] = count["commands"]
       /\ count'["persisted"] = count["persisted"]
       /\ count'["logs"] = count["logs"]
       /\ offered' = offered
    BY <1>1, <1>2, <1>3, <1>4 DEF Popped, Moved, Counters, TypeOK, Unread, IInv
  <1>6. /\ UNCHANGED <<Taken, Routed, Noted, Ordered, FillTaken, RouteTaken, RouteUnsaid, OrderUnsaid>>
       /\ OrderTaken' = OrderTaken + 1
    BY <1>1, <1>2, <1>3, <1>4 DEF Moved, Taken, Routed, Noted, Ordered, FillTaken, RouteTaken,
       RouteUnsaid, OrderTaken, OrderUnsaid, HotIn, Is
  <1>7. TypeOK /\ EveryEventCounted /\ NotesBounded
    BY DEF IInv
  <1>8. HotNotes' = HotNotes
    BY <1>5, <1>6, <1>7, Numbers, OneInHand DEF HotNotes
  <1>9. RouterNotes' = RouterNotes
    BY <1>5, <1>6, <1>7, Numbers, OneInHand DEF RouterNotes
  <1>10. OrderNotes' = OrderNotes
    BY <1>5, <1>6, <1>7, Numbers, OneInHand DEF OrderNotes
  <1>11. BarsCounted'
    BY <1>5, <1>6, <1>7, Numbers, OneInHand DEF EveryEventCounted, BarsCounted
  <1>12. RoutesCounted'
    BY <1>5, <1>6, <1>7, Numbers, OneInHand DEF EveryEventCounted, RoutesCounted
  <1>13. OrdersCounted'
    BY <1>5, <1>6, <1>7, Numbers, OneInHand DEF EveryEventCounted, OrdersCounted
  <1>14. LogsCounted'
    BY <1>5, <1>6, <1>7, Numbers, OneInHand DEF EveryEventCounted, LogsCounted
  <1>15. NotesCounted'
    BY <1>5, <1>7, <1>8, <1>9, <1>10, Numbers, NotesAreNumbers DEF EveryEventCounted, NotesCounted
  <1>16. NotesBounded'
    BY <1>5, <1>7, <1>8, <1>9, <1>10, Numbers, NotesAreNumbers DEF NotesBounded
  <1>17. StopOrder' /\ DrainOrder'
    BY <1>1, <1>2, <1>3, <1>4 DEF Popped, Moved, TypeOK, IInv, StopOrder, DrainOrder
  <1>18. ring' \in [Rings -> Nat] /\ UNCHANGED <<lost, offered>>
    BY <1>1, <1>2, <1>3, <1>4 DEF Popped, Moved, TypeOK
  <1>19. FewBarsFit'
    BY <1>18 DEF IInv, FewBarsFit, EventsPerBar, Room
  <1> QED
    BY <1>4, <1>11, <1>12, <1>13, <1>14, <1>15, <1>16, <1>17, <1>19 DEF IInv, EveryEventCounted

\* The exchange sends a fill.
LEMMA SendFillKeeps ==
  ASSUME IInv, SendFill
  PROVE  IInv'
  <1>1. pc["execution"] = "fill" /\ Push("fill_in") /\ Go("execution", "note") /\ UNCHANGED count
    BY DEF SendFill, At, Enter, Head
  <1>2. RingsOK' /\ Pushed("fill_in") /\ PlacesOK' /\ Moved("execution", "note")
    BY <1>1, PushAdds, GoMoves DEF IInv, Positions
  <1>3. CountersOK' /\ UNCHANGED count
    BY <1>1 DEF IInv, TypeOK, CountersOK
  <1>4. TypeOK'
    BY <1>2, <1>3 DEF IInv, TypeOK, RingsOK, PlacesOK, CountersOK, Moved
  <1>5. /\ ring'["market_data"] = ring["market_data"]
       /\ Unread'["routing"] = Unread["routing"]
       /\ Unread'["command"] = Unread["command"]
       /\ Unread'["order_out"] = Unread["order_out"]
       /\ Unread'["fill_in"] = Unread["fill_in"] + 1
       /\ Unread'["persist0"] = Unread["persist0"]
       /\ Unread'["persist1"] = Unread["persist1"]
       /\ Unread'["persist3"] = Unread["persist3"]
       /\ Unread'["log"] = Unread["log"]
       /\ count'["bars"] = count["bars"]
       /\ count'["fills"] = count["fills"]
       /\ count'["commands"] = count["commands"]
       /\ count'["persisted"] = count["persisted"]
       /\ count'["logs"] = count["logs"]
       /\ offered' = offered
    BY <1>1, <1>2, <1>3, <1>4 DEF Pushed, Moved, Counters, TypeOK, Unread, IInv
  <1>6. /\ UNCHANGED <<Taken, Routed, Noted, Ordered, FillTaken, RouteTaken, RouteUnsaid>>
       /\ OrderTaken' = OrderTaken - 1
       /\ OrderUnsaid' = OrderUnsaid + 1
    BY <1>1, <1>2, <1>3, <1>4 DEF Moved, Taken, Routed, Noted, Ordered, FillTaken, RouteTaken,
       RouteUnsaid, OrderTaken, OrderUnsaid, HotIn, Is
  <1>7. TypeOK /\ EveryEventCounted /\ NotesBounded
    BY DEF IInv
  <1>8. HotNotes' = HotNotes
    BY <1>5, <1>6, <1>7, Numbers, OneInHand DEF HotNotes
  <1>9. RouterNotes' = RouterNotes
    BY <1>5, <1>6, <1>7, Numbers, OneInHand DEF RouterNotes
  <1>10. OrderNotes' = OrderNotes
    BY <1>5, <1>6, <1>7, Numbers, OneInHand DEF OrderNotes
  <1>11. BarsCounted'
    BY <1>5, <1>6, <1>7, Numbers, OneInHand DEF EveryEventCounted, BarsCounted
  <1>12. RoutesCounted'
    BY <1>5, <1>6, <1>7, Numbers, OneInHand DEF EveryEventCounted, RoutesCounted
  <1>13. OrdersCounted'
    BY <1>5, <1>6, <1>7, Numbers, OneInHand DEF EveryEventCounted, OrdersCounted
  <1>14. LogsCounted'
    BY <1>5, <1>6, <1>7, Numbers, OneInHand DEF EveryEventCounted, LogsCounted
  <1>15. NotesCounted'
    BY <1>5, <1>7, <1>8, <1>9, <1>10, Numbers, NotesAreNumbers DEF EveryEventCounted, NotesCounted
  <1>16. NotesBounded'
    BY <1>5, <1>7, <1>8, <1>9, <1>10, Numbers, NotesAreNumbers DEF NotesBounded
  <1>17. StopOrder' /\ DrainOrder'
    BY <1>1, <1>2, <1>3, <1>4 DEF Pushed, Moved, TypeOK, IInv, StopOrder, DrainOrder
  <1>18. OrderTaken = 1 /\ OrderUnsaid = 0
    BY <1>1 DEF OrderTaken, OrderUnsaid, HotIn, Is
  <1>19. ring["fill_in"] < EventsPerBar("fill_in") * offered
    BY <1>18, <1>7, Numbers, OneInHand DEF HotNotes, RouterNotes, OrderNotes, EventsPerBar,
       EveryEventCounted, BarsCounted,
       RoutesCounted, OrdersCounted, LogsCounted, NotesBounded
  <1>20. FewBarsFit'
    BY <1>2, <1>19, PushFits DEF IInv, Moved
  <1> QED
    BY <1>4, <1>11, <1>12, <1>13, <1>14, <1>15, <1>16, <1>17, <1>20 DEF IInv, EveryEventCounted

\* The exchange gives the order to persistence.
LEMMA NoteOrderKeeps ==
  ASSUME IInv, NoteOrder
  PROVE  IInv'
  <1>1. pc["execution"] = "note" /\ Push("persist3") /\ Go("execution", "order") /\ UNCHANGED count
    BY DEF NoteOrder, At, Enter, Head
  <1>2. RingsOK' /\ Pushed("persist3") /\ PlacesOK' /\ Moved("execution", "order")
    BY <1>1, PushAdds, GoMoves DEF IInv, Positions
  <1>3. CountersOK' /\ UNCHANGED count
    BY <1>1 DEF IInv, TypeOK, CountersOK
  <1>4. TypeOK'
    BY <1>2, <1>3 DEF IInv, TypeOK, RingsOK, PlacesOK, CountersOK, Moved
  <1>5. /\ ring'["market_data"] = ring["market_data"]
       /\ Unread'["routing"] = Unread["routing"]
       /\ Unread'["command"] = Unread["command"]
       /\ Unread'["order_out"] = Unread["order_out"]
       /\ Unread'["fill_in"] = Unread["fill_in"]
       /\ Unread'["persist0"] = Unread["persist0"]
       /\ Unread'["persist1"] = Unread["persist1"]
       /\ Unread'["persist3"] = Unread["persist3"] + 1
       /\ Unread'["log"] = Unread["log"]
       /\ count'["bars"] = count["bars"]
       /\ count'["fills"] = count["fills"]
       /\ count'["commands"] = count["commands"]
       /\ count'["persisted"] = count["persisted"]
       /\ count'["logs"] = count["logs"]
       /\ offered' = offered
    BY <1>1, <1>2, <1>3, <1>4 DEF Pushed, Moved, Counters, TypeOK, Unread, IInv
  <1>6. /\ UNCHANGED <<Taken, Routed, Noted, Ordered, FillTaken, RouteTaken, RouteUnsaid, OrderTaken>>
       /\ OrderUnsaid' = OrderUnsaid - 1
    BY <1>1, <1>2, <1>3, <1>4 DEF Moved, Taken, Routed, Noted, Ordered, FillTaken, RouteTaken,
       RouteUnsaid, OrderTaken, OrderUnsaid, HotIn, Is
  <1>7. TypeOK /\ EveryEventCounted /\ NotesBounded
    BY DEF IInv
  <1>8. HotNotes' = HotNotes
    BY <1>5, <1>6, <1>7, Numbers, OneInHand DEF HotNotes
  <1>9. RouterNotes' = RouterNotes
    BY <1>5, <1>6, <1>7, Numbers, OneInHand DEF RouterNotes
  <1>10. OrderNotes' = OrderNotes + 1
    BY <1>5, <1>6, <1>7, Numbers, OneInHand DEF OrderNotes
  <1>11. BarsCounted'
    BY <1>5, <1>6, <1>7, Numbers, OneInHand DEF EveryEventCounted, BarsCounted
  <1>12. RoutesCounted'
    BY <1>5, <1>6, <1>7, Numbers, OneInHand DEF EveryEventCounted, RoutesCounted
  <1>13. OrdersCounted'
    BY <1>5, <1>6, <1>7, Numbers, OneInHand DEF EveryEventCounted, OrdersCounted
  <1>14. LogsCounted'
    BY <1>5, <1>6, <1>7, Numbers, OneInHand DEF EveryEventCounted, LogsCounted
  <1>15. NotesCounted'
    BY <1>5, <1>7, <1>8, <1>9, <1>10, Numbers, NotesAreNumbers DEF EveryEventCounted, NotesCounted
  <1>16. NotesBounded'
    BY <1>5, <1>7, <1>8, <1>9, <1>10, Numbers, NotesAreNumbers DEF NotesBounded
  <1>17. StopOrder' /\ DrainOrder'
    BY <1>1, <1>2, <1>3, <1>4 DEF Pushed, Moved, TypeOK, IInv, StopOrder, DrainOrder
  <1>18. OrderTaken = 0 /\ OrderUnsaid = 1
    BY <1>1 DEF OrderTaken, OrderUnsaid, HotIn, Is
  <1>19. ring["persist3"] < EventsPerBar("persist3") * offered
    BY <1>18, <1>7, Numbers, OneInHand DEF HotNotes, RouterNotes, OrderNotes, EventsPerBar,
       EveryEventCounted, BarsCounted,
       RoutesCounted, OrdersCounted, LogsCounted, NotesBounded
  <1>20. FewBarsFit'
    BY <1>2, <1>19, PushFits DEF IInv, Moved
  <1> QED
    BY <1>4, <1>11, <1>12, <1>13, <1>14, <1>15, <1>16, <1>17, <1>20 DEF IInv, EveryEventCounted

\* The hot thread takes a bar.
LEMMA TakeBarKeeps ==
  ASSUME IInv, TakeBar
  PROVE  IInv'
  <1>1. CASE pc["hot"] = "bar" /\ Pop("market_data") /\ Go("hot", "route") /\ UNCHANGED count
    <2>1. RingsOK' /\ Popped("market_data") /\ PlacesOK' /\ Moved("hot", "route")
      BY <1>1, PopTakes, GoMoves DEF IInv, Positions
    <2>2. CountersOK' /\ UNCHANGED count
      BY <1>1 DEF IInv, TypeOK, CountersOK
    <2>3. TypeOK'
      BY <2>1, <2>2 DEF IInv, TypeOK, RingsOK, PlacesOK, CountersOK, Moved
    <2>4. /\ ring'["market_data"] = ring["market_data"] - 1
         /\ Unread'["routing"] = Unread["routing"]
         /\ Unread'["command"] = Unread["command"]
         /\ Unread'["order_out"] = Unread["order_out"]
         /\ Unread'["fill_in"] = Unread["fill_in"]
         /\ Unread'["persist0"] = Unread["persist0"]
         /\ Unread'["persist1"] = Unread["persist1"]
         /\ Unread'["persist3"] = Unread["persist3"]
         /\ Unread'["log"] = Unread["log"]
         /\ count'["bars"] = count["bars"]
         /\ count'["fills"] = count["fills"]
         /\ count'["commands"] = count["commands"]
         /\ count'["persisted"] = count["persisted"]
         /\ count'["logs"] = count["logs"]
         /\ offered' = offered
      BY <1>1, <2>1, <2>2, <2>3 DEF Popped, Moved, Counters, TypeOK, Unread, IInv
    <2>5. /\ UNCHANGED <<Routed, Noted, Ordered, FillTaken, RouteTaken, RouteUnsaid, OrderTaken, OrderUnsaid>>
         /\ Taken' = Taken + 1
      BY <1>1, <2>1, <2>2, <2>3 DEF Moved, Taken, Routed, Noted, Ordered, FillTaken, RouteTaken,
         RouteUnsaid, OrderTaken, OrderUnsaid, HotIn, Is
    <2>6. TypeOK /\ EveryEventCounted /\ NotesBounded
      BY DEF IInv
    <2>7. HotNotes' = HotNotes
      BY <2>4, <2>5, <2>6, Numbers, OneInHand DEF HotNotes
    <2>8. RouterNotes' = RouterNotes
      BY <2>4, <2>5, <2>6, Numbers, OneInHand DEF RouterNotes
    <2>9. OrderNotes' = OrderNotes
      BY <2>4, <2>5, <2>6, Numbers, OneInHand DEF OrderNotes
    <2>10. BarsCounted'
      BY <2>4, <2>5, <2>6, Numbers, OneInHand DEF EveryEventCounted, BarsCounted
    <2>11. RoutesCounted'
      BY <2>4, <2>5, <2>6, Numbers, OneInHand DEF EveryEventCounted, RoutesCounted
    <2>12. OrdersCounted'
      BY <2>4, <2>5, <2>6, Numbers, OneInHand DEF EveryEventCounted, OrdersCounted
    <2>13. LogsCounted'
      BY <2>4, <2>5, <2>6, Numbers, OneInHand DEF EveryEventCounted, LogsCounted
    <2>14. NotesCounted'
      BY <2>4, <2>6, <2>7, <2>8, <2>9, Numbers, NotesAreNumbers DEF EveryEventCounted, NotesCounted
    <2>15. NotesBounded'
      BY <2>4, <2>6, <2>7, <2>8, <2>9, Numbers, NotesAreNumbers DEF NotesBounded
    <2>16. StopOrder' /\ DrainOrder'
      BY <1>1, <2>1, <2>2, <2>3 DEF Popped, Moved, TypeOK, IInv, StopOrder, DrainOrder
    <2>17. ring' \in [Rings -> Nat] /\ UNCHANGED <<lost, offered>>
      BY <1>1, <2>1, <2>2, <2>3 DEF Popped, Moved, TypeOK
    <2>18. FewBarsFit'
      BY <2>17 DEF IInv, FewBarsFit, EventsPerBar, Room
    <2> QED
      BY <2>3, <2>10, <2>11, <2>12, <2>13, <2>14, <2>15, <2>16, <2>18 DEF IInv, EveryEventCounted
  <1>2. CASE pc["hot"] = "bar" /\ UNCHANGED <<ring, lost, count>> /\ Go("hot", "fill")
    <2>1. PlacesOK' /\ Moved("hot", "fill")
      BY <1>2, GoMoves DEF IInv, Positions
    <2>2. TypeOK'
      BY <1>2, <2>1 DEF IInv, TypeOK, PlacesOK, Moved
    <2> QED
      BY <1>2, <2>1, <2>2 DEF Moved, TypeOK, Unread, HotNotes, RouterNotes, OrderNotes, Taken,
         Routed, Noted, Ordered, FillTaken, RouteTaken, RouteUnsaid, OrderTaken,
       OrderUnsaid, HotIn, Is, IInv, EveryEventCounted, NotesBounded, BarsCounted, RoutesCounted,
       OrdersCounted,
       NotesCounted, LogsCounted, StopOrder, DrainOrder, FewBarsFit, EventsPerBar, Room
  <1> QED
    BY <1>1, <1>2 DEF TakeBar, At, Enter, Head, IsEmpty

\* The hot thread takes a fill.
LEMMA TakeFillKeeps ==
  ASSUME IInv, TakeFill
  PROVE  IInv'
  <1>1. CASE pc["hot"] = "fill" /\ Pop("fill_in") /\ Go("hot", "noteFill") /\ UNCHANGED count
    <2>1. RingsOK' /\ Popped("fill_in") /\ PlacesOK' /\ Moved("hot", "noteFill")
      BY <1>1, PopTakes, GoMoves DEF IInv, Positions
    <2>2. CountersOK' /\ UNCHANGED count
      BY <1>1 DEF IInv, TypeOK, CountersOK
    <2>3. TypeOK'
      BY <2>1, <2>2 DEF IInv, TypeOK, RingsOK, PlacesOK, CountersOK, Moved
    <2>4. /\ ring'["market_data"] = ring["market_data"]
         /\ Unread'["routing"] = Unread["routing"]
         /\ Unread'["command"] = Unread["command"]
         /\ Unread'["order_out"] = Unread["order_out"]
         /\ Unread'["fill_in"] = Unread["fill_in"] - 1
         /\ Unread'["persist0"] = Unread["persist0"]
         /\ Unread'["persist1"] = Unread["persist1"]
         /\ Unread'["persist3"] = Unread["persist3"]
         /\ Unread'["log"] = Unread["log"]
         /\ count'["bars"] = count["bars"]
         /\ count'["fills"] = count["fills"]
         /\ count'["commands"] = count["commands"]
         /\ count'["persisted"] = count["persisted"]
         /\ count'["logs"] = count["logs"]
         /\ offered' = offered
      BY <1>1, <2>1, <2>2, <2>3 DEF Popped, Moved, Counters, TypeOK, Unread, IInv
    <2>5. /\ UNCHANGED <<Taken, Routed, Noted, Ordered, RouteTaken, RouteUnsaid, OrderTaken, OrderUnsaid>>
         /\ FillTaken' = FillTaken + 1
      BY <1>1, <2>1, <2>2, <2>3 DEF Moved, Taken, Routed, Noted, Ordered, FillTaken, RouteTaken,
         RouteUnsaid, OrderTaken, OrderUnsaid, HotIn, Is
    <2>6. TypeOK /\ EveryEventCounted /\ NotesBounded
      BY DEF IInv
    <2>7. HotNotes' = HotNotes
      BY <2>4, <2>5, <2>6, Numbers, OneInHand DEF HotNotes
    <2>8. RouterNotes' = RouterNotes
      BY <2>4, <2>5, <2>6, Numbers, OneInHand DEF RouterNotes
    <2>9. OrderNotes' = OrderNotes
      BY <2>4, <2>5, <2>6, Numbers, OneInHand DEF OrderNotes
    <2>10. BarsCounted'
      BY <2>4, <2>5, <2>6, Numbers, OneInHand DEF EveryEventCounted, BarsCounted
    <2>11. RoutesCounted'
      BY <2>4, <2>5, <2>6, Numbers, OneInHand DEF EveryEventCounted, RoutesCounted
    <2>12. OrdersCounted'
      BY <2>4, <2>5, <2>6, Numbers, OneInHand DEF EveryEventCounted, OrdersCounted
    <2>13. LogsCounted'
      BY <2>4, <2>5, <2>6, Numbers, OneInHand DEF EveryEventCounted, LogsCounted
    <2>14. NotesCounted'
      BY <2>4, <2>6, <2>7, <2>8, <2>9, Numbers, NotesAreNumbers DEF EveryEventCounted, NotesCounted
    <2>15. NotesBounded'
      BY <2>4, <2>6, <2>7, <2>8, <2>9, Numbers, NotesAreNumbers DEF NotesBounded
    <2>16. StopOrder' /\ DrainOrder'
      BY <1>1, <2>1, <2>2, <2>3 DEF Popped, Moved, TypeOK, IInv, StopOrder, DrainOrder
    <2>17. ring' \in [Rings -> Nat] /\ UNCHANGED <<lost, offered>>
      BY <1>1, <2>1, <2>2, <2>3 DEF Popped, Moved, TypeOK
    <2>18. FewBarsFit'
      BY <2>17 DEF IInv, FewBarsFit, EventsPerBar, Room
    <2> QED
      BY <2>3, <2>10, <2>11, <2>12, <2>13, <2>14, <2>15, <2>16, <2>18 DEF IInv, EveryEventCounted
  <1>2. CASE pc["hot"] = "fill" /\ UNCHANGED <<ring, lost, count>> /\ Go("hot", "command")
    <2>1. PlacesOK' /\ Moved("hot", "command")
      BY <1>2, GoMoves DEF IInv, Positions
    <2>2. TypeOK'
      BY <1>2, <2>1 DEF IInv, TypeOK, PlacesOK, Moved
    <2> QED
      BY <1>2, <2>1, <2>2 DEF Moved, TypeOK, Unread, HotNotes, RouterNotes, OrderNotes, Taken,
         Routed, Noted, Ordered, FillTaken, RouteTaken, RouteUnsaid, OrderTaken,
       OrderUnsaid, HotIn, Is, IInv, EveryEventCounted, NotesBounded, BarsCounted, RoutesCounted,
       OrdersCounted,
       NotesCounted, LogsCounted, StopOrder, DrainOrder, FewBarsFit, EventsPerBar, Room
  <1> QED
    BY <1>1, <1>2 DEF TakeFill, At, Enter, Head, IsEmpty

\* The hot thread takes a command.
LEMMA TakeCommandKeeps ==
  ASSUME IInv, TakeCommand
  PROVE  IInv'
  <1>1. CASE pc["hot"] = "command" /\ Pop("command") /\ Go("hot", "bar") /\ Count("commands")
    <2>1. RingsOK' /\ Popped("command") /\ PlacesOK' /\ Moved("hot", "bar")
      BY <1>1, PopTakes, GoMoves DEF IInv, Positions
    <2>2. CountersOK' /\ Counted("commands")
      BY <1>1, CountAdds DEF IInv, TypeOK, CountersOK
    <2>3. TypeOK'
      BY <2>1, <2>2 DEF IInv, TypeOK, RingsOK, PlacesOK, CountersOK, Moved
    <2>4. /\ ring'["market_data"] = ring["market_data"]
         /\ Unread'["routing"] = Unread["routing"]
         /\ Unread'["command"] = Unread["command"] - 1
         /\ Unread'["order_out"] = Unread["order_out"]
         /\ Unread'["fill_in"] = Unread["fill_in"]
         /\ Unread'["persist0"] = Unread["persist0"]
         /\ Unread'["persist1"] = Unread["persist1"]
         /\ Unread'["persist3"] = Unread["persist3"]
         /\ Unread'["log"] = Unread["log"]
         /\ count'["bars"] = count["bars"]
         /\ count'["fills"] = count["fills"]
         /\ count'["commands"] = count["commands"] + 1
         /\ count'["persisted"] = count["persisted"]
         /\ count'["logs"] = count["logs"]
         /\ offered' = offered
      BY <1>1, <2>1, <2>2, <2>3 DEF Popped, Moved, Counted, Counters, TypeOK, Unread, IInv
    <2>5. /\ UNCHANGED <<Taken, Routed, Noted, Ordered, FillTaken, RouteTaken, RouteUnsaid, OrderTaken, OrderUnsaid>>
      BY <1>1, <2>1, <2>2, <2>3 DEF Moved, Taken, Routed, Noted, Ordered, FillTaken, RouteTaken,
         RouteUnsaid, OrderTaken, OrderUnsaid, HotIn, Is
    <2>6. TypeOK /\ EveryEventCounted /\ NotesBounded
      BY DEF IInv
    <2>7. HotNotes' = HotNotes
      BY <2>4, <2>5, <2>6, Numbers, OneInHand DEF HotNotes
    <2>8. RouterNotes' = RouterNotes
      BY <2>4, <2>5, <2>6, Numbers, OneInHand DEF RouterNotes
    <2>9. OrderNotes' = OrderNotes
      BY <2>4, <2>5, <2>6, Numbers, OneInHand DEF OrderNotes
    <2>10. BarsCounted'
      BY <2>4, <2>5, <2>6, Numbers, OneInHand DEF EveryEventCounted, BarsCounted
    <2>11. RoutesCounted'
      BY <2>4, <2>5, <2>6, Numbers, OneInHand DEF EveryEventCounted, RoutesCounted
    <2>12. OrdersCounted'
      BY <2>4, <2>5, <2>6, Numbers, OneInHand DEF EveryEventCounted, OrdersCounted
    <2>13. LogsCounted'
      BY <2>4, <2>5, <2>6, Numbers, OneInHand DEF EveryEventCounted, LogsCounted
    <2>14. NotesCounted'
      BY <2>4, <2>6, <2>7, <2>8, <2>9, Numbers, NotesAreNumbers DEF EveryEventCounted, NotesCounted
    <2>15. NotesBounded'
      BY <2>4, <2>6, <2>7, <2>8, <2>9, Numbers, NotesAreNumbers DEF NotesBounded
    <2>16. StopOrder' /\ DrainOrder'
      BY <1>1, <2>1, <2>2, <2>3 DEF Popped, Moved, Counted, TypeOK, IInv, StopOrder, DrainOrder
    <2>17. ring' \in [Rings -> Nat] /\ UNCHANGED <<lost, offered>>
      BY <1>1, <2>1, <2>2, <2>3 DEF Popped, Moved, Counted, TypeOK
    <2>18. FewBarsFit'
      BY <2>17 DEF IInv, FewBarsFit, EventsPerBar, Room
    <2> QED
      BY <2>3, <2>10, <2>11, <2>12, <2>13, <2>14, <2>15, <2>16, <2>18 DEF IInv, EveryEventCounted
  <1>2. CASE pc["hot"] = "command" /\ UNCHANGED <<ring, lost, count>> /\ Go("hot", "bar")
    <2>1. PlacesOK' /\ Moved("hot", "bar")
      BY <1>2, GoMoves DEF IInv, Positions
    <2>2. TypeOK'
      BY <1>2, <2>1 DEF IInv, TypeOK, PlacesOK, Moved
    <2> QED
      BY <1>2, <2>1, <2>2 DEF Moved, TypeOK, Unread, HotNotes, RouterNotes, OrderNotes, Taken,
         Routed, Noted, Ordered, FillTaken, RouteTaken, RouteUnsaid, OrderTaken,
       OrderUnsaid, HotIn, Is, IInv, EveryEventCounted, NotesBounded, BarsCounted, RoutesCounted,
       OrdersCounted,
       NotesCounted, LogsCounted, StopOrder, DrainOrder, FewBarsFit, EventsPerBar, Room
  <1> QED
    BY <1>1, <1>2 DEF TakeCommand, At, Enter, Head, IsEmpty

\* A worker sees the flag of stop.
LEMMA EndWorkerKeeps ==
  ASSUME IInv, NEW t \in Workers, EndWorker(t)
  PROVE  IInv'
  <1>1. pc[t] = Head[t] /\ stopWorkers /\ Go(t, "ended") /\ UNCHANGED <<ring, lost, count>>
    BY DEF EndWorker, End, At
  <1>2. "ended" \in Positions[t] /\ t \in Threads
    BY DEF Positions
  <1>3. PlacesOK' /\ Moved(t, "ended")
    BY <1>1, <1>2, GoMoves DEF IInv
  <1>4. TypeOK'
    BY <1>1, <1>3 DEF IInv, TypeOK, PlacesOK, Moved
  <1> QED
    BY <1>1, <1>3, <1>4 DEF Moved, Head, TypeOK, Unread, HotNotes, RouterNotes, OrderNotes, Taken,
       Routed, Noted, Ordered, FillTaken, RouteTaken, RouteUnsaid, OrderTaken,
       OrderUnsaid, HotIn, Is, IInv, EveryEventCounted, NotesBounded, BarsCounted, RoutesCounted,
       OrdersCounted,
       NotesCounted, LogsCounted, StopOrder, DrainOrder, FewBarsFit, EventsPerBar, Room

\* Persistence counts what it pops, and disturbs nothing else.
LEMMA PersistKeeps ==
  ASSUME IInv, TypeOK', NEW r \in {"persist0", "persist1", "persist3", "log"},
  NEW c \in {"persisted", "logs"},
         r = "log" <=> c = "logs", NEW there \in Positions["persistence"],
         Popped(r), Counted(c), Moved("persistence", there)
  PROVE  EveryEventCounted' /\ NotesBounded' /\ FewBarsFit'
  <1>1. TypeOK /\ EveryEventCounted /\ NotesBounded
    BY DEF IInv
  <1>2. /\ UNCHANGED <<Taken, Routed, Noted, Ordered, FillTaken, RouteTaken, RouteUnsaid, OrderTaken, OrderUnsaid>>
        /\ UNCHANGED offered
    BY DEF Moved, Taken, Routed, Noted, Ordered, FillTaken, RouteTaken, RouteUnsaid, OrderTaken,
       OrderUnsaid, HotIn
  <1>3. /\ ring'["market_data"] = ring["market_data"]
        /\ \A q \in Rings \ {r} : Unread'[q] = Unread[q]
        /\ Unread'[r] = Unread[r] - 1
    BY <1>1 DEF Popped, Unread, TypeOK
  <1>4. /\ Unread'["routing"] = Unread["routing"] /\ Unread'["command"] = Unread["command"]
        /\ Unread'["order_out"] = Unread["order_out"] /\ Unread'["fill_in"] = Unread["fill_in"]
        /\ count'["bars"] = count["bars"] /\ count'["fills"] = count["fills"]
        /\ count'["commands"] = count["commands"]
    BY <1>3 DEF Counted
  <1>5. UNCHANGED <<HotNotes, RouterNotes, OrderNotes>>
    BY <1>2, <1>4 DEF HotNotes, RouterNotes, OrderNotes
  <1>6. BarsCounted' /\ RoutesCounted' /\ OrdersCounted'
    BY <1>1, <1>2, <1>3, <1>4 DEF EveryEventCounted, BarsCounted, RoutesCounted, OrdersCounted
  <1>7. NotesCounted' /\ NotesBounded' /\ LogsCounted'
    <2>1. CASE r = "log"
      <3>1. /\ Unread'["persist0"] = Unread["persist0"] /\ Unread'["persist1"] = Unread["persist1"]
            /\ Unread'["persist3"] = Unread["persist3"] /\ Unread'["log"] = Unread["log"] - 1
            /\ count'["logs"] = count["logs"] + 1 /\ count'["persisted"] = count["persisted"]
        BY <1>3, <2>1 DEF Counted
      <3>2. LogsCounted'
        BY <1>1, <1>4, <3>1, Numbers DEF EveryEventCounted, LogsCounted
      <3>3. NotesCounted' /\ NotesBounded'
        BY <1>1, <1>5, <3>1 DEF EveryEventCounted, NotesCounted, NotesBounded
      <3> QED
        BY <3>2, <3>3
    <2>2. ASSUME NEW p \in {"persist0", "persist1", "persist3"}, r = p
          PROVE  NotesCounted' /\ NotesBounded' /\ LogsCounted'
      <3>1. /\ \A q \in {"persist0", "persist1", "persist3"} : Unread'[q] = IF q = p THEN Unread[q] - 1 ELSE Unread[q]
            /\ Unread'["log"] = Unread["log"]
            /\ count'["persisted"] = count["persisted"] + 1 /\ count'["logs"] = count["logs"]
        BY <1>3, <2>2 DEF Counted
      <3>2. LogsCounted'
        BY <1>1, <1>4, <3>1 DEF EveryEventCounted, LogsCounted
      <3>3. NotesBounded'
        BY <1>1, <1>5, <3>1, Numbers, NotesAreNumbers DEF NotesBounded
      <3>4. NotesCounted'
        BY <1>1, <1>5, <3>1, Numbers, NotesAreNumbers DEF EveryEventCounted, NotesCounted
      <3> QED
        BY <3>2, <3>3, <3>4
    <2> QED
      BY <2>1, <2>2
  <1>8. FewBarsFit'
    BY <1>2 DEF Popped, IInv, FewBarsFit, EventsPerBar, Room
  <1> QED
    BY <1>6, <1>7, <1>8 DEF EveryEventCounted

\* Any poll of persistence, before its flag is up.
LEMMA PollKeeps ==
  ASSUME IInv, PollAny
  PROVE  IInv'
  <1>1. ASSUME NEW here \in {"poll0", "poll1", "poll3", "pollLog"}, NEW there \in {"poll0", "poll1", "poll3", "pollLog"},
               NEW r \in {"persist0", "persist1", "persist3", "log"}, NEW c \in {"persisted", "logs"},
               r = "log" <=> c = "logs", Poll(here, r, c, there)
        PROVE  IInv'
    <2>1. here \in Positions["persistence"] /\ there \in Positions["persistence"]
      BY DEF Positions
    <2>2. PlacesOK' /\ Moved("persistence", there) /\ pc["persistence"] = here
      BY <1>1, <2>1, GoMoves DEF IInv, Poll, At
    <2>3. CASE Pop(r) /\ Count(c)
      <3>1. RingsOK' /\ Popped(r) /\ CountersOK' /\ Counted(c)
        BY <1>1, <2>3, PopTakes, CountAdds DEF IInv
      <3>2. TypeOK'
        BY <2>2, <3>1 DEF IInv, TypeOK, RingsOK, PlacesOK, CountersOK, Moved
      <3>3. EveryEventCounted' /\ NotesBounded' /\ FewBarsFit'
        BY <1>1, <2>1, <2>2, <3>1, <3>2, PersistKeeps
      <3>4. StopOrder' /\ DrainOrder'
        BY <1>1, <2>2, <3>1, <3>2 DEF Popped, Moved, IInv, StopOrder, DrainOrder
      <3> QED
        BY <3>2, <3>3, <3>4 DEF IInv
    <2>4. CASE UNCHANGED <<ring, lost, count>>
      <3>1. TypeOK'
        BY <2>2, <2>4 DEF IInv, TypeOK, PlacesOK, Moved
      <3> QED
        BY <1>1, <2>2, <2>4, <3>1 DEF Moved, TypeOK, Unread, HotNotes, RouterNotes, OrderNotes,
           Taken, Routed, Noted, Ordered, FillTaken, RouteTaken, RouteUnsaid, OrderTaken,
       OrderUnsaid, HotIn, Is, IInv, EveryEventCounted, NotesBounded, BarsCounted, RoutesCounted,
       OrdersCounted,
       NotesCounted, LogsCounted, StopOrder, DrainOrder, FewBarsFit, EventsPerBar, Room
    <2> QED
      BY <1>1, <2>3, <2>4 DEF Poll, IsEmpty
  <1> QED
    BY <1>1 DEF PollAny

\* Any step of the drain: the rings behind it stay empty, for no thread is
\* left to push to them.
LEMMA DrainKeeps ==
  ASSUME IInv, DrainAny
  PROVE  IInv'
  <1> DEFINE After == [drain0 |-> "drain1", drain1 |-> "drain3", drain3 |-> "drainLog", drainLog |-> "ended"]
             From  == [drain0 |-> "persist0", drain1 |-> "persist1", drain3 |-> "persist3",
             drainLog |-> "log"]
  <1>1. ASSUME StartDrain PROVE IInv'
    <2>1. /\ PlacesOK' /\ Moved("persistence", "drain0") /\ pc["persistence"] = "poll0"
          /\ stopPersist /\ UNCHANGED <<ring, lost, count>>
      BY <1>1, GoMoves DEF IInv, StartDrain, At, Positions
    <2>2. TypeOK'
      BY <2>1 DEF IInv, TypeOK, PlacesOK, Moved
    <2> QED
      BY <2>1, <2>2 DEF Moved, TypeOK, Unread, HotNotes, RouterNotes, OrderNotes, Taken, Routed,
         Noted, Ordered, FillTaken, RouteTaken, RouteUnsaid, OrderTaken,
       OrderUnsaid, HotIn, Is, IInv, EveryEventCounted, NotesBounded, BarsCounted, RoutesCounted,
       OrdersCounted,
       NotesCounted, LogsCounted, StopOrder, DrainOrder, FewBarsFit, EventsPerBar, Room
  <1>2. ASSUME NEW here \in {"drain0", "drain1", "drain3", "drainLog"}, NEW c \in {"persisted", "logs"},
               here = "drainLog" <=> c = "logs", Drain(here, From[here], c, After[here])
        PROVE  IInv'
    <2>1. /\ here \in Positions["persistence"] /\ After[here] \in Positions["persistence"]
          /\ From[here] \in Rings /\ pc["persistence"] = here
      BY <1>2 DEF Positions, Drain, At
    <2>2. CASE Pop(From[here]) /\ Count(c) /\ Go("persistence", here)
      <3>1. RingsOK' /\ Popped(From[here]) /\ CountersOK' /\ Counted(c)
        BY <2>1, <2>2, PopTakes, CountAdds DEF IInv
      <3>2. PlacesOK' /\ Moved("persistence", here)
        BY <2>1, <2>2, GoMoves DEF IInv
      <3>3. TypeOK'
        BY <3>1, <3>2 DEF IInv, TypeOK, RingsOK, PlacesOK, CountersOK, Moved
      <3>4. EveryEventCounted' /\ NotesBounded' /\ FewBarsFit'
        <4>1. From[here] \in {"persist0", "persist1", "persist3", "log"} /\ (From[here] = "log" <=> c = "logs")
          BY <1>2
        <4> QED
          BY <4>1, <2>1, <3>1, <3>2, <3>3, PersistKeeps
      <3>5. StopOrder' /\ DrainOrder'
        BY <1>2, <2>1, <3>1, <3>2, <3>3 DEF Popped, Moved, IInv, StopOrder, DrainOrder
      <3> QED
        BY <3>3, <3>4, <3>5 DEF IInv
    <2>3. CASE ring[From[here]] = 0 /\ UNCHANGED <<ring, lost, count>> /\ Go("persistence", After[here])
      <3>1. PlacesOK' /\ Moved("persistence", After[here])
        BY <2>1, <2>3, GoMoves DEF IInv
      <3>2. TypeOK'
        BY <2>3, <3>1 DEF IInv, TypeOK, PlacesOK, Moved
      <3> QED
        BY <1>2, <2>1, <2>3, <3>1, <3>2 DEF Moved, TypeOK, Unread, HotNotes, RouterNotes,
           OrderNotes, Taken, Routed, Noted, Ordered, FillTaken, RouteTaken, RouteUnsaid,
           OrderTaken,
       OrderUnsaid, HotIn, Is, IInv, EveryEventCounted, NotesBounded, BarsCounted, RoutesCounted,
       OrdersCounted,
       NotesCounted, LogsCounted, StopOrder, DrainOrder, FewBarsFit, EventsPerBar, Room
    <2> QED
      BY <1>2, <2>2, <2>3 DEF Drain, IsEmpty
  <1>3. /\ Drain("drain0", "persist0", "persisted", "drain1") => IInv'
        /\ Drain("drain1", "persist1", "persisted", "drain3") => IInv'
        /\ Drain("drain3", "persist3", "persisted", "drainLog") => IInv'
        /\ Drain("drainLog", "log", "logs", "ended") => IInv'
    BY <1>2
  <1> QED
    BY <1>1, <1>3 DEF DrainAny

\* The steps of the owner.
LEMMA OwnerKeeps ==
  ASSUME IInv, Join \/ Start \/ Stop \/ Offer
  PROVE  IInv'
  <1>1. CASE Join
    BY <1>1 DEF Join, JoinWorkers, JoinPersistence, TypeOK, Unread, HotNotes, RouterNotes,
       OrderNotes, Taken, Routed, Noted, Ordered, FillTaken, RouteTaken, RouteUnsaid, OrderTaken,
       OrderUnsaid, HotIn, Is, IInv, EveryEventCounted, NotesBounded, BarsCounted, RoutesCounted,
       OrdersCounted,
       NotesCounted, LogsCounted, StopOrder, DrainOrder, FewBarsFit, EventsPerBar, Room
  <1>2. CASE Start
    <2>1. PlacesOK'
      <3>1. pc' = Head /\ DOMAIN Head = Threads /\ \A t \in Threads : Head[t] \in Positions[t]
        BY <1>2 DEF Start, Head, Positions
      <3>2. \A t \in Threads : Positions[t] \subseteq UNION {Positions[u] : u \in Threads}
        OBVIOUS
      <3>3. Head = [t \in Threads |-> Head[t]]
        BY DEF Head
      <3>4. Head \in [Threads -> UNION {Positions[u] : u \in Threads}]
        BY <3>1, <3>2, <3>3
      <3> QED
        BY <3>1, <3>4 DEF PlacesOK
    <2>2. /\ UNCHANGED <<ring, lost, count, offered>> /\ starts' \in Nat /\ main' = "running"
          /\ stopWorkers' = FALSE /\ stopPersist' = FALSE
      BY <1>2 DEF Start, IInv, TypeOK
    <2>3. TypeOK'
      BY <2>1, <2>2 DEF IInv, TypeOK, PlacesOK
    <2> QED
      BY <1>2, <2>3 DEF Start, Head, TypeOK, Unread, HotNotes, RouterNotes, OrderNotes, Taken,
         Routed, Noted, Ordered, FillTaken, RouteTaken, RouteUnsaid, OrderTaken,
       OrderUnsaid, HotIn, Is, IInv, EveryEventCounted, NotesBounded, BarsCounted, RoutesCounted,
       OrdersCounted,
       NotesCounted, LogsCounted, StopOrder, DrainOrder, FewBarsFit, EventsPerBar, Room
  <1>3. CASE Stop
    BY <1>3 DEF Stop, TypeOK, Unread, HotNotes, RouterNotes, OrderNotes, Taken, Routed, Noted,
       Ordered, FillTaken, RouteTaken, RouteUnsaid, OrderTaken,
       OrderUnsaid, HotIn, Is, IInv, EveryEventCounted, NotesBounded, BarsCounted, RoutesCounted,
       OrdersCounted,
       NotesCounted, LogsCounted, StopOrder, DrainOrder, FewBarsFit, EventsPerBar, Room
  <1>4. CASE Offer
    <2>1. RingsOK' /\ (\A q \in Rings \ {"market_data"} : ring'[q] = ring[q])
            /\ ring'["market_data"] = ring["market_data"] + 1 /\ offered' = offered + 1
      BY <1>4, RoomIsPositive DEF Offer, IInv, TypeOK, RingsOK
    <2>2. TypeOK'
      BY <1>4, <2>1 DEF Offer, IInv, TypeOK, RingsOK
    <2> QED
      BY <1>4, <2>1, <2>2 DEF Offer, TypeOK, Unread, HotNotes, RouterNotes, OrderNotes, Taken,
         Routed, Noted, Ordered, FillTaken, RouteTaken, RouteUnsaid, OrderTaken,
       OrderUnsaid, HotIn, Is, IInv, EveryEventCounted, NotesBounded, BarsCounted, RoutesCounted,
       OrdersCounted,
       NotesCounted, LogsCounted, StopOrder, DrainOrder, FewBarsFit, EventsPerBar, Room
  <1> QED
    BY <1>1, <1>2, <1>3, <1>4

-------------------------------------------------------------------------------
\* Empty rings, nothing counted.
LEMMA InitOK == Init => IInv
  <1> SUFFICES ASSUME Init PROVE IInv
    OBVIOUS
  <1>1. TypeOK
    BY RoomIsPositive DEF Init, TypeOK, Positions
  <1> QED
    BY <1>1 DEF Init, Unread, HotNotes, RouterNotes, OrderNotes, Taken, Routed, Noted, Ordered,
       FillTaken, RouteTaken, RouteUnsaid, OrderTaken,
       OrderUnsaid, HotIn, Is, IInv, EveryEventCounted, NotesBounded, BarsCounted, RoutesCounted,
       OrdersCounted,
       NotesCounted, LogsCounted, StopOrder, DrainOrder, FewBarsFit, EventsPerBar, Room

\* Every step keeps the invariant.
LEMMA StepKeeps == IInv /\ [Next]_runtimeVars => IInv'
  <1> SUFFICES ASSUME IInv, [Next]_runtimeVars PROVE IInv'
    OBVIOUS
  <1>1. CASE Hot
    BY <1>1, TakeBarKeeps, RouteBarKeeps, NoteBarKeeps, OrderBarKeeps, LogBarKeeps, TakeFillKeeps,
       NoteFillKeeps, TakeCommandKeeps DEF Hot
  <1>2. CASE Routing
    BY <1>2, TakeRoutedKeeps, SendCommandKeeps, NoteRoutedKeeps DEF Routing
  <1>3. CASE Execution
    BY <1>3, TakeOrderKeeps, SendFillKeeps, NoteOrderKeeps DEF Execution
  <1>4. CASE Persistence
    BY <1>4, PollKeeps, DrainKeeps DEF Persistence
  <1>5. CASE \E t \in Workers : EndWorker(t)
    BY <1>5, EndWorkerKeeps
  <1>6. CASE Join \/ Start \/ Stop \/ Offer
    BY <1>6, OwnerKeeps
  <1>7. CASE UNCHANGED runtimeVars
    BY <1>7 DEF runtimeVars, TypeOK, Unread, HotNotes, RouterNotes, OrderNotes, Taken, Routed,
       Noted, Ordered, FillTaken, RouteTaken, RouteUnsaid, OrderTaken,
       OrderUnsaid, HotIn, Is, IInv, EveryEventCounted, NotesBounded, BarsCounted, RoutesCounted,
       OrdersCounted,
       NotesCounted, LogsCounted, StopOrder, DrainOrder, FewBarsFit, EventsPerBar, Room
  <1> QED
    BY <1>1, <1>2, <1>3, <1>4, <1>5, <1>6, <1>7 DEF Next

(* The invariant holds in every reachable state.                           *)
THEOREM Inductive == Spec => []IInv
  BY InitOK, StepKeeps, PTL DEF Spec

(* No event disappears without a full ring, for rings of any size and any  *)
(* number of bars, starts and stops.                                       *)
THEOREM CountingCorrect == Spec => []EveryEventCounted
  <1>1. IInv => EveryEventCounted
    BY DEF IInv
  <1> QED
    BY Inductive, <1>1, PTL

(* Whenever the runtime is stopped, all that was given to persistence is   *)
(* counted.                                                                *)
THEOREM DrainCorrect == Spec => []StoppedIsPersisted
  <1>1. IInv => StoppedIsPersisted
    BY DEF IInv, StopOrder, DrainOrder, StoppedIsPersisted
  <1> QED
    BY Inductive, <1>1, PTL

(* A ring with room for what all the bars put into it refuses nothing.     *)
THEOREM CapacityCorrect == Spec => []FewBarsFit
  <1>1. IInv => FewBarsFit
    BY DEF IInv
  <1> QED
    BY Inductive, <1>1, PTL
===============================================================================
