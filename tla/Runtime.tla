-------------------------------- MODULE Runtime --------------------------------
(***************************************************************************)
(* Phase0Runtime: five threads joined by single-producer, single-consumer  *)
(* rings.                                                                  *)
(*                                                                         *)
(*   owner  --market_data--> hot --routing--> routing --command--> hot     *)
(*                           hot --order_out--> execution --fill_in--> hot *)
(*   hot, routing, execution --persist0, 1, 3, log--> persistence          *)
(*                                                                         *)
(* An event is copied and counted, its payload decides nothing: a ring is  *)
(* the number of events in it.  Every operation on a ring is a step of its *)
(* own; a counter moves with the operation it counts.  Memory is           *)
(* sequentially consistent here.                                           *)
(***************************************************************************)
EXTENDS Integers

CONSTANTS Capacity,     \* kRingCapacity
          LogCapacity,  \* AsyncLogger::kCapacity
          MaxCalls      \* bound on the bars offered and the calls of start

ASSUME RuntimeAssumption ==
  /\ Capacity \in Nat \ {0} /\ LogCapacity \in Nat \ {0}
  /\ MaxCalls \in Nat

VARIABLES ring,         \* events waiting in each ring
          pc,           \* where each thread stands in its loop
          main,         \* where the owner stands in start and stop
          stopWorkers,  \* stop_workers_
          stopPersist,  \* stop_persist_
          count,        \* the counters of the runtime
          offered,      \* bars the owner has pushed
          starts,       \* calls of start
          lost          \* history: pushes refused by a full ring, which nobody counts

runtimeVars == <<ring, pc, main, stopWorkers, stopPersist, count, offered, starts, lost>>

EventRings == {"market_data", "routing", "command", "order_out", "fill_in",
               "persist0", "persist1", "persist3"}
Rings      == EventRings \cup {"log"}
Workers    == {"hot", "routing", "execution", "api"}
Threads    == Workers \cup {"persistence"}
Counters   == {"bars", "fills", "commands", "persisted", "logs"}

Room(r) == IF r = "log" THEN LogCapacity ELSE Capacity

Positions ==
  [hot         |-> {"ended", "bar", "route", "noteBar", "order", "log", "fill", "noteFill", "command"},
   routing     |-> {"ended", "route", "command", "note"},
   execution   |-> {"ended", "order", "fill", "note"},
   api         |-> {"ended", "wait"},
   persistence |-> {"ended", "poll0", "poll1", "poll3", "pollLog",
                    "drain0", "drain1", "drain3", "drainLog"}]

\* The first position of each loop.
Head == [hot |-> "bar", routing |-> "route", execution |-> "order", api |-> "wait",
         persistence |-> "poll0"]

TypeOK ==
  /\ ring \in [Rings -> Nat] /\ \A r \in Rings : ring[r] <= Room(r)
  /\ lost \in [Rings -> Nat]
  /\ pc \in [Threads -> UNION {Positions[t] : t \in Threads}]
  /\ \A t \in Threads : pc[t] \in Positions[t]
  /\ main \in {"stopped", "running", "joining", "draining"}
  /\ stopWorkers \in BOOLEAN /\ stopPersist \in BOOLEAN
  /\ count \in [Counters -> Nat]
  /\ offered \in Nat /\ starts \in Nat

Init ==
  /\ ring = [r \in Rings |-> 0]
  /\ lost = [r \in Rings |-> 0]
  /\ pc = [t \in Threads |-> "ended"]
  /\ main = "stopped"
  /\ stopWorkers = TRUE /\ stopPersist = TRUE
  /\ count = [c \in Counters |-> 0]
  /\ offered = 0 /\ starts = 0

-------------------------------------------------------------------------------
(* The parts of a step.                                                    *)

At(t, here) == pc[t] = here

Go(t, there) ==
  /\ pc' = [pc EXCEPT ![t] = there]
  /\ UNCHANGED <<main, stopWorkers, stopPersist, offered, starts>>

\* try_push: a full ring refuses, and nobody looks at the result.
Push(r) ==
  \/ ring[r] < Room(r) /\ ring' = [ring EXCEPT ![r] = @ + 1] /\ UNCHANGED lost
  \/ ring[r] = Room(r) /\ lost' = [lost EXCEPT ![r] = @ + 1] /\ UNCHANGED ring

Pop(r) == ring[r] > 0 /\ ring' = [ring EXCEPT ![r] = @ - 1] /\ UNCHANGED lost

IsEmpty(r) == ring[r] = 0 /\ UNCHANGED <<ring, lost>>

Count(c) == count' = [count EXCEPT ![c] = @ + 1]

-------------------------------------------------------------------------------
(* The loops.  Each reads the flag at its head, with its first pop: a stop *)
(* between the two has the effect of a stop after the pop.                 *)

End(t, flag) == At(t, Head[t]) /\ flag /\ Go(t, "ended") /\ UNCHANGED <<ring, lost, count>>

Enter(t, flag) == At(t, Head[t]) /\ ~ flag

(* hot_path_loop                                                           *)

TakeBar ==
  /\ Enter("hot", stopWorkers) /\ UNCHANGED count
  /\ \/ Pop("market_data") /\ Go("hot", "route")
     \/ IsEmpty("market_data") /\ Go("hot", "fill")

RouteBar == At("hot", "route") /\ Push("routing") /\ Go("hot", "noteBar") /\ UNCHANGED count
NoteBar  == At("hot", "noteBar") /\ Push("persist0") /\ Go("hot", "order") /\ UNCHANGED count

OrderBar == At("hot", "order") /\ Push("order_out") /\ Go("hot", "log") /\ UNCHANGED count
LogBar   == At("hot", "log") /\ Push("log") /\ Count("bars") /\ Go("hot", "fill")

TakeFill ==
  /\ At("hot", "fill") /\ UNCHANGED count
  /\ \/ Pop("fill_in") /\ Go("hot", "noteFill")
     \/ IsEmpty("fill_in") /\ Go("hot", "command")

NoteFill == At("hot", "noteFill") /\ Push("persist0") /\ Count("fills") /\ Go("hot", "command")

TakeCommand ==
  /\ At("hot", "command") /\ Go("hot", "bar")
  /\ \/ Pop("command") /\ Count("commands")
     \/ IsEmpty("command") /\ UNCHANGED count

(* routing_loop and execution_loop: one event in, two out.                 *)

TakeRouted ==
  /\ Enter("routing", stopWorkers) /\ Pop("routing") /\ Go("routing", "command") /\ UNCHANGED count
SendCommand == At("routing", "command") /\ Push("command") /\ Go("routing", "note") /\ UNCHANGED count

\* A plausible bug: the router shares the ring of the hot path to persistence.
NoteRoutedShared ==
  At("routing", "note") /\ Push("persist0") /\ Go("routing", "route") /\ UNCHANGED count

NoteRouted == At("routing", "note") /\ Push("persist1") /\ Go("routing", "route") /\ UNCHANGED count

\* A plausible bug: the event of the last order is filled again when there is none.
TakeOrderStale ==
  /\ Enter("execution", stopWorkers) /\ Go("execution", "fill") /\ UNCHANGED count
  /\ \/ Pop("order_out")
     \/ count["fills"] = 1 /\ IsEmpty("order_out")

TakeOrder ==
  /\ Enter("execution", stopWorkers) /\ Pop("order_out") /\ Go("execution", "fill") /\ UNCHANGED count
SendFill  == At("execution", "fill") /\ Push("fill_in") /\ Go("execution", "note") /\ UNCHANGED count
NoteOrder == At("execution", "note") /\ Push("persist3") /\ Go("execution", "order") /\ UNCHANGED count

(* persistence_loop: poll the four rings in turn, and when the flag is up  *)
(* empty them one after the other.                                         *)

Poll(here, r, c, there) ==
  /\ At("persistence", here) /\ Go("persistence", there)
  /\ \/ Pop(r) /\ Count(c)
     \/ IsEmpty(r) /\ UNCHANGED count

PollAny ==
  \/ Enter("persistence", stopPersist) /\ Poll("poll0", "persist0", "persisted", "poll1")
  \/ Poll("poll1", "persist1", "persisted", "poll3")
  \/ Poll("poll3", "persist3", "persisted", "pollLog")
  \/ Poll("pollLog", "log", "logs", "poll0")

\* count_remaining, for one event or at the end of it.
Drain(here, r, c, there) ==
  /\ At("persistence", here)
  /\ \/ Pop(r) /\ Count(c) /\ Go("persistence", here)
     \/ IsEmpty(r) /\ UNCHANGED count /\ Go("persistence", there)

StartDrain ==
  /\ At("persistence", "poll0") /\ stopPersist
  /\ Go("persistence", "drain0") /\ UNCHANGED <<ring, lost, count>>

DrainAny ==
  \/ StartDrain
  \/ Drain("drain0", "persist0", "persisted", "drain1")
  \/ Drain("drain1", "persist1", "persisted", "drain3")
  \/ Drain("drain3", "persist3", "persisted", "drainLog")
  \/ Drain("drainLog", "log", "logs", "ended")

-------------------------------------------------------------------------------
(* The owner is one thread (main.cpp, the test): it starts, offers bars,   *)
(* waiting while market_data is full, and stops, with two joins.           *)

Start ==
  /\ main = "stopped" /\ offered + starts < MaxCalls
  /\ main' = "running" /\ starts' = starts + 1
  /\ stopWorkers' = FALSE /\ stopPersist' = FALSE
  /\ pc' = Head
  /\ UNCHANGED <<ring, lost, count, offered>>

Stop ==
  /\ main = "running"
  /\ main' = "joining" /\ stopWorkers' = TRUE
  /\ UNCHANGED <<ring, pc, stopPersist, count, offered, starts, lost>>

\* A plausible bug: execution is joined after persistence was told to drain.
JoinWorkersEarly ==
  /\ main = "joining" /\ \A t \in Workers \ {"execution"} : pc[t] = "ended"
  /\ main' = "draining" /\ stopPersist' = TRUE
  /\ UNCHANGED <<ring, pc, stopWorkers, count, offered, starts, lost>>

\* A plausible bug: all five threads are joined before persistence is told.
JoinWorkersLate ==
  /\ main = "joining" /\ \A t \in Threads : pc[t] = "ended"
  /\ main' = "draining" /\ stopPersist' = TRUE
  /\ UNCHANGED <<ring, pc, stopWorkers, count, offered, starts, lost>>

JoinWorkers ==
  /\ main = "joining" /\ \A t \in Workers : pc[t] = "ended"
  /\ main' = "draining" /\ stopPersist' = TRUE
  /\ UNCHANGED <<ring, pc, stopWorkers, count, offered, starts, lost>>

JoinPersistence ==
  /\ main = "draining" /\ pc["persistence"] = "ended"
  /\ main' = "stopped"
  /\ UNCHANGED <<ring, pc, stopWorkers, stopPersist, count, offered, starts, lost>>

Offer ==
  /\ main = "running" /\ offered + starts < MaxCalls
  /\ ring["market_data"] < Room("market_data")
  /\ ring' = [ring EXCEPT !["market_data"] = @ + 1]
  /\ offered' = offered + 1
  /\ UNCHANGED <<pc, main, stopWorkers, stopPersist, count, starts, lost>>

-------------------------------------------------------------------------------
Hot         == TakeBar \/ RouteBar \/ NoteBar \/ OrderBar \/ LogBar
                 \/ TakeFill \/ NoteFill \/ TakeCommand
Routing     == TakeRouted \/ SendCommand \/ NoteRouted
Execution   == TakeOrder \/ SendFill \/ NoteOrder
Persistence == PollAny \/ DrainAny
EndWorker(t) == End(t, stopWorkers)
Join        == JoinWorkers \/ JoinPersistence

Next ==
  \/ Hot \/ Routing \/ Execution \/ Persistence
  \/ \E t \in Workers : EndWorker(t)
  \/ Join \/ Start \/ Stop \/ Offer

\* Every thread is scheduled; nobody has to start, stop or offer bars.
Fairness ==
  /\ WF_runtimeVars(Hot \/ EndWorker("hot"))
  /\ WF_runtimeVars(Routing \/ EndWorker("routing"))
  /\ WF_runtimeVars(Execution \/ EndWorker("execution"))
  /\ WF_runtimeVars(EndWorker("api"))
  /\ WF_runtimeVars(Persistence)
  /\ WF_runtimeVars(Join)

Spec == Init /\ [][Next]_runtimeVars /\ Fairness

-------------------------------------------------------------------------------
(* What each ring has been given, and where it is now.                     *)

Is(condition) == IF condition THEN 1 ELSE 0

HotIn(places) == Is(pc["hot"] \in places)

\* Events in the hand of a thread, by how far it has got with them.
Taken       == HotIn({"route", "noteBar", "order", "log"})
Routed      == HotIn({"noteBar", "order", "log"})
Noted       == HotIn({"order", "log"})
Ordered     == HotIn({"log"})
FillTaken   == HotIn({"noteFill"})
RouteTaken  == Is(pc["routing"] = "command")
RouteUnsaid == Is(pc["routing"] = "note")
OrderTaken  == Is(pc["execution"] = "fill")
OrderUnsaid == Is(pc["execution"] = "note")

\* Bars taken from market_data by the hot path.
BarsCounted == offered = ring["market_data"] + Taken + count["bars"]

\* Events pushed to a ring and not taken from it.
Unread == [r \in Rings |-> ring[r] + lost[r]]

\* Bars sent to the router, and the commands it answers with.
RoutesCounted ==
  count["bars"] + Routed
    = Unread["routing"] + RouteTaken + Unread["command"] + count["commands"]

\* Orders sent to execution, and their fills.
OrdersCounted ==
  count["bars"] + Ordered
    = Unread["order_out"] + OrderTaken + Unread["fill_in"] + FillTaken + count["fills"]

\* What each of the three threads gave to persistence.
HotNotes    == count["bars"] + Noted + count["fills"]
RouterNotes == Unread["command"] + count["commands"] - RouteUnsaid
OrderNotes  == Unread["fill_in"] + FillTaken + count["fills"] - OrderUnsaid

NotesCounted ==
  count["persisted"] + Unread["persist0"] + Unread["persist1"] + Unread["persist3"]
    = HotNotes + RouterNotes + OrderNotes

LogsCounted == count["bars"] = count["logs"] + Unread["log"]

(* No event disappears without a full ring, through any stops and starts:  *)
(* each one pushed is in a ring, in the hand of one thread, counted by the *)
(* runtime, or was refused (phase0_runtime.cpp, the five loops).           *)
EveryEventCounted == BarsCounted /\ RoutesCounted /\ OrdersCounted /\ NotesCounted /\ LogsCounted

(* After stop everything that a thread gave to persistence is counted: the *)
(* joins are in the order that lets persistence drain after all others     *)
(* (phase0_runtime.cpp:42-54).                                             *)
StoppedIsPersisted ==
  main = "stopped" => \A r \in {"persist0", "persist1", "persist3", "log"} : ring[r] = 0

(* A ring that has room for what all the bars put into it refuses nothing, *)
(* whatever the threads do and however often they are stopped: the smoke   *)
(* run and its test rely on that for 8 and 64 bars (main.cpp:133,          *)
(* test_phase0_runtime.cpp).                                               *)
EventsPerBar(r) == IF r = "persist0" THEN 2 ELSE 1

FewBarsFit == \A r \in Rings : EventsPerBar(r) * offered <= Room(r) => lost[r] = 0

(* stop returns: no thread waits for another, not even for room in a ring  *)
(* (spsc_ring.hpp:28, phase0_runtime.cpp:42-54).                              *)
StopEnds == main = "joining" ~> main = "stopped"
===============================================================================
