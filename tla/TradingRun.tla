------------------------------- MODULE TradingRun -------------------------------
(***************************************************************************)
(* RunManager::execute from the borrow to the settlement, on one thread:   *)
(* the router starts a container for every winner of its evaluation, the   *)
(* bars of the trade window are replayed in the order of their timestamps, *)
(* the session scheduler turns them into system events, and at the end     *)
(* every container is forced out and the settlement returned.              *)
(*                                                                         *)
(* The tape and the strategies are left open.  A bar carries its day and   *)
(* the window of that day it falls in, which is all the code asks of a     *)
(* timestamp.                                                              *)
(***************************************************************************)
EXTENDS TradingDesk

CONSTANTS WinnerLists,    \* what the evaluation may select: sequences of keys
          MaxDays         \* bound on the days of the tape

ASSUME RunAssumption ==
  /\ MaxDays \in Nat
  /\ \A w \in WinnerLists : w \in Seq(Keys) /\ Len(w) <= MaxContainers

VARIABLES phase,        \* where execute is
          winners,      \* the winners the router has yet to start
          share,        \* what the next of them gets
          now,          \* day and window of the last bar
          session,      \* the SessionScheduler
          todo,         \* the calls to make before the next bar is taken
          returned      \* return_capital took the settlement

vars == <<containers, nextId, ledger, positions, index, switches, call, queue, intents,
          exiting, bars, worth, phase, winners, share, now, session, todo, returned>>

runVars == <<phase, winners, share, now, session, todo, returned>>

\* The windows of a day: before 9:15, before 15:15, square-off, after 15:30.
Windows   == 0..3
Regular   == {1, 2}
SquareOff == 2

Session == [day : 0..MaxDays, misFired : BOOLEAN, open : BOOLEAN]

RunTypeOK ==
  /\ TypeOK
  /\ phase \in {"Routing", "Replay", "Ending", "Settled"}
  /\ winners \in Seq(Keys) /\ share \in Nat
  /\ now \in [day : 0..MaxDays, window : Windows]
  /\ session \in Session
  /\ todo \in Seq(Calls)
  /\ returned \in BOOLEAN

-------------------------------------------------------------------------------
(* SessionScheduler: the events a bar brings about, and what flush closes. *)

Event(type) == [op |-> "event", type |-> type]

If(condition, events) == IF condition THEN events ELSE <<>>

OnBarEvents(s, day, window) ==
  LET newDay == s.day # day
      warn   == window >= SquareOff /\ (newDay \/ (s.open /\ ~ s.misFired))
  IN  If(newDay /\ s.open, <<Event("SessionEnd")>>)
        \o If(newDay, <<Event("SessionStart")>>)
        \o If(warn, <<Event("MisSquareoffWarning")>>)

\* A plausible bug: the warning of the first day is never re-armed.
AfterBarWarnsOnce(s, day, window) ==
  [day |-> day, misFired |-> s.misFired \/ window >= SquareOff, open |-> s.open \/ s.day # day]

AfterBar(s, day, window) ==
  LET newDay == s.day # day
      open   == s.open \/ newDay
  IN  [day      |-> day,
       misFired |-> (~ newDay /\ s.misFired) \/ (open /\ window >= SquareOff),
       open     |-> open]

FlushEvents(s) == If(s.open, <<Event("SessionEnd")>>)

-------------------------------------------------------------------------------
(* The workbook lends all its capital to the run; the router divides it.   *)

RunInit ==
  /\ DeskInit
  /\ phase = "Routing"
  /\ winners \in WinnerLists
  /\ share = IF winners = <<>>
             THEN 0
             ELSE (Borrowed \div Len(winners)) + (Borrowed % Len(winners))
  /\ now = [day |-> 0, window |-> 0]
  /\ session = [day |-> 0, misFired |-> FALSE, open |-> FALSE]
  /\ todo = <<>>
  /\ returned = FALSE

\* A plausible bug: the remainder is given to every winner.
NextShareKeepsRemainder(n) == share

\* The remainder goes to the first winner; from then on everyone gets the base.
NextShare(n) == IF nextId = 1 THEN Borrowed \div n ELSE share

Route ==
  /\ phase = "Routing"
  /\ winners # <<>>
  /\ Create(Head(winners)[1], Head(winners)[2], share, "Real")
  /\ winners' = Tail(winners)
  /\ share' = NextShare(Len(winners))
  /\ UNCHANGED <<phase, now, session, todo, returned>>

\* With no container the run settles at once.
StartReplay ==
  /\ phase = "Routing"
  /\ winners = <<>>
  /\ phase' = IF \E c \in ContainerIds : Kept(c) THEN "Replay" ELSE "Ending"
  /\ UNCHANGED deskVars
  /\ UNCHANGED <<winners, share, now, session, todo, returned>>

(* The replay loop: one bar, its system events first.                      *)

NextBar(symbol, close, day, window) ==
  /\ phase = "Replay"
  /\ Idle /\ todo = <<>>
  /\ bars < MaxBars
  /\ \/ day > now.day
     \/ day = now.day /\ window >= now.window
  /\ bars' = bars + 1
  /\ now' = [day |-> day, window |-> window]
  /\ session' = AfterBar(session, day, window)
  /\ todo' = OnBarEvents(session, day, window)
               \o <<[op |-> "bar", symbol |-> symbol, close |-> close,
                     inHours |-> window \in Regular]>>
  /\ UNCHANGED <<containers, nextId, ledger, positions, index, switches, call, queue, intents,
                 exiting, worth, phase, winners, share, returned>>

\* dispatch_system tells the risk engine, then the containers.
MakeCall ==
  /\ todo # <<>>
  /\ Start(Head(todo))
  /\ switches' = IF Head(todo).op = "event" THEN Heard(switches, Head(todo).type) ELSE switches
  /\ todo' = Tail(todo)
  /\ UNCHANGED <<bars, phase, winners, share, now, session, returned>>

\* The end of the tape closes the session, the limit on bars kills; then
\* every container still running is forced out.
Flush == /\ todo' = FlushEvents(session) \o <<[op |-> "exitAll"]>>
         /\ session' = [session EXCEPT !.open = FALSE]

ForceStop == /\ bars > 0
             /\ todo' = <<Event("KillSwitch"), [op |-> "exitAll"]>>
             /\ UNCHANGED session

EndReplay ==
  /\ phase = "Replay"
  /\ Idle /\ todo = <<>>
  /\ phase' = "Ending"
  /\ Flush \/ ForceStop
  /\ UNCHANGED deskVars
  /\ UNCHANGED <<winners, share, now, returned>>

Settle ==
  /\ phase = "Ending"
  /\ Idle /\ todo = <<>>
  /\ phase' = "Settled"
  /\ returned' = (Settled(ledger) /\ Settlement(ledger) >= 0)
  /\ UNCHANGED deskVars
  /\ UNCHANGED <<winners, share, now, session, todo>>

DoWork == Work /\ UNCHANGED runVars

RunNext ==
  \/ Route
  \/ StartReplay
  \/ \E symbol \in Symbols, close \in Closes, day \in 1..MaxDays, window \in Windows :
       NextBar(symbol, close, day, window)
  \/ MakeCall
  \/ EndReplay
  \/ Settle
  \/ DoWork

RunSpec == RunInit /\ [][RunNext]_vars

\* execute runs to its end on one thread and the tape is finite.
FairRunSpec == RunSpec /\ WF_vars(RunNext)

-------------------------------------------------------------------------------
(***************************************************************************)
(* Every run comes to its settlement, whatever its strategies do.          *)
(***************************************************************************)
RunEnds == <>(phase = "Settled")

(***************************************************************************)
(* A settled run leaves nothing behind: no container runs or holds shares, *)
(* none has money of the ledger or a place in the index, the settlement is *)
(* all the money there is and no more, and the borrow is returned unless   *)
(* the run ended in debt.                                                  *)
(***************************************************************************)
RunEndsClean ==
  phase = "Settled" =>
    /\ \A c \in ContainerIds : ~ Active(c) /\ containers[c].holding.pos = 0
    /\ \A s \in Symbols : positions[s].pos = 0
    /\ index = EmptyIndex
    /\ Settled(ledger) /\ Settlement(ledger) = ledger.available
    /\ returned <=> Settlement(ledger) >= 0

(***************************************************************************)
(* A container sees a bar of the square-off window only after the warning  *)
(* went round, on every day, and a bar before it only once the last day's  *)
(* square-off is lifted.                                                   *)
(***************************************************************************)
WarnedInWindow ==
  call.op = "bar" => (switches.mis <=> now.window >= SquareOff)

(***************************************************************************)
(* A day that reaches the square-off window ends with nobody holding       *)
(* shares: the warning's flatten is not undone by any later bar.           *)
(***************************************************************************)
WindowSquaresOff ==
  [][session.day # session'.day /\ session.misFired
       => \A c \in ContainerIds : containers[c].holding.pos = 0]_vars

(***************************************************************************)
(* Every winner is started with its share of the pool, except one for a    *)
(* symbol and strategy that is started already, or one without a share.    *)
(***************************************************************************)
WinnersAreStarted ==
  [][Route => \/ containers'[nextId].status = "Active"
              \/ share = 0
              \/ \E c \in ContainerIds : Active(c) /\ KeyOf(containers[c]) = Head(winners)]_vars

(***************************************************************************)
(* What the design says of every trading day: MIS positions are closed by  *)
(* square-off, none is carried into the next session.                      *)
(***************************************************************************)
NothingOvernight ==
  call.op = "event" /\ call.type = "SessionStart"
    => \A c \in ContainerIds : containers[c].holding.pos = 0
===============================================================================
