-------------------------------- MODULE Ledger --------------------------------
(***************************************************************************)
(* The money of one borrow, as operators on a record: what PortfolioLedger *)
(* does to its counters and its map of allocations, which CapitalManager   *)
(* forwards to.  The modules that own a ledger (PortfolioLedger, Workbook, *)
(* TradingRun) keep it in a variable and apply these.                      *)
(*                                                                         *)
(* Every operation of the code returns an OpResult and changes nothing     *)
(* when it fails: Op is the new ledger, OpOk the condition of success.     *)
(***************************************************************************)
EXTENDS Integers, Sums

CONSTANT MaxContainers   \* containers of one borrow: ids 1..MaxContainers

ASSUME MaxContainersAssumption == MaxContainers \in Nat

ContainerIds == 1..MaxContainers

Modes == {"Backtest", "Paper", "Real"}

Allocation == [held : BOOLEAN, principal : Int, real : BOOLEAN]

\* The map of allocations is total here: an id that is not in it is not held.
NoAllocation == [held |-> FALSE, principal |-> 0, real |-> FALSE]

LedgerState == [borrowed : Int, available : Int, allocated : Int, paper : Int,
                realized : Int, allocs : [ContainerIds -> Allocation]]

NewLedger(amount) ==
  [borrowed |-> amount, available |-> amount, allocated |-> 0, paper |-> 0,
   realized |-> 0, allocs |-> [c \in ContainerIds |-> NoAllocation]]

Settlement(l) == l.borrowed + l.realized

Settled(l) == l.allocated = 0 /\ l.paper = 0

-------------------------------------------------------------------------------
(* take: a Real container moves money from available to allocated, any     *)
(* other one only reserves paper money.                                    *)

\* A plausible bug: an empty amount is taken as well.
TakeOkAnyAmount(l, c, amount, mode) ==
  /\ ~ l.allocs[c].held
  /\ mode = "Real" => l.available >= amount

TakeOk(l, c, amount, mode) ==
  /\ amount > 0
  /\ ~ l.allocs[c].held
  /\ mode = "Real" => l.available >= amount

Take(l, c, amount, mode) ==
  LET real == mode = "Real"
      new  == [l EXCEPT !.allocs[c] = [held |-> TRUE, principal |-> amount, real |-> real]]
  IN  IF real
      THEN [new EXCEPT !.available = @ - amount, !.allocated = @ + amount]
      ELSE [new EXCEPT !.paper = @ + amount]

(* commit_real: a paper allocation becomes real, if the money is there.    *)

\* A plausible bug: the money of a paper container is still there.
CommitRealOkUnfunded(l, c) == l.allocs[c].held /\ ~ l.allocs[c].real

CommitRealOk(l, c) ==
  /\ l.allocs[c].held
  /\ ~ l.allocs[c].real
  /\ l.available >= l.allocs[c].principal

CommitReal(l, c) ==
  LET amount == l.allocs[c].principal
  IN  [l EXCEPT !.available = @ - amount, !.paper = @ - amount,
                !.allocated = @ + amount, !.allocs[c] = [@ EXCEPT !.real = TRUE]]

(* give_back: the container ends and hands over what its cash has become.  *)
(* The difference to the principal is realized in both modes; only a real  *)
(* one returns money to available.                                         *)

GiveBackOk(l, c) == l.allocs[c].held

\* A plausible bug: the principal comes back, whatever the result.
GiveBackPrincipalOnly(l, c, value) ==
  LET a   == l.allocs[c]
      new == [l EXCEPT !.realized = @ + (value - a.principal), !.allocs[c] = NoAllocation]
  IN  IF a.real
      THEN [new EXCEPT !.allocated = @ - a.principal, !.available = @ + a.principal]
      ELSE [new EXCEPT !.paper = @ - a.principal]

GiveBack(l, c, value) ==
  LET a   == l.allocs[c]
      new == [l EXCEPT !.realized = @ + (value - a.principal), !.allocs[c] = NoAllocation]
  IN  IF a.real
      THEN [new EXCEPT !.allocated = @ - a.principal, !.available = @ + value]
      ELSE [new EXCEPT !.paper = @ - a.principal]

-------------------------------------------------------------------------------
(* What the allocations of a ledger add up to.                             *)

RealPrincipal(l)  == [c \in ContainerIds |-> IF l.allocs[c].real THEN l.allocs[c].principal ELSE 0]
PaperPrincipal(l) == [c \in ContainerIds |-> IF l.allocs[c].real THEN 0 ELSE l.allocs[c].principal]

\* An entry is a positive claim, or nothing at all.
ClaimsWellFormed(l) ==
  \A c \in ContainerIds : IF l.allocs[c].held
                          THEN l.allocs[c].principal > 0
                          ELSE l.allocs[c] = NoAllocation

CountersMatch(l) ==
  /\ l.allocated = SumUpTo(RealPrincipal(l), MaxContainers)
  /\ l.paper = SumUpTo(PaperPrincipal(l), MaxContainers)

LedgerOK(l) == l \in LedgerState /\ ClaimsWellFormed(l) /\ CountersMatch(l)
===============================================================================
