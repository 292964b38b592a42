------------------------- MODULE PortfolioLedger_proofs -------------------------
(***************************************************************************)
(* A ledger in use keeps its books for any number of containers, any       *)
(* amounts and any results, and implements the pot of claims.              *)
(***************************************************************************)
EXTENDS PortfolioLedger, Ledger_proofs

IInv == TypeOK /\ SettlementIsTheMoney

(***************************************************************************)
(* The money each operation moves.                                         *)
(***************************************************************************)
LEMMA TakeMoves ==
  ASSUME NEW l \in LedgerState, NEW c \in ContainerIds, NEW amount \in Int, NEW mode \in Modes
  PROVE  /\ Settlement(Take(l, c, amount, mode)) = l.borrowed + l.realized
         /\ Take(l, c, amount, mode).available + Take(l, c, amount, mode).allocated
              = l.available + l.allocated
<1>1. l.available \in Int /\ l.allocated \in Int
  BY DEF LedgerState
<1>2. /\ Take(l, c, amount, mode).borrowed = l.borrowed
      /\ Take(l, c, amount, mode).realized = l.realized
  BY DEF Take, LedgerState
<1>3. CASE mode = "Real"
  <2>1. /\ Take(l, c, amount, mode).available = l.available - amount
        /\ Take(l, c, amount, mode).allocated = l.allocated + amount
    BY <1>3 DEF Take, LedgerState
  <2> QED
    BY <1>1, <1>2, <2>1 DEF Settlement
<1>4. CASE mode # "Real"
  <2>1. /\ Take(l, c, amount, mode).available = l.available
        /\ Take(l, c, amount, mode).allocated = l.allocated
    BY <1>4 DEF Take, LedgerState
  <2> QED
    BY <1>1, <1>2, <2>1 DEF Settlement
<1> QED
  BY <1>3, <1>4

(***************************************************************************)
(* commit_real neither makes nor loses money: the settlement and the sum   *)
(* of what is free and what is allocated stay.                             *)
(***************************************************************************)
LEMMA CommitRealMoves ==
  ASSUME NEW l \in LedgerState, NEW c \in ContainerIds, l.allocs[c].principal \in Int
  PROVE  /\ Settlement(CommitReal(l, c)) = l.borrowed + l.realized
         /\ CommitReal(l, c).available + CommitReal(l, c).allocated = l.available + l.allocated
<1>1. l.available \in Int /\ l.allocated \in Int
  BY DEF LedgerState
<1>2. /\ CommitReal(l, c).borrowed = l.borrowed
      /\ CommitReal(l, c).realized = l.realized
      /\ CommitReal(l, c).available = l.available - l.allocs[c].principal
      /\ CommitReal(l, c).allocated = l.allocated + l.allocs[c].principal
  BY DEF CommitReal, LedgerState
<1> QED
  BY <1>1, <1>2 DEF Settlement

(***************************************************************************)
(* give_back changes the settlement by the result of the container, and    *)
(* the money by that result only if the container was real.                *)
(***************************************************************************)
LEMMA GiveBackMoves ==
  ASSUME NEW l \in LedgerState, NEW c \in ContainerIds, NEW value \in Int,
         l.allocs[c].principal \in Int
  PROVE  /\ Settlement(GiveBack(l, c, value))
              = l.borrowed + (l.realized + (value - l.allocs[c].principal))
         /\ GiveBack(l, c, value).available + GiveBack(l, c, value).allocated
              = IF l.allocs[c].real
                THEN l.available + l.allocated + (value - l.allocs[c].principal)
                ELSE l.available + l.allocated
<1>1. l.available \in Int /\ l.allocated \in Int
  BY DEF LedgerState
<1>2. /\ GiveBack(l, c, value).borrowed = l.borrowed
      /\ GiveBack(l, c, value).realized = l.realized + (value - l.allocs[c].principal)
  BY DEF GiveBack, LedgerState
<1>3. CASE l.allocs[c].real
  <2>1. /\ GiveBack(l, c, value).available = l.available + value
        /\ GiveBack(l, c, value).allocated = l.allocated - l.allocs[c].principal
    BY <1>3 DEF GiveBack, LedgerState
  <2> QED
    BY <1>1, <1>2, <1>3, <2>1 DEF Settlement
<1>4. CASE ~ l.allocs[c].real
  <2>1. /\ GiveBack(l, c, value).available = l.available
        /\ GiveBack(l, c, value).allocated = l.allocated
    BY <1>4 DEF GiveBack, LedgerState
  <2> QED
    BY <1>1, <1>2, <1>4, <2>1 DEF Settlement
<1> QED
  BY <1>3, <1>4

(***************************************************************************)
(* An allocation has a typed principal and mode.                           *)
(***************************************************************************)
LEMMA AllocationTypes ==
  ASSUME NEW l \in LedgerState, NEW c \in ContainerIds
  PROVE  /\ l.allocs \in [ContainerIds -> Allocation]
         /\ l.allocs[c] \in Allocation
         /\ l.allocs[c].principal \in Int
         /\ l.allocs[c].real \in BOOLEAN
         /\ l.borrowed \in Int /\ l.available \in Int /\ l.allocated \in Int
         /\ l.realized \in Int
BY DEF LedgerState, Allocation

(***************************************************************************)
(* A new ledger satisfies the invariant.                                   *)
(***************************************************************************)
LEMMA InitIInv == Init => IInv
<1> SUFFICES ASSUME Init PROVE IInv
  OBVIOUS
<1>1. LedgerOK(ledger) /\ paperPnl = 0
  BY NewLedgerOK, LedgerAssumption DEF Init
<1>2. SettlementIsTheMoney
  BY LedgerAssumption DEF Init, NewLedger, SettlementIsTheMoney, Settlement
<1> QED
  BY <1>1, <1>2 DEF IInv, TypeOK

(***************************************************************************)
(* take, commit_real and give_back keep the invariant.                     *)
(***************************************************************************)
LEMMA NextIInv == IInv /\ [Next]_vars => IInv'
<1> SUFFICES ASSUME IInv, [Next]_vars PROVE IInv'
  OBVIOUS
<1>1. LedgerOK(ledger) /\ ledger \in LedgerState /\ paperPnl \in Int
  BY DEF IInv, TypeOK, LedgerOK
<1>2. ASSUME NEW c \in ContainerIds, NEW amount \in Amounts, NEW mode \in Modes,
             Allocate(c, amount, mode)
      PROVE  IInv'
  <2>1. amount \in Int
    BY LedgerAssumption
  <2>2. TypeOK'
    BY <1>1, <1>2, <2>1, TakeKeepsLedgerOK DEF Allocate, TypeOK
  <2>3. SettlementIsTheMoney'
    <3>1. ledger' = Take(ledger, c, amount, mode) /\ paperPnl' = paperPnl
      BY <1>2 DEF Allocate
    <3>2. /\ Settlement(ledger') = Settlement(ledger)
          /\ ledger'.available + ledger'.allocated = ledger.available + ledger.allocated
      BY <1>1, <2>1, <3>1, TakeMoves DEF Settlement
    <3> QED
      BY <3>1, <3>2 DEF IInv, SettlementIsTheMoney
  <2> QED
    BY <2>2, <2>3 DEF IInv
<1>3. ASSUME NEW c \in ContainerIds, Upgrade(c)
      PROVE  IInv'
  <2>1. TypeOK'
    BY <1>1, <1>3, CommitRealKeepsLedgerOK DEF Upgrade, TypeOK
  <2>2. SettlementIsTheMoney'
    <3>1. ledger' = CommitReal(ledger, c) /\ paperPnl' = paperPnl
      BY <1>3 DEF Upgrade
    <3>2. ledger.allocs[c].principal \in Int
      BY <1>1, AllocationTypes
    <3>3. /\ Settlement(ledger') = Settlement(ledger)
          /\ ledger'.available + ledger'.allocated = ledger.available + ledger.allocated
      BY <1>1, <3>1, <3>2, CommitRealMoves DEF Settlement
    <3> QED
      BY <3>1, <3>3 DEF IInv, SettlementIsTheMoney
  <2> QED
    BY <2>1, <2>2 DEF IInv
<1>4. ASSUME NEW c \in ContainerIds, NEW value \in Values, Release(c, value)
      PROVE  IInv'
  <2>1. value \in Int
    BY LedgerAssumption
  <2>2. paperPnl' \in Int
    BY <1>1, <1>4, <2>1, AllocationTypes DEF Release
  <2>3. TypeOK'
    BY <1>1, <1>4, <2>1, <2>2, GiveBackKeepsLedgerOK DEF Release, TypeOK
  <2>4. SettlementIsTheMoney'
    <3> DEFINE p == ledger.allocs[c].principal
               pnl == value - p
               money == ledger.available + ledger.allocated
    <3>1. /\ p \in Int /\ ledger.borrowed \in Int /\ ledger.realized \in Int
          /\ ledger.available \in Int /\ ledger.allocated \in Int
      BY <1>1, AllocationTypes
    <3>2. ledger' = GiveBack(ledger, c, value)
      BY <1>4 DEF Release
    <3>3. /\ Settlement(ledger') = ledger.borrowed + (ledger.realized + pnl)
          /\ ledger'.available + ledger'.allocated
               = IF ledger.allocs[c].real THEN money + pnl ELSE money
      BY <1>1, <2>1, <3>1, <3>2, GiveBackMoves
    <3>4. paperPnl' = IF ledger.allocs[c].real THEN paperPnl ELSE paperPnl + pnl
      BY <1>4 DEF Release
    <3>5. ledger.borrowed + ledger.realized = money + paperPnl
      BY DEF IInv, SettlementIsTheMoney, Settlement
    <3>6. pnl \in Int /\ money \in Int
      BY <2>1, <3>1
    <3> HIDE DEF pnl, money, p
    <3>7. Settlement(ledger') = ledger'.available + ledger'.allocated + paperPnl'
      BY <1>1, <3>1, <3>3, <3>4, <3>5, <3>6
    <3> QED
      BY <3>7 DEF SettlementIsTheMoney
  <2> QED
    BY <2>3, <2>4 DEF IInv
<1>5. CASE UNCHANGED vars
  BY <1>5 DEF vars, IInv, TypeOK, SettlementIsTheMoney
<1> QED
  BY <1>2, <1>3, <1>4, <1>5 DEF Next

(***************************************************************************)
(* The type of the ledger, which includes that its counters are the sums   *)
(* of its allocations, holds in every reachable state.                     *)
(***************************************************************************)
THEOREM TypeCorrect == Spec => []TypeOK
<1>1. IInv => TypeOK
  BY DEF IInv
<1> QED
  BY InitIInv, NextIInv, <1>1, PTL DEF Spec

(***************************************************************************)
(* settlement() is the money there is plus the paper results.              *)
(***************************************************************************)
THEOREM SettlementCorrect == Spec => []SettlementIsTheMoney
<1>1. IInv => SettlementIsTheMoney
  BY DEF IInv
<1> QED
  BY InitIInv, NextIInv, <1>1, PTL DEF Spec

(***************************************************************************)
(* settled() says that no allocation is held.                              *)
(***************************************************************************)
THEOREM SettledCorrect == Spec => []SettledMeansEmpty
<1>1. TypeOK => SettledMeansEmpty
  BY SettledIffNothingHeld DEF TypeOK, SettledMeansEmpty
<1> QED
  BY TypeCorrect, <1>1, PTL

(***************************************************************************)
(* Only a real container that comes back with a loss overdraws.            *)
(***************************************************************************)
LEMMA NextOnlyLossesOverdraw ==
  IInv /\ [Next]_vars =>
    [ledger'.available < 0 /\ ledger'.available < ledger.available
       => \E c \in ContainerIds : ledger.allocs[c].real /\ ~ ledger'.allocs[c].held]_vars
<1> SUFFICES ASSUME IInv, [Next]_vars, ~ UNCHANGED vars,
                    ledger'.available < 0, ledger'.available < ledger.available
             PROVE  \E c \in ContainerIds : ledger.allocs[c].real /\ ~ ledger'.allocs[c].held
  OBVIOUS
<1>1. ledger \in LedgerState
  BY DEF IInv, TypeOK, LedgerOK
<1>2. ASSUME NEW c \in ContainerIds, NEW amount \in Amounts, NEW mode \in Modes,
             Allocate(c, amount, mode)
      PROVE  FALSE
  <2>1. ledger' = Take(ledger, c, amount, mode) /\ amount \in Int
    BY <1>2, LedgerAssumption DEF Allocate
  <2>2. ledger.available \in Int
    BY <1>1, AllocationTypes
  <2>3. CASE mode = "Real"
    <3>1. ledger'.available = ledger.available - amount
      BY <1>1, <2>1, <2>3 DEF Take, LedgerState
    <3>2. ledger.available >= amount
      BY <1>2, <2>3 DEF Allocate, TakeOk
    <3> QED
      BY <2>1, <2>2, <3>1, <3>2
  <2>4. CASE mode # "Real"
    <3>1. ledger'.available = ledger.available
      BY <1>1, <2>1, <2>4 DEF Take, LedgerState
    <3> QED
      BY <2>2, <3>1
  <2> QED
    BY <2>3, <2>4
<1>3. ASSUME NEW c \in ContainerIds, Upgrade(c)
      PROVE  FALSE
  <2>1. /\ ledger.available \in Int /\ ledger.allocs[c].principal \in Int
        /\ ledger.available >= ledger.allocs[c].principal
    BY <1>1, <1>3, AllocationTypes DEF Upgrade, CommitRealOk
  <2>2. ledger'.available = ledger.available - ledger.allocs[c].principal
    BY <1>1, <1>3 DEF Upgrade, CommitReal, LedgerState
  <2> QED
    BY <2>1, <2>2
<1>4. ASSUME NEW c \in ContainerIds, NEW value \in Values, Release(c, value)
      PROVE  ledger.allocs[c].real /\ ~ ledger'.allocs[c].held
  <2>1. ledger' = GiveBack(ledger, c, value)
    BY <1>4 DEF Release
  <2>2. ledger.allocs[c].real
    <3>1. ASSUME ~ ledger.allocs[c].real
          PROVE  ledger'.available = ledger.available
      BY <1>1, <2>1, <3>1 DEF GiveBack, LedgerState
    <3>2. ledger.available \in Int
      BY <1>1, AllocationTypes
    <3> QED
      BY <3>1, <3>2
  <2>3. ledger'.allocs[c] = NoAllocation
    BY <1>1, <2>1 DEF GiveBack, LedgerState
  <2> QED
    BY <2>2, <2>3 DEF NoAllocation
<1> QED
  BY <1>2, <1>3, <1>4 DEF Next

(***************************************************************************)
(* take and commit_real never overdraw: available only falls below zero    *)
(* when give_back takes in the loss of a real container.                   *)
(***************************************************************************)
THEOREM OverdraftCorrect == Spec => OnlyLossesOverdraw
BY InitIInv, NextIInv, NextOnlyLossesOverdraw, PTL DEF Spec, OnlyLossesOverdraw

-------------------------------------------------------------------------------
(***************************************************************************)
(* The sum of the abstract specification is the sum of the ledger, and     *)
(* what is free in the pot is what the ledger calls available.             *)
(***************************************************************************)
LEMMA SameSum == \A f, n : Claims!SumUpTo(f, n) = SumUpTo(f, n)
BY Zenon DEF Claims!SumUpTo, SumUpTo, Claims!PartialSums, PartialSums

(***************************************************************************)
(* The part of the pot that no firm claim covers is available_.            *)
(***************************************************************************)
LEMMA FreeIsAvailable ==
  IInv => Claims!Free = ledger.available
<1> SUFFICES ASSUME IInv PROVE Claims!Free = ledger.available
  OBVIOUS
<1>1. Claims!Firm = RealPrincipal(ledger)
  BY DEF Claims!Firm, RealPrincipal, ClaimsOf, ContainerIds
<1>2. Claims!Free = MoneyOf(ledger, paperPnl) - SumUpTo(RealPrincipal(ledger), MaxContainers)
  BY <1>1, SameSum DEF Claims!Free
<1>3. SumUpTo(RealPrincipal(ledger), MaxContainers) = ledger.allocated
  BY DEF IInv, TypeOK, LedgerOK, CountersMatch
<1>4. /\ ledger.available \in Int /\ ledger.allocated \in Int /\ paperPnl \in Int
      /\ Settlement(ledger) = ledger.available + ledger.allocated + paperPnl
  BY DEF IInv, TypeOK, LedgerOK, LedgerState, SettlementIsTheMoney
<1> QED
  BY <1>2, <1>3, <1>4 DEF MoneyOf

(***************************************************************************)
(* The claim of a container, and what an operation on one container does   *)
(* to the claims.                                                          *)
(***************************************************************************)
LEMMA ClaimOf ==
  ASSUME NEW l \in LedgerState, NEW c \in ContainerIds
  PROVE  /\ ClaimsOf(l)[c].amount = l.allocs[c].principal
         /\ ClaimsOf(l)[c].firm = l.allocs[c].real
BY DEF ClaimsOf

(***************************************************************************)
(* The claim a map entry of the ledger stands for.                         *)
(***************************************************************************)
LEMMA ClaimIsRecord ==
  ASSUME NEW l \in LedgerState, NEW c \in ContainerIds
  PROVE  ClaimsOf(l)[c] = [amount |-> l.allocs[c].principal, firm |-> l.allocs[c].real]
BY DEF ClaimsOf

(***************************************************************************)
(* An id that is not in the map has no claim.                              *)
(***************************************************************************)
LEMMA NoAllocationNoClaim ==
  ASSUME NEW l \in LedgerState, NEW c \in ContainerIds, l.allocs[c] = NoAllocation
  PROVE  ClaimsOf(l)[c] = Claims!NoClaim
<1>1. l.allocs[c].principal = 0 /\ l.allocs[c].real = FALSE
  BY DEF NoAllocation
<1> QED
  BY <1>1 DEF ClaimsOf, Claims!NoClaim

(***************************************************************************)
(* A positive principal is a claim.                                        *)
(***************************************************************************)
LEMMA PositiveIsAClaim ==
  ASSUME NEW l \in LedgerState, NEW c \in ContainerIds, l.allocs[c].principal > 0
  PROVE  ClaimsOf(l)[c] # Claims!NoClaim
<1>1. SUFFICES ASSUME ClaimsOf(l)[c] = Claims!NoClaim PROVE FALSE
  OBVIOUS
<1>2. ClaimsOf(l)[c].amount = 0
  BY <1>1 DEF Claims!NoClaim
<1> QED
  BY <1>2, ClaimOf

(***************************************************************************)
(* A ledger that differs in one entry differs in one claim.                *)
(***************************************************************************)
LEMMA OneClaimChanges ==
  ASSUME NEW l \in LedgerState, NEW k \in LedgerState, NEW c \in ContainerIds,
         \A i \in ContainerIds \ {c} : k.allocs[i] = l.allocs[i]
  PROVE  ClaimsOf(k) = [ClaimsOf(l) EXCEPT ![c] = ClaimsOf(k)[c]]
BY DEF ClaimsOf

(***************************************************************************)
(* take writes the entry of its own container only.                        *)
(***************************************************************************)
LEMMA TakeKeepsOthers ==
  ASSUME NEW l \in LedgerState, NEW c \in ContainerIds, NEW amount, NEW mode
  PROVE  \A i \in ContainerIds \ {c} : Take(l, c, amount, mode).allocs[i] = l.allocs[i]
BY DEF Take, LedgerState

(***************************************************************************)
(* commit_real writes the entry of its own container only.                 *)
(***************************************************************************)
LEMMA CommitRealKeepsOthers ==
  ASSUME NEW l \in LedgerState, NEW c \in ContainerIds
  PROVE  \A i \in ContainerIds \ {c} : CommitReal(l, c).allocs[i] = l.allocs[i]
BY DEF CommitReal, LedgerState

(***************************************************************************)
(* give_back erases the entry of its own container only.                   *)
(***************************************************************************)
LEMMA GiveBackKeepsOthers ==
  ASSUME NEW l \in LedgerState, NEW c \in ContainerIds, NEW value
  PROVE  \A i \in ContainerIds \ {c} : GiveBack(l, c, value).allocs[i] = l.allocs[i]
BY DEF GiveBack, LedgerState

(***************************************************************************)
(* A new ledger is a pot nobody has a claim on.                            *)
(***************************************************************************)
LEMMA InitRefines == Init => Claims!Init
<1> SUFFICES ASSUME Init PROVE Claims!Init
  OBVIOUS
<1>1. MoneyOf(ledger, paperPnl) = Borrowed
  BY LedgerAssumption DEF Init, NewLedger, MoneyOf, Settlement
<1>2. ClaimsOf(ledger) = [c \in 1..MaxContainers |-> Claims!NoClaim]
  BY DEF Init, NewLedger, ClaimsOf, NoAllocation, Claims!NoClaim, ContainerIds
<1> QED
  BY <1>1, <1>2, LedgerAssumption DEF Claims!Init

(***************************************************************************)
(* take opens a claim, commit_real makes it firm, give_back closes it.     *)
(***************************************************************************)
LEMMA NextRefines ==
  IInv /\ IInv' /\ [Next]_vars
    => [Claims!Next]_<<MoneyOf(ledger, paperPnl), ClaimsOf(ledger)>>
<1> SUFFICES ASSUME IInv, IInv', [Next]_vars
             PROVE  [Claims!Next]_<<MoneyOf(ledger, paperPnl), ClaimsOf(ledger)>>
  OBVIOUS
<1>1. /\ ledger \in LedgerState /\ ClaimsWellFormed(ledger) /\ paperPnl \in Int
      /\ ledger' \in LedgerState /\ ClaimsWellFormed(ledger') /\ paperPnl' \in Int
  BY DEF IInv, TypeOK, LedgerOK
<1>2. Claims!Free = ledger.available
  BY FreeIsAvailable
<1>p. /\ ClaimsOf(ledger)' = ClaimsOf(ledger')
      /\ MoneyOf(ledger, paperPnl)' = MoneyOf(ledger', paperPnl')
  BY DEF ClaimsOf, MoneyOf
<1>3. ASSUME NEW c \in ContainerIds, NEW amount \in Amounts, NEW mode \in Modes,
             Allocate(c, amount, mode)
      PROVE  Claims!Open(c)
  <2>1. /\ ledger' = Take(ledger, c, amount, mode) /\ paperPnl' = paperPnl
        /\ amount \in Int /\ amount > 0 /\ ~ ledger.allocs[c].held
        /\ mode = "Real" => ledger.available >= amount
    BY <1>3, LedgerAssumption DEF Allocate, TakeOk
  <2>2. ClaimsOf(ledger)[c] = Claims!NoClaim
    BY <1>1, <2>1, NoAllocationNoClaim DEF ClaimsWellFormed
  <2>3. ClaimsOf(ledger') = [ClaimsOf(ledger) EXCEPT ![c] = ClaimsOf(ledger')[c]]
    <3>1. \A i \in ContainerIds \ {c} : ledger'.allocs[i] = ledger.allocs[i]
      BY <1>1, <2>1, TakeKeepsOthers
    <3> QED
      BY <3>1 DEF ClaimsOf
  <2>4. ledger'.allocs[c] = [held |-> TRUE, principal |-> amount, real |-> mode = "Real"]
    BY <1>1, <2>1 DEF Take, LedgerState
  <2>5. ClaimsOf(ledger')[c] = [amount |-> amount, firm |-> mode = "Real"]
    <3>1. /\ ledger'.allocs[c].principal = amount
          /\ ledger'.allocs[c].real = (mode = "Real")
      BY <2>4
    <3> QED
      BY <1>1, <3>1, ClaimIsRecord, Zenon
  <2>6. MoneyOf(ledger', paperPnl') = MoneyOf(ledger, paperPnl)
    BY <1>1, <2>1, TakeMoves DEF MoneyOf, Settlement
  <2>7. /\ ClaimsOf(ledger)'[c].amount > 0
        /\ ClaimsOf(ledger)'[c].firm => ClaimsOf(ledger)'[c].amount <= ledger.available
    <3>1. /\ ClaimsOf(ledger)'[c].amount = amount
          /\ ClaimsOf(ledger)'[c].firm = (mode = "Real")
      BY <1>p, <2>5
    <3>2. ledger.available \in Int
      BY <1>1 DEF LedgerState
    <3> QED
      BY <2>1, <3>1, <3>2
  <2>8. /\ UNCHANGED MoneyOf(ledger, paperPnl)
        /\ Claims!OnlyClaim(c)
    BY <1>p, <2>3, <2>6 DEF Claims!OnlyClaim
  <2> QED
    BY <1>2, <2>2, <2>7, <2>8 DEF Claims!Open
<1>4. ASSUME NEW c \in ContainerIds, Upgrade(c)
      PROVE  Claims!MakeFirm(c)
  <2>1. /\ ledger' = CommitReal(ledger, c) /\ paperPnl' = paperPnl
        /\ ledger.allocs[c].held /\ ~ ledger.allocs[c].real
        /\ ledger.available >= ledger.allocs[c].principal
    BY <1>4 DEF Upgrade, CommitRealOk
  <2>2. ledger.allocs[c].principal > 0
    BY <1>1, <2>1 DEF ClaimsWellFormed
  <2>3. /\ ClaimsOf(ledger)[c] # Claims!NoClaim
        /\ ClaimsOf(ledger)[c].amount = ledger.allocs[c].principal
        /\ ClaimsOf(ledger)[c].firm = ledger.allocs[c].real
    BY <1>1, <2>2, ClaimOf, PositiveIsAClaim
  <2>4. /\ ledger'.allocs[c].principal = ledger.allocs[c].principal
        /\ ledger'.allocs[c].real = TRUE
    BY <1>1, <2>1 DEF CommitReal, LedgerState, Allocation
  <2>5. ClaimsOf(ledger')[c] = [amount |-> ClaimsOf(ledger)[c].amount, firm |-> TRUE]
    <3>1. ClaimsOf(ledger')[c] = [amount |-> ledger'.allocs[c].principal,
                                  firm   |-> ledger'.allocs[c].real]
      BY <1>1, ClaimIsRecord, Zenon
    <3> QED
      BY <2>3, <2>4, <3>1, Zenon
  <2>6. ClaimsOf(ledger') = [ClaimsOf(ledger) EXCEPT ![c] = ClaimsOf(ledger')[c]]
    <3>1. \A i \in ContainerIds \ {c} : ledger'.allocs[i] = ledger.allocs[i]
      BY <1>1, <2>1, CommitRealKeepsOthers
    <3> QED
      BY <3>1 DEF ClaimsOf
  <2>7. MoneyOf(ledger', paperPnl') = MoneyOf(ledger, paperPnl)
    BY <1>1, <2>1, AllocationTypes, CommitRealMoves DEF MoneyOf, Settlement
  <2>8. ledger.available \in Int /\ ledger.allocs[c].principal \in Int
    BY <1>1, AllocationTypes
  <2>9. ClaimsOf(ledger')
          = [ClaimsOf(ledger) EXCEPT ![c] = [amount |-> ClaimsOf(ledger)[c].amount, firm |-> TRUE]]
    BY <2>5, <2>6, Zenon
  <2>10. /\ ~ ClaimsOf(ledger)[c].firm
         /\ ClaimsOf(ledger)[c].amount <= ledger.available
    BY <2>1, <2>3, <2>8
  <2> QED
    BY <1>2, <1>p, <2>3, <2>7, <2>9, <2>10 DEF Claims!MakeFirm
<1>5. ASSUME NEW c \in ContainerIds, NEW value \in Values, Release(c, value)
      PROVE  Claims!Close(c)
  <2>1. /\ ledger' = GiveBack(ledger, c, value) /\ ledger.allocs[c].held /\ value \in Int
    BY <1>5, LedgerAssumption DEF Release, GiveBackOk
  <2>2. ledger.allocs[c].principal > 0
    BY <1>1, <2>1 DEF ClaimsWellFormed
  <2>3. /\ ClaimsOf(ledger)[c] # Claims!NoClaim
        /\ ClaimsOf(ledger)[c].firm = ledger.allocs[c].real
    BY <1>1, <2>2, ClaimOf, PositiveIsAClaim
  <2>4. ledger'.allocs[c] = NoAllocation
    BY <1>1, <2>1 DEF GiveBack, LedgerState
  <2>5. ClaimsOf(ledger') = [ClaimsOf(ledger) EXCEPT ![c] = ClaimsOf(ledger')[c]]
    <3>1. \A i \in ContainerIds \ {c} : ledger'.allocs[i] = ledger.allocs[i]
      BY <1>1, <2>1, GiveBackKeepsOthers
    <3> QED
      BY <3>1 DEF ClaimsOf
  <2>6. ClaimsOf(ledger') = [ClaimsOf(ledger) EXCEPT ![c] = Claims!NoClaim]
    BY <1>1, <2>4, <2>5, NoAllocationNoClaim
  <2>7. MoneyOf(ledger', paperPnl') \in Int
    BY <1>1 DEF MoneyOf, Settlement, LedgerState
  <2>8. ASSUME ~ ledger.allocs[c].real
        PROVE  MoneyOf(ledger', paperPnl') = MoneyOf(ledger, paperPnl)
    <3> DEFINE pnl == value - ledger.allocs[c].principal
    <3>1. paperPnl' = paperPnl + pnl
      BY <1>5, <2>8 DEF Release
    <3>2. pnl \in Int /\ ledger.borrowed \in Int /\ ledger.realized \in Int
      BY <1>1, <2>1, AllocationTypes
    <3>3. Settlement(ledger') = ledger.borrowed + (ledger.realized + pnl)
      BY <1>1, <2>1, AllocationTypes, GiveBackMoves
    <3> HIDE DEF pnl
    <3> QED
      BY <1>1, <3>1, <3>2, <3>3 DEF MoneyOf, Settlement
  <2> QED
    BY <1>p, <2>3, <2>6, <2>7, <2>8 DEF Claims!Close
<1>6. CASE UNCHANGED vars
  BY <1>6 DEF vars, MoneyOf, ClaimsOf, Settlement
<1> QED
  BY <1>3, <1>4, <1>5, <1>6 DEF Next, Claims!Next, ContainerIds

(***************************************************************************)
(* PortfolioLedger's counters implement the pot of claims.                 *)
(***************************************************************************)
THEOREM LedgerImplementsClaims == Spec => ImplementsClaims
BY InitIInv, NextIInv, InitRefines, NextRefines, PTL DEF Spec, ImplementsClaims, Claims!Spec
===============================================================================
