---------------------------- MODULE PortfolioLedger ----------------------------
(***************************************************************************)
(* One ledger in use: containers take an allocation, turn it real and give *)
(* it back, in any order and any mode.  What a container gives back is its *)
(* cash, which a leveraged loss can carry below zero.                      *)
(***************************************************************************)
EXTENDS Ledger

CONSTANTS Borrowed,     \* the capital the ledger starts with
          Amounts,      \* allocations asked for, the refused ones included
          Values,       \* cash a container may come back with
          Results       \* bound: what paper and real results may add up to

ASSUME LedgerAssumption == /\ Borrowed \in Nat
                           /\ Amounts \subseteq Int
                           /\ Values \subseteq Int
                           /\ Results \subseteq Int

VARIABLES ledger,
          paperPnl      \* history: the part of realized that never was money

vars == <<ledger, paperPnl>>

TypeOK == LedgerOK(ledger) /\ paperPnl \in Int

Init == ledger = NewLedger(Borrowed) /\ paperPnl = 0

Allocate(c, amount, mode) ==
  /\ TakeOk(ledger, c, amount, mode)
  /\ ledger' = Take(ledger, c, amount, mode)
  /\ UNCHANGED paperPnl

Upgrade(c) ==
  /\ CommitRealOk(ledger, c)
  /\ ledger' = CommitReal(ledger, c)
  /\ UNCHANGED paperPnl

Release(c, value) ==
  /\ GiveBackOk(ledger, c)
  /\ ledger' = GiveBack(ledger, c, value)
  /\ paperPnl' = IF ledger.allocs[c].real
                 THEN paperPnl
                 ELSE paperPnl + (value - ledger.allocs[c].principal)
  /\ paperPnl' \in Results
  /\ ledger'.realized - paperPnl' \in Results

Next == \E c \in ContainerIds :
          \/ \E amount \in Amounts, mode \in Modes : Allocate(c, amount, mode)
          \/ Upgrade(c)
          \/ \E value \in Values : Release(c, value)

Spec == Init /\ [][Next]_vars

-------------------------------------------------------------------------------
(***************************************************************************)
(* settled(), which return_capital trusts, looks at two counters only: it  *)
(* must say that no container holds an allocation, of either kind.         *)
(***************************************************************************)
SettledMeansEmpty ==
  Settled(ledger) <=> \A c \in ContainerIds : ~ ledger.allocs[c].held

(***************************************************************************)
(* settlement() is computed from borrowed and realized alone.  It must be  *)
(* the money in the ledger, free or allocated, plus the paper results that *)
(* were never backed by any.                                               *)
(***************************************************************************)
SettlementIsTheMoney ==
  Settlement(ledger) = ledger.available + ledger.allocated + paperPnl

(***************************************************************************)
(* take and commit_real never spend money that is not there: available     *)
(* only falls below zero when a real container comes back with a loss.     *)
(***************************************************************************)
OnlyLossesOverdraw ==
  [][ledger'.available < 0 /\ ledger'.available < ledger.available
       => \E c \in ContainerIds : ledger.allocs[c].real /\ ~ ledger'.allocs[c].held]_vars

(***************************************************************************)
(* The counters implement the pot of claims: the pot is the settlement     *)
(* without the paper results, the claims are the allocations.              *)
(***************************************************************************)
MoneyOf(l, pnl) == Settlement(l) - pnl
ClaimsOf(l) == [c \in ContainerIds |->
                  [amount |-> l.allocs[c].principal, firm |-> l.allocs[c].real]]

Claims == INSTANCE CapitalClaims WITH
            MaxClaims <- MaxContainers,
            pot       <- MoneyOf(ledger, paperPnl),
            claims    <- ClaimsOf(ledger)

ImplementsClaims == Claims!Spec
===============================================================================
