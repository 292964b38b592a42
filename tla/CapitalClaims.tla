----------------------------- MODULE CapitalClaims -----------------------------
(***************************************************************************)
(* What the capital of a borrow promises its containers, and that of a     *)
(* workbook its borrows, without their counters: a pot of real money and   *)
(* the claims on it.  A firm claim is backed by the pot, a claim that is   *)
(* not firm is play money.  A claim is only made firm while the pot covers *)
(* it, and only closing a claim changes the pot.                           *)
(***************************************************************************)
EXTENDS Integers, Sums

CONSTANT MaxClaims

VARIABLES pot, claims

NoClaim == [amount |-> 0, firm |-> FALSE]

Firm == [c \in 1..MaxClaims |-> IF claims[c].firm THEN claims[c].amount ELSE 0]

Free == pot - SumUpTo(Firm, MaxClaims)

Init == pot \in Nat /\ claims = [c \in 1..MaxClaims |-> NoClaim]

OnlyClaim(c) == claims' = [claims EXCEPT ![c] = claims'[c]]

Open(c) ==
  /\ claims[c] = NoClaim
  /\ OnlyClaim(c)
  /\ claims'[c].amount > 0
  /\ claims'[c].firm => claims'[c].amount <= Free
  /\ UNCHANGED pot

MakeFirm(c) ==
  /\ claims[c] # NoClaim
  /\ ~ claims[c].firm
  /\ claims[c].amount <= Free
  /\ claims' = [claims EXCEPT ![c] = [amount |-> claims[c].amount, firm |-> TRUE]]
  /\ UNCHANGED pot

Close(c) ==
  /\ claims[c] # NoClaim
  /\ claims' = [claims EXCEPT ![c] = NoClaim]
  /\ pot' \in Int
  /\ ~ claims[c].firm => pot' = pot

Next == \E c \in 1..MaxClaims : Open(c) \/ MakeFirm(c) \/ Close(c)

Spec == Init /\ [][Next]_<<pot, claims>>

(***************************************************************************)
(* An open pot: whoever owns it may also put money in.                     *)
(***************************************************************************)
Deposit == pot' \in Int /\ pot' >= pot /\ UNCHANGED claims

OpenSpec == Init /\ [][Next \/ Deposit]_<<pot, claims>>
===============================================================================
