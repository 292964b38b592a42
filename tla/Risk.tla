---------------------------------- MODULE Risk ----------------------------------
(***************************************************************************)
(* RiskEngine as operators on a record: the two switches, the index of     *)
(* active containers, and the rules an order intent passes through.        *)
(***************************************************************************)
EXTENDS Exchange, Ledger

CONSTANTS Symbols,
          Strategies,
          MaxPosition,      \* limits.max_position
          DailyLossLimit,   \* limits.daily_loss_limit
          RiskLeverage      \* limits.leverage

ASSUME RiskAssumption ==
  /\ MaxPosition \in Nat /\ DailyLossLimit \in Nat /\ RiskLeverage \in Nat \ {0}

\* One workbook: its id, the third part of a key, is the same for every container.
Keys  == Symbols \X Strategies
NoKey == <<>>

Index == [byKey : [Keys -> {0} \cup ContainerIds], byId : [ContainerIds -> Keys \cup {NoKey}]]

EmptyIndex == [byKey |-> [k \in Keys |-> 0], byId |-> [c \in ContainerIds |-> NoKey]]

\* A plausible bug: the comparison with the container itself is the wrong way round.
OccupiedBySelf(index, key, c) == index.byKey[key] = c

Occupied(index, key, c) == index.byKey[key] \notin {0, c}

Registered(index, key, c) ==
  [byKey |-> [index.byKey EXCEPT ![key] = c], byId |-> [index.byId EXCEPT ![c] = key]]

\* A plausible bug: only one of the two maps forgets the container.
UnregisteredById(index, c) == [index EXCEPT !.byId[c] = NoKey]

Unregistered(index, c) ==
  IF index.byId[c] = NoKey
  THEN index
  ELSE [byKey |-> [index.byKey EXCEPT ![index.byId[c]] = 0],
        byId  |-> [index.byId EXCEPT ![c] = NoKey]]

-------------------------------------------------------------------------------
(* on_system_event                                                         *)

EventTypes == {"SessionStart", "SessionEnd", "MisSquareoffWarning", "KillSwitch"}

Switches == [kill : BOOLEAN, mis : BOOLEAN]

SwitchesOff == [kill |-> FALSE, mis |-> FALSE]

Heard(s, event) ==
  CASE event = "KillSwitch"          -> [s EXCEPT !.kill = TRUE]
    [] event = "MisSquareoffWarning" -> [s EXCEPT !.mis = TRUE]
    [] event = "SessionStart"        -> [s EXCEPT !.mis = FALSE]
    [] OTHER                         -> s

-------------------------------------------------------------------------------
(* check: every rule must approve.  inHours is nse_regular_hours(now); all *)
(* containers trade MIS, the mode ContainerManager leaves them in.         *)

TradeApproved(side, qty, price, inHours, cash, h) ==
  /\ inHours
  /\ h.realized > -DailyLossLimit
  /\ side = "Buy" =>
       /\ h.pos + qty <= MaxPosition
       /\ price > 0
       /\ cash >= (price * qty) \div RiskLeverage + BuyFees(price, qty)

\* A plausible bug: the square-off switch is not looked at.
ApprovedInSquareoff(side, qty, price, inHours, cash, h, s) ==
  ~ s.kill /\ TradeApproved(side, qty, price, inHours, cash, h)

\* A plausible bug: the kill switch is not looked at.
ApprovedWhenKilled(side, qty, price, inHours, cash, h, s) ==
  ~ s.mis /\ TradeApproved(side, qty, price, inHours, cash, h)

Approved(side, qty, price, inHours, cash, h, s) ==
  ~ s.kill /\ ~ s.mis /\ TradeApproved(side, qty, price, inHours, cash, h)
===============================================================================
