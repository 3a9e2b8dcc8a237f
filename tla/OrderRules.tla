----------------------------- MODULE OrderRules -----------------------------
(***************************************************************************)
(* The pure rules of the matching engine: which orders are open, which     *)
(* pairs match, how much a pair executes and what status an order then     *)
(* has.  An order is a row of the `orders` table; a price is a number of   *)
(* cents, and NoPrice stands for the NULL price of a market order.         *)
(***************************************************************************)
EXTENDS Integers

CONSTANTS Users, Symbols

NoPrice == 0

OrderTypes == {"market", "limit"}
Sides == {"buy", "sell"}
OpenStatuses == {"open", "partially_filled"}
Statuses == OpenStatuses \cup {"filled", "cancelled"}

OrderRow ==
    [user: Users, symbol: Symbols, type: OrderTypes, side: Sides, price: Nat,
     quantity: Nat, filled: Nat, status: Statuses]

-----------------------------------------------------------------------------
(* Prices.  A client sends a price in dollars with any number of decimals; *)
(* the column is NUMERIC(15, 2), which rounds it half up to a cent, and    *)
(* the table's CHECK refuses a limit price that rounds to zero.  The model *)
(* takes the submitted price in tenths of a cent.                          *)

StoredPrice(mills) == (mills + 5) \div 10

-----------------------------------------------------------------------------
(* Orders.                                                                 *)

Remaining(o) == o.quantity - o.filled

IsOpen(o) == o.status \in OpenStatuses /\ Remaining(o) > 0

IsLimit(o) == o.type = "limit"

(* Two orders that may trade.  A market order takes any price; that its    *)
(* counterparty is a limit order is checked only when the trade settles.   *)
CanMatch(incoming, resting) ==
    /\ incoming.symbol = resting.symbol
    /\ incoming.side # resting.side
    /\ \/ incoming.type = "market"
       \/ /\ incoming.price # NoPrice
          /\ resting.price # NoPrice
          /\ IF incoming.side = "buy" THEN resting.price <= incoming.price
                                      ELSE resting.price >= incoming.price

(* Mutant: an exact fill is not yet full.                                  *)
StatusAfterOverfill(o, executed, cancelRemainder) ==
    IF o.filled + executed > o.quantity THEN "filled"
    ELSE IF cancelRemainder THEN "cancelled"
    ELSE IF o.filled + executed > 0 THEN "partially_filled" ELSE "open"

StatusAfterFill(o, executed, cancelRemainder) ==
    IF o.filled + executed >= o.quantity THEN "filled"
    ELSE IF cancelRemainder THEN "cancelled"
    ELSE IF o.filled + executed > 0 THEN "partially_filled" ELSE "open"

(* Mutant: the fill replaces the earlier fills.                            *)
AfterLastFill(o, executed, cancelRemainder) ==
    [o EXCEPT !.filled = executed,
              !.status = StatusAfterFill(o, executed, cancelRemainder)]

(* The row an order has once `executed` units of it are filled.            *)
AfterFill(o, executed, cancelRemainder) ==
    [o EXCEPT !.filled = @ + executed,
              !.status = StatusAfterFill(o, executed, cancelRemainder)]

Cancelled(o) == [o EXCEPT !.status = "cancelled"]

-----------------------------------------------------------------------------
(* Quantities.                                                             *)

Least(a, b) == IF a <= b THEN a ELSE b

Requested(buy, sell) == Least(Remaining(buy), Remaining(sell))

(* Whole shares a buyer with `cash` cents can pay for.                     *)
Affordable(cash, price) == cash \div price

(* Mutants: no look at the buyer's cash; one share per settlement.         *)
FillQuantityUnpaid(buy, sell, available, affordable) ==
    Least(Requested(buy, sell), available)

FillOneShare(buy, sell, available, affordable) ==
    Least(Least(1, available), affordable)

FillQuantity(buy, sell, available, affordable) ==
    Least(Least(Requested(buy, sell), available), affordable)

(* Mutant: the divisor forgets the shares already held.                    *)
AverageCostOfPurchase(held, cost, bought, price) ==
    (2 * (held * cost + bought * price) + bought) \div (2 * bought)

(* The volume-weighted cost of a holding once `bought` shares are added,   *)
(* rounded half up to a cent as the NUMERIC(15, 2) column does.            *)
AverageCost(held, cost, bought, price) ==
    LET n == held + bought
    IN  (2 * (held * cost + bought * price) + n) \div (2 * n)
=============================================================================
