---------------------------- MODULE LedgerProofs ----------------------------
(***************************************************************************)
(* Proofs about Ledger, for any users, symbols, orders and endowments.     *)
(***************************************************************************)
EXTENDS Ledger, FiniteSetTheorems, TLAPS

-----------------------------------------------------------------------------
(* Arithmetic.                                                             *)

(* A buyer can pay for as many shares as Affordable says.                  *)
LEMMA AffordableIsPayable ==
    ASSUME NEW cash \in Nat, NEW price \in Nat \ {0}, NEW q \in Nat,
           q <= Affordable(cash, price)
    PROVE  q * price <= cash
  <1> DEFINE d == cash \div price
  <1>1. d \in Int /\ d * price <= cash
    BY Z3
  <1>2. q <= d
    BY DEF Affordable
  <1>3. q * price <= d * price
    <2> HIDE DEF d
    <2> QED BY <1>1, <1>2, Z3
  <1> HIDE DEF d
  <1> QED BY <1>1, <1>3, Z3

LEMMA ProductNat == \A a, b \in Nat : a * b \in Nat
  BY Z3

LEMMA AffordableNat ==
    ASSUME NEW cash \in Nat, NEW price \in Nat \ {0}
    PROVE  Affordable(cash, price) \in Nat
  BY Z3 DEF Affordable

LEMMA AverageCostNat ==
    ASSUME NEW held \in Nat, NEW cost \in Nat, NEW bought \in Nat \ {0}, NEW price \in Nat
    PROVE  AverageCost(held, cost, bought, price) \in Nat
  <1> DEFINE a == held * cost
             b == bought * price
  <1>1. a \in Nat /\ b \in Nat
    BY ProductNat
  <1> HIDE DEF a, b
  <1>2. (2 * (a + b) + (held + bought)) \div (2 * (held + bought)) \in Nat
    <2> DEFINE x == 2 * (a + b) + (held + bought)
               y == 2 * (held + bought)
    <2>1. x \in Nat /\ y \in Nat \ {0}
      BY <1>1
    <2> HIDE DEF x, y
    <2>2. x \div y \in Nat
      BY <2>1, Z3
    <2> QED BY <2>2 DEF x, y
  <1> QED BY <1>2 DEF AverageCost, a, b

LEMMA ProductMonotone == \A a, b, c \in Nat : a <= b => c * a <= c * b
  BY Z3

(* x \div y is the integer part of the quotient.                           *)
LEMMA QuotientBounds ==
    ASSUME NEW x \in Nat, NEW y \in Nat \ {0}
    PROVE  x \div y \in Nat /\ y * (x \div y) <= x /\ x < y * (x \div y) + y
  BY Z3

(* The rounded average of a holding lies between its cost and the price    *)
(* of what is added; it is that price if nothing was held.                 *)
LEMMA AverageBetween ==
    ASSUME NEW held \in Nat, NEW cost \in Nat, NEW bought \in Nat \ {0}, NEW price \in Nat,
           NEW lo \in Nat, NEW hi \in Nat, lo <= price, price <= hi,
           held > 0 => lo <= cost /\ cost <= hi
    PROVE  LET a == AverageCost(held, cost, bought, price) IN lo <= a /\ a <= hi
  <1> DEFINE n == held + bought
             spent == held * cost + bought * price
             a == (2 * spent + n) \div (2 * n)
  <1>1. n \in Nat \ {0} /\ spent \in Nat
    BY ProductNat
  <1>2. n * lo = held * lo + bought * lo /\ n * hi = held * hi + bought * hi
    BY Z3
  <1>3. bought * lo <= bought * price /\ bought * price <= bought * hi
    BY ProductMonotone
  <1>4. held * lo <= held * cost /\ held * cost <= held * hi
    <2>1. CASE held = 0
      BY <2>1, Z3
    <2>2. CASE held > 0
      BY <2>2, ProductMonotone
    <2> QED BY <2>1, <2>2
  <1>5. n * lo <= spent /\ spent <= n * hi
    <2> DEFINE hl == held * lo  hc == held * cost  hh == held * hi
               bl == bought * lo  bp == bought * price  bh == bought * hi
    <2>1. hl \in Nat /\ hc \in Nat /\ hh \in Nat /\ bl \in Nat /\ bp \in Nat /\ bh \in Nat
      BY ProductNat
    <2>2. n * lo = hl + bl /\ n * hi = hh + bh /\ spent = hc + bp
      BY <1>2
    <2>3. hl <= hc /\ hc <= hh /\ bl <= bp /\ bp <= bh
      BY <1>3, <1>4
    <2> HIDE DEF n, spent, hl, hc, hh, bl, bp, bh
    <2> QED BY <2>1, <2>2, <2>3
  <1> HIDE DEF n, spent
  <1>6. a \in Nat /\ (2 * n) * a <= 2 * spent + n /\ 2 * spent + n < (2 * n) * a + 2 * n
    <2>1. 2 * spent + n \in Nat /\ 2 * n \in Nat \ {0}
      BY <1>1
    <2> QED BY <2>1, QuotientBounds
  <1> HIDE DEF a
  <1>7. lo <= a
    <2> SUFFICES ASSUME a + 1 <= lo PROVE FALSE
      BY <1>6
    <2>1. n * (a + 1) <= n * lo
      BY <1>1, <1>6, ProductMonotone
    <2>2. n * (a + 1) = n * a + n /\ (2 * n) * a = 2 * (n * a) /\ n * a \in Nat /\ n * lo \in Nat
      BY <1>1, <1>6, Z3
    <2> QED BY <1>1, <1>5, <1>6, <2>1, <2>2
  <1>8. a <= hi
    <2> SUFFICES ASSUME hi + 1 <= a PROVE FALSE
      BY <1>6
    <2>1. n * (hi + 1) <= n * a
      BY <1>1, <1>6, ProductMonotone
    <2>2. /\ n * (hi + 1) = n * hi + n /\ (2 * n) * a = 2 * (n * a)
          /\ n * a \in Nat /\ n * hi \in Nat
      BY <1>1, <1>6, Z3
    <2> QED BY <1>1, <1>5, <1>6, <2>1, <2>2
  <1> QED BY <1>7, <1>8 DEF a, n, spent, AverageCost

-----------------------------------------------------------------------------
(* The inductive invariant.                                                *)

(* A row has a positive quantity, and a price just if it is a limit order. *)
RowsPriced ==
    \A o \in DOMAIN orders :
        /\ orders[o].quantity > 0
        /\ IF IsLimit(orders[o]) THEN orders[o].price > 0 ELSE orders[o].price = NoPrice

(* A trade links a buy row to a sell row, and one of the two is closed: it *)
(* can never settle again.                                                 *)
TradesLinked ==
    \A n \in DOMAIN trades :
        LET t == trades[n] IN
        /\ t.buy \in DOMAIN orders /\ t.sell \in DOMAIN orders
        /\ orders[t.buy].side = "buy" /\ orders[t.sell].side = "sell"
        /\ ~(orders[t.buy].status \in OpenStatuses /\ orders[t.sell].status \in OpenStatuses)

LedgerInv ==
    /\ LedgerTypeOK
    /\ NoOverdraft
    /\ StatusAgreesWithFill
    /\ RowsPriced
    /\ TradesLinked
    /\ LimitsRespected
    /\ NoWashTrade
    /\ PairTradesOnce

LEMMA InitInv == LedgerInit => LedgerInv
  BY EndowmentAssumption
     DEF LedgerInit, LedgerInv, LedgerTypeOK, NoOverdraft, StatusAgreesWithFill, RowsPriced,
         TradesLinked, LimitsRespected, NoWashTrade, PairTradesOnce, Trade

-----------------------------------------------------------------------------
(* What a settlement finds.                                                *)

LEMMA SettleableFacts ==
    ASSUME LedgerInv, NEW i \in OrderIds, NEW r \in OrderIds, Settleable(i, r)
    PROVE  LET b == BuyId(i, r)  s == SellId(i, r) IN
           /\ i \in DOMAIN orders /\ r \in DOMAIN orders
           /\ orders[i] \in OrderRow /\ orders[r] \in OrderRow
           /\ b # s /\ {b, s} = {i, r}
           /\ orders[b].side = "buy" /\ orders[s].side = "sell"
           /\ orders[b].user # orders[s].user
           /\ orders[b].symbol = orders[r].symbol /\ orders[s].symbol = orders[r].symbol
           /\ orders[r].price \in Nat \ {0}
           /\ IsOpen(orders[b]) /\ IsOpen(orders[s])
           /\ IsLimit(orders[b]) => orders[r].price <= orders[b].price
           /\ IsLimit(orders[s]) => orders[r].price >= orders[s].price
  <1>1. /\ i \in DOMAIN orders /\ r \in DOMAIN orders
        /\ orders[i] \in OrderRow /\ orders[r] \in OrderRow
    BY DEF LedgerInv, LedgerTypeOK, Settleable
  <1>2. orders[i].side \in {"buy", "sell"} /\ orders[r].side \in {"buy", "sell"}
    BY <1>1 DEF OrderRow, Sides
  <1>3. CASE orders[i].side = "buy"
    BY <1>1, <1>2, <1>3
       DEF Settleable, CanMatch, BuyId, SellId, IsLimit, NoPrice, OrderRow, OrderTypes
  <1>4. CASE orders[i].side = "sell"
    BY <1>1, <1>2, <1>4
       DEF Settleable, CanMatch, BuyId, SellId, IsLimit, NoPrice, OrderRow, OrderTypes
  <1> QED BY <1>2, <1>3, <1>4

(* How much a settlement executes: no more than either order lacks, the    *)
(* seller has or the buyer can pay for.                                    *)
LEMMA QuantityFacts ==
    ASSUME LedgerInv, NEW i \in OrderIds, NEW r \in OrderIds, Settleable(i, r)
    PROVE  LET b == orders[BuyId(i, r)]  s == orders[SellId(i, r)]
               q == SettleQuantity(i, r)  p == orders[r].price
           IN  /\ q \in Nat
               /\ b.filled + q <= b.quantity /\ s.filled + q <= s.quantity
               /\ q <= shares[<<s.user, s.symbol>>]
               /\ q * p <= balance[b.user]
               /\ q \in {b.quantity - b.filled, s.quantity - s.filled,
                        SellerHas(i, r), BuyerAffords(i, r)}
               /\ SellerHas(i, r) \in Nat /\ BuyerAffords(i, r) \in Nat
               /\ PairWants(i, r) \in Nat /\ q <= PairWants(i, r)
               /\ PairWants(i, r) \in {b.quantity - b.filled, s.quantity - s.filled}
  <1> DEFINE b == orders[BuyId(i, r)]
             s == orders[SellId(i, r)]
             p == orders[r].price
             q == SettleQuantity(i, r)
             has == SellerHas(i, r)
             pays == BuyerAffords(i, r)
             wants == PairWants(i, r)
  <1>1. b \in OrderRow /\ s \in OrderRow /\ p \in Nat \ {0} /\ IsOpen(b) /\ IsOpen(s)
    BY SettleableFacts DEF BuyId, SellId
  <1>2. balance[b.user] \in Nat /\ shares[<<s.user, s.symbol>>] \in Nat
    BY <1>1 DEF LedgerInv, LedgerTypeOK, NoOverdraft, OrderRow
  <1>3. has \in Nat /\ has = shares[<<s.user, s.symbol>>]
    BY <1>2 DEF SellerHas
  <1>4. pays \in Nat /\ pays = Affordable(balance[b.user], p)
    BY <1>1, <1>2, AffordableNat DEF BuyerAffords
  <1>5. /\ wants \in Nat
        /\ wants <= b.quantity - b.filled /\ wants <= s.quantity - s.filled
        /\ wants \in {b.quantity - b.filled, s.quantity - s.filled}
    BY <1>1 DEF PairWants, Requested, Least, Remaining, IsOpen, OrderRow
  <1>6. q = Least(Least(wants, has), pays)
    BY DEF SettleQuantity, FillQuantity, PairWants
  <1>7. q \in Nat /\ q <= wants /\ q <= has /\ q <= pays /\ q \in {wants, has, pays}
    <2> HIDE DEF wants, has, pays, q
    <2> QED BY <1>3, <1>4, <1>5, <1>6 DEF Least
  <1>8. q * p <= balance[b.user]
    <2> HIDE DEF b, p, q
    <2> QED BY <1>1, <1>2, <1>4, <1>7, AffordableIsPayable
  <1>9. b.filled + q <= b.quantity /\ s.filled + q <= s.quantity
    <2> b.filled \in Nat /\ b.quantity \in Nat /\ s.filled \in Nat /\ s.quantity \in Nat
      BY <1>1 DEF OrderRow
    <2> HIDE DEF b, s, wants, q
    <2> QED BY <1>5, <1>7
  <1>10. q \in {b.quantity - b.filled, s.quantity - s.filled, has, pays}
    BY <1>5, <1>7
  <1> QED BY <1>3, <1>4, <1>5, <1>7, <1>8, <1>9, <1>10
-----------------------------------------------------------------------------
(* Every action preserves the invariant.                                   *)

LEMMA CancelledRow ==
    ASSUME NEW row \in OrderRow
    PROVE  /\ Cancelled(row) \in OrderRow
           /\ Cancelled(row).user = row.user /\ Cancelled(row).symbol = row.symbol
           /\ Cancelled(row).type = row.type /\ Cancelled(row).side = row.side
           /\ Cancelled(row).price = row.price /\ Cancelled(row).quantity = row.quantity
           /\ Cancelled(row).filled = row.filled /\ Cancelled(row).status = "cancelled"
  BY DEF Cancelled, OrderRow, Statuses

(* Executing nothing and cancelling the remainder is cancelling.           *)
LEMMA EmptyFillCancels ==
    ASSUME NEW row \in OrderRow, IsOpen(row)
    PROVE  AfterFill(row, 0, TRUE) = Cancelled(row)
  <1>1. row.filled \in Nat /\ row.quantity \in Nat /\ row.filled < row.quantity
    BY DEF IsOpen, Remaining, OrderRow
  <1>2. StatusAfterFill(row, 0, TRUE) = "cancelled"
    BY <1>1 DEF StatusAfterFill
  <1>3. AfterFill(row, 0, TRUE) = [row EXCEPT !.filled = row.filled, !.status = "cancelled"]
    <2>1. row.filled + 0 = row.filled
      BY <1>1
    <2> QED BY <1>2, <2>1, Zenon DEF AfterFill
  <1>4. [row EXCEPT !.filled = row.filled, !.status = "cancelled"] = [row EXCEPT !.status = "cancelled"]
    BY DEF OrderRow
  <1> QED BY <1>3, <1>4 DEF Cancelled

LEMMA InsertInv ==
    ASSUME LedgerInv, NEW o \in OrderIds, NEW row \in OrderRow, InsertRow(o, row),
           row.quantity > 0, row.filled = 0, row.status = "open",
           IF IsLimit(row) THEN row.price > 0 ELSE row.price = NoPrice
    PROVE  LedgerInv'
  <1>1. /\ DOMAIN orders' = DOMAIN orders \cup {o}
        /\ o \notin DOMAIN orders
        /\ orders'[o] = row
        /\ \A x \in DOMAIN orders : orders'[x] = orders[x]
        /\ orders' = [x \in DOMAIN orders' |-> orders'[x]]
        /\ issued' = issued \cup {o}
        /\ UNCHANGED <<balance, shares, avgCost, trades>>
    BY DEF InsertRow, LedgerInv, LedgerTypeOK
  <1>2. LedgerTypeOK'
    <2>1. \A x \in DOMAIN orders : orders[x] \in OrderRow
      BY DEF LedgerInv, LedgerTypeOK
    <2>2. orders' \in [DOMAIN orders' -> OrderRow]
      BY <1>1, <2>1
    <2> QED BY <1>1, <2>2 DEF LedgerInv, LedgerTypeOK
  <1>3. NoOverdraft'
    BY <1>1 DEF LedgerInv, NoOverdraft
  <1>4. StatusAgreesWithFill'
    BY <1>1 DEF LedgerInv, StatusAgreesWithFill, OrderRow
  <1>5. RowsPriced'
    BY <1>1 DEF LedgerInv, RowsPriced
  <1>6. TradesLinked'
    BY <1>1 DEF LedgerInv, TradesLinked
  <1>7. LimitsRespected'
    BY <1>1 DEF LedgerInv, LimitsRespected
  <1>8. NoWashTrade'
    BY <1>1 DEF LedgerInv, NoWashTrade, TradesLinked
  <1>9. PairTradesOnce'
    BY <1>1 DEF LedgerInv, PairTradesOnce
  <1> QED BY <1>2, <1>3, <1>4, <1>5, <1>6, <1>7, <1>8, <1>9 DEF LedgerInv

(* Whatever cancels open orders, one or many, and writes nothing else.     *)
LEMMA CancellingInv ==
    ASSUME LedgerInv,
           orders' = [x \in DOMAIN orders |-> orders'[x]],
           \A x \in DOMAIN orders :
              \/ orders'[x] = orders[x]
              \/ orders[x].status \in OpenStatuses /\ orders'[x] = Cancelled(orders[x]),
           UNCHANGED <<issued, balance, shares, avgCost, trades>>
    PROVE  LedgerInv'
  <1>1. \A x \in DOMAIN orders :
           /\ orders[x] \in OrderRow
           /\ orders'[x] \in OrderRow
           /\ orders'[x].user = orders[x].user
           /\ orders'[x].type = orders[x].type
           /\ orders'[x].side = orders[x].side
           /\ orders'[x].price = orders[x].price
           /\ orders'[x].quantity = orders[x].quantity
           /\ orders'[x].filled = orders[x].filled
           /\ \/ orders'[x].status = orders[x].status
              \/ orders[x].status \in OpenStatuses /\ orders'[x].status = "cancelled"
    <2> TAKE x \in DOMAIN orders
    <2>1. orders[x] \in OrderRow
      BY DEF LedgerInv, LedgerTypeOK
    <2>2. CASE orders'[x] = orders[x]
      BY <2>1, <2>2
    <2>3. CASE orders[x].status \in OpenStatuses /\ orders'[x] = Cancelled(orders[x])
      BY <2>1, <2>3, CancelledRow
    <2> QED BY <2>2, <2>3
  <1>2. DOMAIN orders' = DOMAIN orders
    OBVIOUS
  <1>3. LedgerTypeOK'
    BY <1>1, <1>2 DEF LedgerInv, LedgerTypeOK
  <1>4. NoOverdraft'
    BY DEF LedgerInv, NoOverdraft
  <1>5. StatusAgreesWithFill'
    BY <1>1, <1>2 DEF LedgerInv, StatusAgreesWithFill, OpenStatuses
  <1>6. RowsPriced'
    BY <1>1, <1>2 DEF LedgerInv, RowsPriced, IsLimit
  <1>7. TradesLinked'
    BY <1>1, <1>2 DEF LedgerInv, TradesLinked, OpenStatuses
  <1>8. LimitsRespected'
    BY <1>1, <1>2 DEF LedgerInv, LimitsRespected, IsLimit
  <1>9. NoWashTrade'
    BY <1>1, <1>2 DEF LedgerInv, NoWashTrade, TradesLinked
  <1>10. PairTradesOnce'
    BY DEF LedgerInv, PairTradesOnce
  <1> QED BY <1>3, <1>4, <1>5, <1>6, <1>7, <1>8, <1>9, <1>10 DEF LedgerInv

LEMMA UnfillableInv ==
    ASSUME LedgerInv, NEW i \in OrderIds, NEW r \in OrderIds, SettleUnfillable(i, r)
    PROVE  LedgerInv'
  <1> DEFINE blamed == IF SellerHas(i, r) <= 0 THEN SellId(i, r) ELSE BuyId(i, r)
  <1>1. Settleable(i, r)
    BY DEF SettleUnfillable
  <1>2. blamed \in DOMAIN orders /\ orders[blamed] \in OrderRow /\ IsOpen(orders[blamed])
    BY <1>1, SettleableFacts
  <1>3. AfterFill(orders[blamed], 0, TRUE) = Cancelled(orders[blamed])
    BY <1>2, EmptyFillCancels
  <1>4. orders' = [orders EXCEPT ![blamed] = AfterFill(@, 0, TRUE)]
    BY DEF SettleUnfillable
  <1>5. orders[blamed].status \in OpenStatuses
    BY <1>2 DEF IsOpen
  <1> HIDE DEF blamed
  <1>6. orders = [x \in DOMAIN orders |-> orders[x]]
    BY DEF LedgerInv, LedgerTypeOK
  <1>7. orders' = [x \in DOMAIN orders |-> orders'[x]]
    BY <1>2, <1>4, <1>6
  <1>8. \A x \in DOMAIN orders :
           \/ orders'[x] = orders[x]
           \/ orders[x].status \in OpenStatuses /\ orders'[x] = Cancelled(orders[x])
    BY <1>2, <1>3, <1>4, <1>5
  <1>9. UNCHANGED <<issued, balance, shares, avgCost, trades>>
    BY DEF SettleUnfillable
  <1> QED BY <1>7, <1>8, <1>9, CancellingInv

LEMMA CancelInv ==
    ASSUME LedgerInv, NEW o \in OrderIds, CancelOpen(o)
    PROVE  LedgerInv'
  <1>1. orders' = [x \in DOMAIN orders |-> orders'[x]]
    BY DEF CancelOpen, LedgerInv, LedgerTypeOK
  <1>2. \A x \in DOMAIN orders :
           \/ orders'[x] = orders[x]
           \/ orders[x].status \in OpenStatuses /\ orders'[x] = Cancelled(orders[x])
    BY DEF CancelOpen, HasOpenStatus
  <1>3. UNCHANGED <<issued, balance, shares, avgCost, trades>>
    BY DEF CancelOpen
  <1> QED BY <1>1, <1>2, <1>3, CancellingInv

LEMMA MarketCloseInv == LedgerInv /\ MarketClose => LedgerInv'
  <1> SUFFICES ASSUME LedgerInv, MarketClose PROVE LedgerInv'
    OBVIOUS
  <1>1. orders' = [x \in DOMAIN orders |-> orders'[x]]
    BY DEF MarketClose
  <1>2. \A x \in DOMAIN orders :
           \/ orders'[x] = orders[x]
           \/ orders[x].status \in OpenStatuses /\ orders'[x] = Cancelled(orders[x])
    BY DEF MarketClose, HasOpenStatus
  <1>3. UNCHANGED <<issued, balance, shares, avgCost, trades>>
    BY DEF MarketClose
  <1> QED BY <1>1, <1>2, <1>3, CancellingInv

LEMMA DeleteInv ==
    ASSUME LedgerInv, NEW o \in OrderIds, DeleteOrder(o)
    PROVE  LedgerInv'
  <1>1. /\ DOMAIN orders' = DOMAIN orders \ {o}
        /\ \A x \in DOMAIN orders' : orders'[x] = orders[x]
        /\ orders' = [x \in DOMAIN orders' |-> orders'[x]]
        /\ \A n \in DOMAIN trades : trades[n].buy # o /\ trades[n].sell # o
        /\ UNCHANGED <<issued, balance, shares, avgCost, trades>>
    BY DEF DeleteOrder
  <1>2. LedgerTypeOK'
    <2>1. orders' \in [DOMAIN orders' -> OrderRow]
      BY <1>1 DEF LedgerInv, LedgerTypeOK
    <2> QED BY <1>1, <2>1 DEF LedgerInv, LedgerTypeOK
  <1>3. NoOverdraft' /\ PairTradesOnce'
    BY <1>1 DEF LedgerInv, NoOverdraft, PairTradesOnce
  <1>4. StatusAgreesWithFill' /\ RowsPriced'
    BY <1>1 DEF LedgerInv, StatusAgreesWithFill, RowsPriced
  <1>5. TradesLinked'
    BY <1>1 DEF LedgerInv, TradesLinked
  <1>6. LimitsRespected' /\ NoWashTrade'
    BY <1>1 DEF LedgerInv, LimitsRespected, NoWashTrade, TradesLinked
  <1> QED BY <1>2, <1>3, <1>4, <1>5, <1>6 DEF LedgerInv
-----------------------------------------------------------------------------
(* A trade.                                                                *)

LEMMA FilledRow ==
    ASSUME NEW row \in OrderRow, NEW q \in Nat \ {0}, NEW c \in BOOLEAN,
           row.filled + q <= row.quantity
    PROVE  LET new == AfterFill(row, q, c) IN
           /\ new \in OrderRow
           /\ new.user = row.user /\ new.symbol = row.symbol
           /\ new.type = row.type /\ new.side = row.side
           /\ new.price = row.price /\ new.quantity = row.quantity
           /\ new.filled = row.filled + q
           /\ new.status = StatusAfterFill(row, q, c)
           /\ new.status = "filled" <=> new.filled = new.quantity
           /\ new.status # "open"
           /\ c \/ row.filled + q = row.quantity => new.status \notin OpenStatuses
  <1>1. row.filled \in Nat /\ row.quantity \in Nat
    BY DEF OrderRow
  <1>2. row.filled + q \in Nat
    BY <1>1
  <1>3. StatusAfterFill(row, q, c) \in Statuses
    BY DEF StatusAfterFill, Statuses, OpenStatuses
  <1> DEFINE new == AfterFill(row, q, c)
  <1>4. /\ new \in OrderRow
        /\ new.user = row.user /\ new.symbol = row.symbol
        /\ new.type = row.type /\ new.side = row.side
        /\ new.price = row.price /\ new.quantity = row.quantity
        /\ new.filled = row.filled + q
        /\ new.status = StatusAfterFill(row, q, c)
    BY <1>2, <1>3 DEF AfterFill, OrderRow
  <1>5. /\ StatusAfterFill(row, q, c) = "filled" <=> row.filled + q = row.quantity
        /\ StatusAfterFill(row, q, c) # "open"
        /\ c \/ row.filled + q = row.quantity =>
              StatusAfterFill(row, q, c) \notin OpenStatuses
    BY <1>1, <1>2 DEF StatusAfterFill, OpenStatuses
  <1> HIDE DEF new
  <1> QED BY <1>4, <1>5 DEF new

(* The effect of a trade on the tables, and that it closes one side.       *)
LEMMA TradeFacts ==
    ASSUME LedgerInv, NEW i \in OrderIds, NEW r \in OrderIds, SettleTrade(i, r)
    PROVE  LET b == BuyId(i, r)  s == SellId(i, r)
               q == SettleQuantity(i, r)  p == orders[r].price
           IN  /\ DOMAIN orders' = DOMAIN orders
               /\ orders' = [x \in DOMAIN orders |-> orders'[x]]
               /\ \A x \in DOMAIN orders \ {b, s} : orders'[x] = orders[x]
               /\ \A x \in {b, s} :
                     /\ orders'[x] \in OrderRow
                     /\ orders'[x].user = orders[x].user
                     /\ orders'[x].symbol = orders[x].symbol
                     /\ orders'[x].type = orders[x].type
                     /\ orders'[x].side = orders[x].side
                     /\ orders'[x].price = orders[x].price
                     /\ orders'[x].quantity = orders[x].quantity
                     /\ orders'[x].filled = orders[x].filled + q
                     /\ orders'[x].filled <= orders'[x].quantity
                     /\ orders'[x].status = "filled" <=> orders'[x].filled = orders'[x].quantity
                     /\ orders'[x].status # "open"
               /\ ~(orders'[b].status \in OpenStatuses /\ orders'[s].status \in OpenStatuses)
               /\ q \in Nat \ {0}
  <1> DEFINE b == BuyId(i, r)
             s == SellId(i, r)
             q == SettleQuantity(i, r)
             cb == CancelRest(i, r, BuyerAffords(i, r))
             cs == CancelRest(i, r, SellerHas(i, r))
  <1>1. Settleable(i, r) /\ q > 0
    BY DEF SettleTrade
  <1>2. orders' = [orders EXCEPT ![b] = AfterFill(@, q, cb), ![s] = AfterFill(@, q, cs)]
    BY DEF SettleTrade
  <1>3. /\ b \in DOMAIN orders /\ s \in DOMAIN orders /\ b # s
        /\ orders[b] \in OrderRow /\ orders[s] \in OrderRow
    BY <1>1, SettleableFacts
  <1>4. /\ q \in Nat \ {0}
        /\ orders[b].filled + q <= orders[b].quantity
        /\ orders[s].filled + q <= orders[s].quantity
    <2>1. /\ q \in Nat
          /\ orders[b].filled + q <= orders[b].quantity
          /\ orders[s].filled + q <= orders[s].quantity
      BY <1>1, QuantityFacts, Zenon
    <2> HIDE DEF b, s, q
    <2> QED BY <1>1, <2>1
  <1>5. cb \in BOOLEAN /\ cs \in BOOLEAN
    BY DEF CancelRest
  <1>6. \/ cb \/ orders[b].filled + q = orders[b].quantity
        \/ cs \/ orders[s].filled + q = orders[s].quantity
    <2> DEFINE has == SellerHas(i, r)
               pays == BuyerAffords(i, r)
               wants == PairWants(i, r)
               rb == orders[b].quantity - orders[b].filled
               rs == orders[s].quantity - orders[s].filled
    <2>1. /\ q \in {rb, rs, has, pays} /\ wants \in {rb, rs}
          /\ has \in Nat /\ pays \in Nat /\ wants \in Nat /\ q <= wants
      BY <1>1, QuantityFacts
    <2>2. cb = (q < wants /\ pays <= q) /\ cs = (q < wants /\ has <= q)
      BY DEF CancelRest
    <2>3. orders[b].filled \in Nat /\ orders[b].quantity \in Nat
          /\ orders[s].filled \in Nat /\ orders[s].quantity \in Nat
      BY <1>3 DEF OrderRow
    <2>4. q = rb => orders[b].filled + q = orders[b].quantity
      <3> HIDE DEF b, q
      <3> QED BY <1>4, <2>3
    <2>5. q = rs => orders[s].filled + q = orders[s].quantity
      <3> HIDE DEF s, q
      <3> QED BY <1>4, <2>3
    <2>6. q = rb \/ q = rs \/ (q < wants /\ (pays <= q \/ has <= q))
      <3> HIDE DEF q, has, pays, wants, rb, rs
      <3> QED BY <1>4, <2>1
    <2> QED BY <2>2, <2>4, <2>5, <2>6
  <1> HIDE DEF b, s, q, cb, cs
  <1>7. orders = [x \in DOMAIN orders |-> orders[x]]
    BY DEF LedgerInv, LedgerTypeOK
  <1>8. /\ DOMAIN orders' = DOMAIN orders
        /\ orders' = [x \in DOMAIN orders |-> orders'[x]]
        /\ \A x \in DOMAIN orders \ {b, s} : orders'[x] = orders[x]
        /\ orders'[b] = AfterFill(orders[b], q, cb)
        /\ orders'[s] = AfterFill(orders[s], q, cs)
    BY <1>2, <1>3, <1>7
  <1>9. /\ orders'[b] \in OrderRow /\ orders'[b].user = orders[b].user
        /\ orders'[b].symbol = orders[b].symbol
        /\ orders'[b].type = orders[b].type /\ orders'[b].side = orders[b].side
        /\ orders'[b].price = orders[b].price /\ orders'[b].quantity = orders[b].quantity
        /\ orders'[b].filled = orders[b].filled + q
        /\ orders'[b].filled <= orders'[b].quantity
        /\ orders'[b].status = "filled" <=> orders'[b].filled = orders'[b].quantity
        /\ orders'[b].status # "open"
        /\ cb \/ orders[b].filled + q = orders[b].quantity =>
              orders'[b].status \notin OpenStatuses
    BY <1>3, <1>4, <1>5, <1>8, FilledRow
  <1>10. /\ orders'[s] \in OrderRow /\ orders'[s].user = orders[s].user
         /\ orders'[s].symbol = orders[s].symbol
         /\ orders'[s].type = orders[s].type /\ orders'[s].side = orders[s].side
         /\ orders'[s].price = orders[s].price /\ orders'[s].quantity = orders[s].quantity
         /\ orders'[s].filled = orders[s].filled + q
         /\ orders'[s].filled <= orders'[s].quantity
         /\ orders'[s].status = "filled" <=> orders'[s].filled = orders'[s].quantity
         /\ orders'[s].status # "open"
         /\ cs \/ orders[s].filled + q = orders[s].quantity =>
               orders'[s].status \notin OpenStatuses
    BY <1>3, <1>4, <1>5, <1>8, FilledRow
  <1> QED BY <1>4, <1>6, <1>8, <1>9, <1>10 DEF b, s, q
(* The trade that is recorded, and how the record grows.                   *)
LEMMA RecordFacts ==
    ASSUME LedgerInv, NEW i \in OrderIds, NEW r \in OrderIds, SettleTrade(i, r)
    PROVE  LET t == [buy |-> BuyId(i, r), sell |-> SellId(i, r),
                     price |-> orders[r].price, quantity |-> SettleQuantity(i, r)]
           IN  /\ t \in Trade
               /\ trades' \in Seq(Trade)
               /\ DOMAIN trades = 1 .. Len(trades) /\ Len(trades) \in Nat
               /\ DOMAIN trades' = 1 .. Len(trades) + 1
               /\ \A n \in DOMAIN trades : trades'[n] = trades[n]
               /\ trades'[Len(trades) + 1] = t
  <1> DEFINE t == [buy |-> BuyId(i, r), sell |-> SellId(i, r),
                   price |-> orders[r].price, quantity |-> SettleQuantity(i, r)]
  <1>1. trades \in Seq(Trade) /\ trades' = Append(trades, t)
    BY DEF LedgerInv, LedgerTypeOK, SettleTrade
  <1>2. t \in Trade
    <2>1. Settleable(i, r)
      BY DEF SettleTrade
    <2>2. BuyId(i, r) \in OrderIds /\ SellId(i, r) \in OrderIds
      BY DEF BuyId, SellId
    <2>3. orders[r].price \in Nat
      BY <2>1, SettleableFacts
    <2>4. SettleQuantity(i, r) \in Nat
      BY <2>1, QuantityFacts
    <2> QED BY <2>2, <2>3, <2>4 DEF Trade
  <1> HIDE DEF t
  <1>3. /\ trades' \in Seq(Trade)
        /\ DOMAIN trades = 1 .. Len(trades) /\ Len(trades) \in Nat
        /\ DOMAIN trades' = 1 .. Len(trades) + 1
        /\ \A n \in DOMAIN trades : trades'[n] = trades[n]
        /\ trades'[Len(trades) + 1] = t
    BY <1>1, <1>2
  <1> QED BY <1>2, <1>3 DEF t

LEMMA TradeInv ==
    ASSUME LedgerInv, NEW i \in OrderIds, NEW r \in OrderIds, SettleTrade(i, r)
    PROVE  LedgerInv'
  <1> DEFINE b == BuyId(i, r)
             s == SellId(i, r)
             q == SettleQuantity(i, r)
             p == orders[r].price
             sym == orders[r].symbol
             buyer == orders[b].user
             seller == orders[s].user
             last == Len(trades) + 1
  <1>1. Settleable(i, r) /\ q > 0
    BY DEF SettleTrade
  <1>2. /\ b \in DOMAIN orders /\ s \in DOMAIN orders /\ b # s
        /\ orders[b] \in OrderRow /\ orders[s] \in OrderRow /\ orders[r] \in OrderRow
        /\ orders[b].side = "buy" /\ orders[s].side = "sell"
        /\ buyer # seller
        /\ orders[b].symbol = sym /\ orders[s].symbol = sym
        /\ p \in Nat \ {0}
        /\ IsOpen(orders[b]) /\ IsOpen(orders[s])
        /\ IsLimit(orders[b]) => p <= orders[b].price
        /\ IsLimit(orders[s]) => p >= orders[s].price
    BY <1>1, SettleableFacts
  <1>3. q \in Nat \ {0} /\ q <= shares[<<seller, sym>>] /\ q * p <= balance[buyer]
    <2>1. /\ q \in Nat /\ q * p <= balance[buyer]
          /\ q <= shares[<<seller, orders[s].symbol>>]
      BY <1>1, QuantityFacts, Zenon
    <2> HIDE DEF b, s, q, p, buyer, seller, sym
    <2> QED BY <1>1, <1>2, <2>1
  <1>4. /\ issued' = issued
        /\ balance' = MoveCash(buyer, seller, q * p)
        /\ shares' = [shares EXCEPT ![<<buyer, sym>>] = @ + q, ![<<seller, sym>>] = @ - q]
        /\ avgCost' = [avgCost EXCEPT
               ![<<buyer, sym>>] = AverageCost(shares[<<buyer, sym>>], @, q, p),
               ![<<seller, sym>>] = IF shares[<<seller, sym>>] = q THEN 0 ELSE @]
    BY DEF SettleTrade
  <1>5. /\ DOMAIN orders' = DOMAIN orders
        /\ orders' = [x \in DOMAIN orders |-> orders'[x]]
        /\ \A x \in DOMAIN orders \ {b, s} : orders'[x] = orders[x]
        /\ \A x \in {b, s} :
              /\ orders'[x] \in OrderRow
              /\ orders'[x].user = orders[x].user
              /\ orders'[x].symbol = orders[x].symbol
              /\ orders'[x].type = orders[x].type
              /\ orders'[x].side = orders[x].side
              /\ orders'[x].price = orders[x].price
              /\ orders'[x].quantity = orders[x].quantity
              /\ orders'[x].filled = orders[x].filled + q
              /\ orders'[x].filled <= orders'[x].quantity
              /\ orders'[x].status = "filled" <=> orders'[x].filled = orders'[x].quantity
              /\ orders'[x].status # "open"
        /\ ~(orders'[b].status \in OpenStatuses /\ orders'[s].status \in OpenStatuses)
    BY TradeFacts, Zenon
  <1>6. /\ trades' \in Seq(Trade)
        /\ DOMAIN trades = 1 .. Len(trades) /\ Len(trades) \in Nat
        /\ DOMAIN trades' = 1 .. last
        /\ \A n \in DOMAIN trades : trades'[n] = trades[n]
        /\ trades'[last] = [buy |-> b, sell |-> s, price |-> p, quantity |-> q]
    BY RecordFacts, Zenon
  <1>7. /\ buyer \in Users /\ seller \in Users /\ sym \in Symbols
        /\ balance \in [Users -> Int] /\ shares \in [Users \X Symbols -> Int]
        /\ avgCost \in [Users \X Symbols -> Nat]
    BY <1>2 DEF LedgerInv, LedgerTypeOK, OrderRow
  <1>8. /\ DOMAIN orders \subseteq issued /\ issued \subseteq OrderIds
        /\ \A x \in DOMAIN orders : orders[x] \in OrderRow
    BY DEF LedgerInv, LedgerTypeOK
  <1> HIDE DEF b, s, q, p, buyer, seller, sym, last
  <1>9. LedgerTypeOK'
    <2>1. balance' \in [Users -> Int]
      <3>1. q * p \in Int
        BY <1>2, <1>3, ProductNat
      <3> QED BY <1>4, <1>7, <3>1 DEF MoveCash
    <2>2. shares' \in [Users \X Symbols -> Int]
      BY <1>3, <1>4, <1>7
    <2>3. avgCost' \in [Users \X Symbols -> Nat]
      <3>1. shares[<<buyer, sym>>] \in Nat /\ avgCost[<<buyer, sym>>] \in Nat
        BY <1>7 DEF LedgerInv, NoOverdraft
      <3>2. AverageCost(shares[<<buyer, sym>>], avgCost[<<buyer, sym>>], q, p) \in Nat
        BY <1>2, <1>3, <3>1, AverageCostNat
      <3> DEFINE cost == AverageCost(shares[<<buyer, sym>>], avgCost[<<buyer, sym>>], q, p)
      <3>3. avgCost' = [avgCost EXCEPT
               ![<<buyer, sym>>] = cost,
               ![<<seller, sym>>] = IF shares[<<seller, sym>>] = q THEN 0 ELSE @]
        BY <1>4
      <3> HIDE DEF cost
      <3>4. cost \in Nat
        BY <3>2 DEF cost
      <3> QED BY <1>7, <3>3, <3>4
    <2>4. orders' \in [DOMAIN orders' -> OrderRow]
      <3>1. \A x \in DOMAIN orders : orders'[x] \in OrderRow
        BY <1>5, <1>8
      <3> QED BY <1>5, <3>1
    <2> QED BY <1>4, <1>5, <1>6, <1>8, <2>1, <2>2, <2>3, <2>4 DEF LedgerTypeOK
  <1>10. NoOverdraft'
    <2>1. ASSUME NEW u \in Users PROVE balance'[u] >= 0
      <3> DEFINE cash == q * p
      <3>1. cash \in Nat /\ cash <= balance[buyer]
        BY <1>2, <1>3, ProductNat
      <3>2. balance' = [balance EXCEPT ![buyer] = @ - cash, ![seller] = @ + cash]
        BY <1>4 DEF MoveCash
      <3> HIDE DEF cash
      <3>3. balance[u] >= 0
        BY DEF LedgerInv, NoOverdraft
      <3> QED BY <1>2, <1>7, <3>1, <3>2, <3>3
    <2>2. ASSUME NEW h \in Users \X Symbols PROVE shares'[h] >= 0
      <3>1. shares[h] >= 0
        BY DEF LedgerInv, NoOverdraft
      <3> QED BY <1>2, <1>3, <1>4, <1>7, <3>1
    <2> QED BY <2>1, <2>2 DEF NoOverdraft
  <1>11. StatusAgreesWithFill'
    <2> SUFFICES ASSUME NEW o \in DOMAIN orders'
                 PROVE  LET row == orders'[o] IN
                        /\ 0 <= row.filled /\ row.filled <= row.quantity
                        /\ row.status = "filled" <=> row.filled = row.quantity
                        /\ row.status = "partially_filled" => row.filled > 0
                        /\ row.status = "open" => row.filled = 0
      BY DEF StatusAgreesWithFill
    <2>1. CASE o \in {b, s}
      <3>1. orders[o].filled \in Nat
        BY <1>2, <2>1 DEF OrderRow
      <3> QED BY <1>3, <1>5, <2>1, <3>1
    <2>2. CASE o \notin {b, s}
      BY <1>5, <2>2 DEF LedgerInv, StatusAgreesWithFill
    <2> QED BY <2>1, <2>2
  <1>12. RowsPriced'
    BY <1>2, <1>5 DEF LedgerInv, RowsPriced, IsLimit
  <1>13. TradesLinked'
    <2> SUFFICES ASSUME NEW n \in DOMAIN trades'
                 PROVE  LET t == trades'[n] IN
                        /\ t.buy \in DOMAIN orders' /\ t.sell \in DOMAIN orders'
                        /\ orders'[t.buy].side = "buy" /\ orders'[t.sell].side = "sell"
                        /\ ~(orders'[t.buy].status \in OpenStatuses
                              /\ orders'[t.sell].status \in OpenStatuses)
      BY DEF TradesLinked
    <2>1. CASE n = last
      BY <1>2, <1>5, <1>6, <2>1
    <2>2. CASE n # last
      <3>1. n \in DOMAIN trades /\ trades'[n] = trades[n]
        BY <1>6, <2>2 DEF last
      <3> DEFINE t == trades[n]
      <3>2. /\ t.buy \in DOMAIN orders /\ t.sell \in DOMAIN orders
            /\ orders[t.buy].side = "buy" /\ orders[t.sell].side = "sell"
            /\ ~(orders[t.buy].status \in OpenStatuses /\ orders[t.sell].status \in OpenStatuses)
        BY <3>1 DEF LedgerInv, TradesLinked
      <3> HIDE DEF t
      <3>3. orders'[t.buy].side = "buy" /\ orders'[t.sell].side = "sell"
        BY <1>2, <1>5, <3>2
      <3>4. orders[b].status \in OpenStatuses /\ orders[s].status \in OpenStatuses
        BY <1>2 DEF IsOpen
      <3>5. \A x \in DOMAIN orders :
               orders'[x].status \in OpenStatuses => orders[x].status \in OpenStatuses
        BY <1>5, <3>4
      <3> QED BY <1>5, <3>1, <3>2, <3>3, <3>5 DEF t
    <2> QED BY <2>1, <2>2
  <1>14. LimitsRespected'
    <2> SUFFICES ASSUME NEW n \in DOMAIN trades'
                 PROVE  LET t == trades'[n] IN
                        /\ {t.buy, t.sell} \subseteq DOMAIN orders'
                        /\ IsLimit(orders'[t.buy]) => t.price <= orders'[t.buy].price
                        /\ IsLimit(orders'[t.sell]) => t.price >= orders'[t.sell].price
      BY DEF LimitsRespected
    <2>1. CASE n = last
      BY <1>2, <1>5, <1>6, <2>1 DEF IsLimit
    <2>2. CASE n # last
      <3>1. n \in DOMAIN trades /\ trades'[n] = trades[n]
        BY <1>6, <2>2 DEF last
      <3> QED BY <1>5, <3>1 DEF LedgerInv, LimitsRespected, IsLimit
    <2> QED BY <2>1, <2>2
  <1>15. NoWashTrade'
    <2> SUFFICES ASSUME NEW n \in DOMAIN trades'
                 PROVE  orders'[trades'[n].buy].user # orders'[trades'[n].sell].user
      BY DEF NoWashTrade
    <2>1. CASE n = last
      BY <1>2, <1>5, <1>6, <2>1 DEF buyer, seller
    <2>2. CASE n # last
      <3>1. n \in DOMAIN trades /\ trades'[n] = trades[n]
        BY <1>6, <2>2 DEF last
      <3> QED BY <1>5, <3>1 DEF LedgerInv, NoWashTrade, TradesLinked
    <2> QED BY <2>1, <2>2
  <1>16. PairTradesOnce'
    <2>1. ASSUME NEW n \in DOMAIN trades
          PROVE  ~(trades[n].buy = b /\ trades[n].sell = s)
      BY <1>2 DEF LedgerInv, TradesLinked, IsOpen
    <2>2. ASSUME NEW m \in DOMAIN trades', NEW n \in DOMAIN trades',
                 trades'[m].buy = trades'[n].buy, trades'[m].sell = trades'[n].sell
          PROVE  m = n
      <3>1. CASE m # last /\ n # last
        <4>1. m \in DOMAIN trades /\ n \in DOMAIN trades
          BY <1>6, <3>1 DEF last
        <4> QED BY <1>6, <2>2, <4>1 DEF LedgerInv, PairTradesOnce
      <3>2. CASE m = last /\ n # last
        <4>1. n \in DOMAIN trades
          BY <1>6, <3>2 DEF last
        <4> QED BY <1>6, <2>1, <2>2, <3>2, <4>1
      <3>3. CASE m # last /\ n = last
        <4>1. m \in DOMAIN trades
          BY <1>6, <3>3 DEF last
        <4> QED BY <1>6, <2>1, <2>2, <3>3, <4>1
      <3> QED BY <3>1, <3>2, <3>3
    <2> QED BY <2>2 DEF PairTradesOnce
  <1> QED BY <1>9, <1>10, <1>11, <1>12, <1>13, <1>14, <1>15, <1>16 DEF LedgerInv
-----------------------------------------------------------------------------
(* The theorems.                                                           *)

LEMMA SubmitInv ==
    ASSUME LedgerInv, NEW o \in OrderIds, Submit(o)
    PROVE  LedgerInv'
  <1> PICK u \in Users, sym \in Symbols, side \in Sides, q \in Quantities :
        \/ InsertMarket(o, u, sym, side, q)
        \/ \E mills \in PriceMills : InsertLimit(o, u, sym, side, mills, q)
    BY DEF Submit
  <1>1. q \in Nat /\ q > 0
    BY InputAssumption
  <1>2. CASE InsertMarket(o, u, sym, side, q)
    <2> DEFINE row == NewRow(u, sym, "market", side, NoPrice, q)
    <2>1. /\ row \in OrderRow
          /\ row.quantity = q /\ row.filled = 0 /\ row.status = "open"
          /\ row.type = "market" /\ row.price = NoPrice
      BY <1>1 DEF NewRow, OrderRow, OrderTypes, Statuses, OpenStatuses, NoPrice
    <2>2. InsertRow(o, row)
      BY <1>2 DEF InsertMarket
    <2> HIDE DEF row
    <2> QED BY <1>1, <2>1, <2>2, InsertInv DEF IsLimit
  <1>3. ASSUME NEW mills \in PriceMills, InsertLimit(o, u, sym, side, mills, q)
        PROVE  LedgerInv'
    <2> DEFINE price == StoredPrice(mills)
               row == NewRow(u, sym, "limit", side, price, q)
    <2>1. price \in Nat /\ price > 0
      <3>1. mills \in Nat
        BY InputAssumption
      <3>2. (mills + 5) \div 10 \in Nat
        BY <3>1
      <3> QED BY <1>3, <3>2 DEF InsertLimit, StoredPrice
    <2>2. InsertRow(o, row)
      BY <1>3 DEF InsertLimit
    <2> HIDE DEF price
    <2>3. /\ row \in OrderRow
          /\ row.quantity = q /\ row.filled = 0 /\ row.status = "open"
          /\ row.type = "limit" /\ row.price = price
      BY <1>1, <2>1 DEF NewRow, OrderRow, OrderTypes, Statuses, OpenStatuses
    <2> HIDE DEF row
    <2> QED BY <1>1, <2>1, <2>2, <2>3, InsertInv DEF IsLimit
  <1> QED BY <1>2, <1>3

LEMMA NextInv == LedgerInv /\ [LedgerNext]_ledgerVars => LedgerInv'
  <1> SUFFICES ASSUME LedgerInv, [LedgerNext]_ledgerVars PROVE LedgerInv'
    OBVIOUS
  <1>1. ASSUME NEW o \in OrderIds, Submit(o) PROVE LedgerInv'
    BY <1>1, SubmitInv
  <1>2. ASSUME NEW o \in OrderIds, CancelOpen(o) PROVE LedgerInv'
    BY <1>2, CancelInv
  <1>3. ASSUME NEW o \in OrderIds, ExpireLimit(o) PROVE LedgerInv'
    BY <1>3, CancelInv DEF ExpireLimit
  <1>4. ASSUME NEW o \in OrderIds, DeleteOrder(o) PROVE LedgerInv'
    BY <1>4, DeleteInv
  <1>5. ASSUME NEW i \in OrderIds, NEW r \in OrderIds, Settle(i, r) PROVE LedgerInv'
    BY <1>5, TradeInv, UnfillableInv DEF Settle
  <1>6. CASE MarketClose
    BY <1>6, MarketCloseInv
  <1>7. CASE UNCHANGED ledgerVars
    BY <1>7 DEF ledgerVars, LedgerInv, LedgerTypeOK, NoOverdraft, StatusAgreesWithFill,
                RowsPriced, TradesLinked, LimitsRespected, NoWashTrade, PairTradesOnce
  <1> QED BY <1>1, <1>2, <1>3, <1>4, <1>5, <1>6, <1>7 DEF LedgerNext

(* Induction over the subsets of a finite set, stated with the set of      *)
(* those for which the claim holds.                                        *)
LEMMA SubsetInduction ==
    ASSUME NEW S, IsFiniteSet(S), NEW True,
           \A U \in SUBSET S : (\A V \in SUBSET U : V # U => V \in True) => U \in True
    PROVE  \A U \in SUBSET S : U \in True
  <1> DEFINE False == {U \in SUBSET S : U \notin True}
  <1> SUFFICES ASSUME False # {} PROVE FALSE
    OBVIOUS
  <1>1. IsWellFoundedOn(StrictSubsetOrdering(S), SUBSET S)
    <2>1. IsWellFoundedOn(StrictSubsetOrdering(S), FiniteSubsetsOf(S))
      BY FS_StrictSubsetOrderingWellFounded
    <2>2. FiniteSubsetsOf(S) = SUBSET S
      BY FS_FiniteSubsetsOfFinite
    <2> QED BY <2>1, <2>2, Zenon
  <1>2. False \subseteq SUBSET S
    OBVIOUS
  <1> HIDE DEF False
  <1>3. PICK U \in False : \A V \in False : <<V, U>> \notin StrictSubsetOrdering(S)
    BY <1>1, <1>2, WFMin
  <1>4. \A V \in SUBSET U : V # U => V \in True
    BY <1>2, <1>3 DEF StrictSubsetOrdering, False
  <1> QED BY <1>3, <1>4 DEF False

-----------------------------------------------------------------------------
(* Sums over the trades table.                                             *)

(* One element of a set that is not empty, and what SumFunctionOnSet makes *)
(* of the subsets of S: g is the function it iterates.                     *)
One(s) == CHOOSE x \in s : TRUE
Step(f, g, s) == IF s = {} THEN 0 ELSE f[One(s)] + g[s \ {One(s)}]
Sums(f, g, S) == g = [s \in SUBSET S |-> Step(f, g, s)]

LEMMA OneIn == \A s : s # {} => One(s) \in s /\ s \ {One(s)} \subseteq s /\ s \ {One(s)} # s
  BY DEF One

LEMMA SumsApplied ==
    ASSUME NEW f, NEW g, NEW S, Sums(f, g, S), NEW s \in SUBSET S
    PROVE  g[s] = Step(f, g, s)
  BY DEF Sums

LEMMA SumsAgree ==
    ASSUME NEW f, NEW S, NEW T, IsFiniteSet(S), NEW g, NEW h, Sums(f, g, S), Sums(f, h, T)
    PROVE  \A U \in SUBSET S : U \subseteq T => g[U] = h[U]
  <1> DEFINE True == {U \in SUBSET S : U \subseteq T => g[U] = h[U]}
  <1>1. ASSUME NEW U \in SUBSET S, \A V \in SUBSET U : V # U => V \in True PROVE U \in True
    <2> SUFFICES ASSUME U \subseteq T PROVE g[U] = h[U]
      OBVIOUS
    <2>1. g[U] = Step(f, g, U) /\ h[U] = Step(f, h, U)
      BY SumsApplied
    <2>2. CASE U = {}
      BY <2>1, <2>2 DEF Step
    <2>3. CASE U # {}
      <3>1. g[U \ {One(U)}] = h[U \ {One(U)}]
        BY <1>1, <2>3, OneIn
      <3> QED BY <2>1, <2>3, <3>1 DEF Step
    <2> QED BY <2>2, <2>3
  <1> HIDE DEF True
  <1>2. \A U \in SUBSET S : U \in True
    BY <1>1, SubsetInduction
  <1> QED BY <1>2 DEF True

LEMMA SumsExist ==
    ASSUME NEW f, NEW S, IsFiniteSet(S)
    PROVE  \E g : Sums(f, g, S)
  <1> DEFINE True == {U \in SUBSET S : \E g : Sums(f, g, U)}
  <1>1. ASSUME NEW U \in SUBSET S, \A V \in SUBSET U : V # U => V \in True PROVE U \in True
    <2> DEFINE G(V) == CHOOSE g : Sums(f, g, V)
               Rest(s) == s \ {One(s)}
               g == [s \in SUBSET U |-> IF s = {} THEN 0 ELSE f[One(s)] + G(Rest(s))[Rest(s)]]
    <2>1. ASSUME NEW V \in SUBSET U, V # U PROVE Sums(f, G(V), V)
      <3>1. \E h : Sums(f, h, V)
        BY <1>1, <2>1
      <3> QED BY <3>1
    <2> HIDE DEF G
    <2>2. ASSUME NEW s \in SUBSET U, s # U PROVE g[s] = G(s)[s]
      <3>1. Sums(f, G(s), s)
        BY <2>1, <2>2
      <3>2. G(s)[s] = Step(f, G(s), s)
        BY <3>1, SumsApplied
      <3>3. CASE s = {}
        BY <3>2, <3>3 DEF Step
      <3>4. CASE s # {}
        <4>1. Rest(s) \subseteq s /\ Rest(s) \subseteq U /\ Rest(s) # U
          BY <2>2, <3>4, OneIn
        <4>2. Sums(f, G(Rest(s)), Rest(s))
          BY <2>1, <4>1
        <4>3. IsFiniteSet(s)
          BY FS_Subset
        <4>4. \A V \in SUBSET s : V \subseteq Rest(s) => G(s)[V] = G(Rest(s))[V]
          BY <3>1, <4>2, <4>3, SumsAgree
        <4>5. G(s)[Rest(s)] = G(Rest(s))[Rest(s)]
          BY <4>1, <4>4
        <4> QED BY <3>2, <3>4, <4>5 DEF Step
      <3> QED BY <3>3, <3>4
    <2>3. ASSUME NEW s \in SUBSET U PROVE g[s] = Step(f, g, s)
      <3>1. CASE s = {}
        BY <3>1 DEF Step
      <3>2. CASE s # {}
        <4>1. Rest(s) \in SUBSET U /\ Rest(s) # U
          BY <3>2, OneIn
        <4>2. g[Rest(s)] = G(Rest(s))[Rest(s)]
          BY <2>2, <4>1
        <4> QED BY <3>2, <4>2 DEF Step
      <3> QED BY <3>1, <3>2
    <2>4. g = [s \in SUBSET U |-> g[s]]
      OBVIOUS
    <2> HIDE DEF g
    <2>5. Sums(f, g, U)
      BY <2>3, <2>4 DEF Sums
    <2> QED BY <2>5
  <1> HIDE DEF True
  <1>2. \A U \in SUBSET S : U \in True
    BY <1>1, SubsetInduction
  <1> QED BY <1>2 DEF True

LEMMA SumDef ==
    ASSUME NEW f, NEW S, IsFiniteSet(S), NEW g, Sums(f, g, S)
    PROVE  SumFunctionOnSet(f, S) = g[S]
  <1> DEFINE h == CHOOSE k : k = [s \in SUBSET S |-> Step(f, k, s)]
  <1>1. h = [s \in SUBSET S |-> Step(f, h, s)]
    BY Zenon DEF Sums
  <1>2. SumFunctionOnSet(f, S) = h[S]
    BY Zenon DEF SumFunctionOnSet, FoldFunctionOnSet, MapThenFoldSet, Step, One
  <1> HIDE DEF h
  <1>3. Sums(f, h, S)
    BY <1>1 DEF Sums
  <1> QED BY <1>2, <1>3, SumsAgree

LEMMA SumOnSubsets ==
    ASSUME NEW f, NEW S, IsFiniteSet(S), NEW g, Sums(f, g, S), NEW U \in SUBSET S
    PROVE  SumFunctionOnSet(f, U) = g[U]
  <1>1. IsFiniteSet(U)
    BY FS_Subset
  <1>2. PICK h : Sums(f, h, U)
    BY <1>1, SumsExist
  <1>3. SumFunctionOnSet(f, U) = h[U]
    BY <1>1, <1>2, SumDef
  <1>4. g[U] = h[U]
    BY <1>2, SumsAgree
  <1> QED BY <1>3, <1>4

LEMMA SumEmpty == \A f : SumFunctionOnSet(f, {}) = 0
  <1> TAKE f
  <1>1. IsFiniteSet({})
    BY FS_EmptySet
  <1>2. PICK g : Sums(f, g, {})
    BY <1>1, SumsExist
  <1> QED BY <1>1, <1>2, SumDef, SumsApplied DEF Step

(* The sum over a set that is not empty, by the element taken first.       *)
LEMMA SumByOne ==
    ASSUME NEW f, NEW S, IsFiniteSet(S), S # {}
    PROVE  SumFunctionOnSet(f, S) = f[One(S)] + SumFunctionOnSet(f, S \ {One(S)})
  <1>1. PICK g : Sums(f, g, S)
    BY SumsExist
  <1>2. SumFunctionOnSet(f, S) = g[S] /\ SumFunctionOnSet(f, S \ {One(S)}) = g[S \ {One(S)}]
    BY <1>1, SumDef, SumOnSubsets
  <1> QED BY <1>1, <1>2, SumsApplied DEF Step

LEMMA SumInt ==
    ASSUME NEW f, NEW S, IsFiniteSet(S), \A x \in S : f[x] \in Int
    PROVE  SumFunctionOnSet(f, S) \in Int
  <1> DEFINE True == {U \in SUBSET S : SumFunctionOnSet(f, U) \in Int}
  <1>1. ASSUME NEW U \in SUBSET S, \A V \in SUBSET U : V # U => V \in True PROVE U \in True
    <2>1. CASE U = {}
      BY <2>1, SumEmpty
    <2>2. CASE U # {}
      <3>1. One(U) \in U /\ SumFunctionOnSet(f, U \ {One(U)}) \in Int
        BY <1>1, <2>2, OneIn
      <3>2. IsFiniteSet(U)
        BY FS_Subset
      <3>3. SumFunctionOnSet(f, U) = f[One(U)] + SumFunctionOnSet(f, U \ {One(U)})
        BY <2>2, <3>2, SumByOne
      <3> QED BY <3>1, <3>3
    <2> QED BY <2>1, <2>2
  <1> HIDE DEF True
  <1>2. \A U \in SUBSET S : U \in True
    BY <1>1, SubsetInduction
  <1> QED BY <1>2 DEF True

(* The sum over a set that is not empty, by any of its elements.           *)
LEMMA SumByAny ==
    ASSUME NEW f, NEW S, IsFiniteSet(S), \A x \in S : f[x] \in Int
    PROVE  \A x \in S : SumFunctionOnSet(f, S) = f[x] + SumFunctionOnSet(f, S \ {x})
  <1> DEFINE sum(U) == SumFunctionOnSet(f, U)
             True == {U \in SUBSET S : \A x \in U : sum(U) = f[x] + sum(U \ {x})}
  <1>0. ASSUME NEW U \in SUBSET S PROVE IsFiniteSet(U) /\ sum(U) \in Int
    BY FS_Subset, SumInt
  <1>1. ASSUME NEW U \in SUBSET S, \A V \in SUBSET U : V # U => V \in True PROVE U \in True
    <2> SUFFICES ASSUME NEW x \in U PROVE sum(U) = f[x] + sum(U \ {x})
      OBVIOUS
    <2> DEFINE y == One(U)
    <2>1. y \in U /\ sum(U) = f[y] + sum(U \ {y})
      BY <1>0, SumByOne, OneIn
    <2> HIDE DEF y
    <2>2. CASE x = y
      BY <2>1, <2>2
    <2>3. CASE x # y
      <3>1. sum(U \ {y}) = f[x] + sum((U \ {y}) \ {x})
        <4>1. U \ {y} \in True /\ x \in U \ {y}
          BY <1>1, <2>1, <2>3
        <4> QED BY <4>1
      <3>2. sum(U \ {x}) = f[y] + sum((U \ {x}) \ {y})
        <4>1. U \ {x} \in True /\ y \in U \ {x}
          BY <1>1, <2>1, <2>3
        <4> QED BY <4>1
      <3>3. (U \ {y}) \ {x} = (U \ {x}) \ {y}
        OBVIOUS
      <3>4. sum((U \ {x}) \ {y}) \in Int /\ f[x] \in Int /\ f[y] \in Int
        BY <1>0, <2>1
      <3> DEFINE rest == sum((U \ {x}) \ {y})
      <3>5. sum(U) = f[y] + (f[x] + rest) /\ sum(U \ {x}) = f[y] + rest
        BY <2>1, <3>1, <3>2, <3>3, Zenon
      <3>6. rest \in Int
        BY <3>4
      <3> HIDE DEF sum, rest, True
      <3> QED BY <3>4, <3>5, <3>6
    <2> QED BY <2>2, <2>3
  <1> HIDE DEF True
  <1>2. \A U \in SUBSET S : U \in True
    BY <1>1, SubsetInduction
  <1> QED BY <1>2 DEF True

LEMMA SumOfEqual ==
    ASSUME NEW f, NEW g, NEW S, IsFiniteSet(S), \A x \in S : f[x] = g[x]
    PROVE  SumFunctionOnSet(f, S) = SumFunctionOnSet(g, S)
  <1> DEFINE True == {U \in SUBSET S : SumFunctionOnSet(f, U) = SumFunctionOnSet(g, U)}
  <1>1. ASSUME NEW U \in SUBSET S, \A V \in SUBSET U : V # U => V \in True PROVE U \in True
    <2>1. CASE U = {}
      BY <2>1, SumEmpty
    <2>2. CASE U # {}
      <3>1. /\ One(U) \in U
            /\ SumFunctionOnSet(f, U \ {One(U)}) = SumFunctionOnSet(g, U \ {One(U)})
        BY <1>1, <2>2, OneIn
      <3>2. IsFiniteSet(U)
        BY FS_Subset
      <3> QED BY <2>2, <3>1, <3>2, SumByOne
    <2> QED BY <2>1, <2>2
  <1> HIDE DEF True
  <1>2. \A U \in SUBSET S : U \in True
    BY <1>1, SubsetInduction
  <1> QED BY <1>2 DEF True

(* A sum over rows, when the table has grown by one of them.               *)
LEMMA SumOfMore ==
    ASSUME NEW f, NEW g, NEW S, IsFiniteSet(S), NEW last, last \notin S, g[last] \in Int,
           \A x \in S : f[x] \in Int /\ g[x] = f[x]
    PROVE  SumFunctionOnSet(g, S \cup {last}) = SumFunctionOnSet(f, S) + g[last]
  <1>1. SumFunctionOnSet(f, S) \in Int /\ SumFunctionOnSet(g, S) = SumFunctionOnSet(f, S)
    BY SumInt, SumOfEqual
  <1> DEFINE T == S \cup {last}
  <1>2. IsFiniteSet(T)
    BY FS_AddElement
  <1>3. last \in T /\ T \ {last} = S /\ \A x \in T : g[x] \in Int
    OBVIOUS
  <1> HIDE DEF T
  <1>4. SumFunctionOnSet(g, T) = g[last] + SumFunctionOnSet(g, T \ {last})
    BY <1>2, <1>3, SumByAny
  <1> DEFINE a == SumFunctionOnSet(f, S)
             b == SumFunctionOnSet(g, T)
  <1>5. a \in Int /\ b = g[last] + a
    BY <1>1, <1>3, <1>4
  <1>6. b = a + g[last]
    <2> HIDE DEF a, b
    <2> QED BY <1>5
  <1> QED BY <1>6 DEF T

-----------------------------------------------------------------------------
(* The books.                                                              *)

BooksInv == FillsMatchTrades /\ BooksBalance /\ CostBasisBounded

(* The rows a trade refers to are there, so it has values in every column. *)
LEMMA TradeRows ==
    ASSUME LedgerInv
    PROVE  /\ IsFiniteSet(DOMAIN trades)
           /\ \A n \in DOMAIN trades :
                 /\ trades[n].buy \in DOMAIN orders /\ trades[n].sell \in DOMAIN orders
                 /\ trades[n].price \in Nat /\ trades[n].quantity \in Nat
                 /\ trades[n].price * trades[n].quantity \in Nat
  <1>1. DOMAIN trades = 1 .. Len(trades) /\ Len(trades) \in Nat
    BY DEF LedgerInv, LedgerTypeOK
  <1>2. IsFiniteSet(DOMAIN trades)
    BY <1>1, FS_Interval
  <1>3. ASSUME NEW n \in DOMAIN trades
        PROVE  /\ trades[n].buy \in DOMAIN orders /\ trades[n].sell \in DOMAIN orders
               /\ trades[n].price \in Nat /\ trades[n].quantity \in Nat
    <2>1. trades[n] \in Trade
      BY <1>1 DEF LedgerInv, LedgerTypeOK
    <2> QED BY <2>1 DEF LedgerInv, TradesLinked, Trade
  <1> QED BY <1>2, <1>3, ProductNat

(* A transaction that records no trade and moves nothing: the rows that    *)
(* remain keep owner, symbol and fill, new ones are not filled.            *)
LEMMA StandingBooks ==
    ASSUME LedgerInv, BooksInv, UNCHANGED <<balance, shares, avgCost, trades>>,
           \A n \in DOMAIN trades :
              trades[n].buy \in DOMAIN orders' /\ trades[n].sell \in DOMAIN orders',
           \A x \in DOMAIN orders' :
              IF x \in DOMAIN orders
              THEN /\ orders'[x].user = orders[x].user
                   /\ orders'[x].symbol = orders[x].symbol
                   /\ orders'[x].filled = orders[x].filled
              ELSE orders'[x].filled = 0
    PROVE  BooksInv'
  <1>1. \A n \in DOMAIN trades :
           /\ trades[n].buy \in DOMAIN orders /\ trades[n].sell \in DOMAIN orders
           /\ orders'[trades[n].buy].user = orders[trades[n].buy].user
           /\ orders'[trades[n].buy].symbol = orders[trades[n].buy].symbol
           /\ orders'[trades[n].sell].user = orders[trades[n].sell].user
    BY TradeRows
  <1>2. FillsMatchTrades'
    <2> SUFFICES ASSUME NEW o \in DOMAIN orders'
                 PROVE  orders'[o].filled = TradedQuantity(o)'
      BY DEF FillsMatchTrades
    <2>1. TradedQuantity(o)' = TradedQuantity(o)
      BY DEF TradedQuantity, TradesOf, Column
    <2>2. CASE o \in DOMAIN orders
      BY <2>1, <2>2 DEF BooksInv, FillsMatchTrades
    <2>3. CASE o \notin DOMAIN orders
      <3>1. TradesOf(o) = {}
        BY <1>1, <2>3 DEF TradesOf
      <3> QED BY <2>1, <2>3, <3>1, SumEmpty DEF TradedQuantity
    <2> QED BY <2>2, <2>3
  <1>3. ASSUME NEW u \in Users PROVE BoughtBy(u)' = BoughtBy(u) /\ SoldBy(u)' = SoldBy(u)
    BY <1>1 DEF BoughtBy, SoldBy
  <1>4. Paid' = Paid
    BY DEF Paid, Column
  <1>5. ASSUME NEW s \in Symbols PROVE Moved(s)' = Moved(s)
    BY <1>1 DEF Moved, Column
  <1>6. BooksBalance'
    BY <1>3, <1>4, <1>5 DEF BooksInv, BooksBalance
  <1>7. ASSUME NEW u \in Users, NEW s \in Symbols PROVE PricesPaid(u, s)' = PricesPaid(u, s)
    BY <1>1 DEF PricesPaid
  <1>8. CostBasisBounded'
    BY <1>7 DEF BooksInv, CostBasisBounded
  <1> QED BY <1>2, <1>6, <1>8 DEF BooksInv

(* What a settlement of b with s writes, in the terms of the books.        *)
Entered(b, s, q, p) ==
    /\ b \in DOMAIN orders /\ s \in DOMAIN orders /\ b # s
    /\ orders[b].user # orders[s].user /\ orders[b].symbol = orders[s].symbol
    /\ q \in Nat \ {0} /\ p \in Nat \ {0} /\ q * p \in Nat
    /\ DOMAIN orders' = DOMAIN orders
    /\ \A x \in DOMAIN orders :
          /\ orders[x] \in OrderRow
          /\ orders'[x].user = orders[x].user
          /\ orders'[x].symbol = orders[x].symbol
          /\ orders'[x].filled = IF x \in {b, s} THEN orders[x].filled + q ELSE orders[x].filled
    /\ DOMAIN trades' = DOMAIN trades \cup {Len(trades) + 1}
    /\ Len(trades) + 1 \notin DOMAIN trades
    /\ \A n \in DOMAIN trades : trades'[n] = trades[n]
    /\ trades'[Len(trades) + 1] = [buy |-> b, sell |-> s, price |-> p, quantity |-> q]

LEMMA TradeEntered ==
    ASSUME LedgerInv, NEW i \in OrderIds, NEW r \in OrderIds, SettleTrade(i, r)
    PROVE  Entered(BuyId(i, r), SellId(i, r), SettleQuantity(i, r), orders[r].price)
  <1> DEFINE b == BuyId(i, r)
             s == SellId(i, r)
             q == SettleQuantity(i, r)
             p == orders[r].price
             last == Len(trades) + 1
  <1>1. Settleable(i, r)
    BY DEF SettleTrade
  <1>2. /\ b \in DOMAIN orders /\ s \in DOMAIN orders /\ b # s
        /\ orders[b].user # orders[s].user
        /\ orders[b].symbol = orders[s].symbol
        /\ p \in Nat \ {0}
    BY <1>1, SettleableFacts
  <1>3. /\ DOMAIN orders' = DOMAIN orders
        /\ \A x \in DOMAIN orders \ {b, s} : orders'[x] = orders[x]
        /\ \A x \in {b, s} :
              /\ orders'[x].user = orders[x].user
              /\ orders'[x].symbol = orders[x].symbol
              /\ orders'[x].filled = orders[x].filled + q
        /\ q \in Nat \ {0}
    BY TradeFacts
  <1>4. /\ DOMAIN trades = 1 .. Len(trades) /\ Len(trades) \in Nat
        /\ DOMAIN trades' = 1 .. last
        /\ \A n \in DOMAIN trades : trades'[n] = trades[n]
        /\ trades'[last] = [buy |-> b, sell |-> s, price |-> p, quantity |-> q]
    BY RecordFacts, Zenon
  <1>5. \A x \in DOMAIN orders : orders[x] \in OrderRow
    BY DEF LedgerInv, LedgerTypeOK
  <1> HIDE DEF b, s, q, p
  <1>6. q * p \in Nat
    BY <1>2, <1>3, ProductNat
  <1>7. last \notin DOMAIN trades /\ DOMAIN trades' = DOMAIN trades \cup {last}
    BY <1>4
  <1>8. Entered(b, s, q, p)
    BY <1>2, <1>3, <1>4, <1>5, <1>6, <1>7 DEF Entered
  <1> QED BY <1>8 DEF b, s, q, p

LEMMA FillsGrow ==
    ASSUME LedgerInv, FillsMatchTrades, NEW b, NEW s, NEW q, NEW p, Entered(b, s, q, p)
    PROVE  FillsMatchTrades'
  <1> DEFINE last == Len(trades) + 1
             amounts == Column(LAMBDA t : t.quantity)
  <1>1. \A n \in DOMAIN trades : amounts[n] \in Int /\ amounts'[n] = amounts[n]
    BY TradeRows DEF Column, Entered
  <1>2. amounts'[last] = q /\ q \in Int
    BY DEF Column, Entered
  <1> HIDE DEF amounts
  <1> SUFFICES ASSUME NEW o \in DOMAIN orders'
               PROVE  orders'[o].filled = SumFunctionOnSet(amounts', TradesOf(o)')
    BY DEF FillsMatchTrades, TradedQuantity, amounts
  <1>3. o \in DOMAIN orders /\ orders[o].filled = SumFunctionOnSet(amounts, TradesOf(o))
    BY DEF Entered, FillsMatchTrades, TradedQuantity, amounts
  <1>4. IsFiniteSet(TradesOf(o)) /\ TradesOf(o) \subseteq DOMAIN trades
    BY TradeRows, FS_Subset DEF TradesOf
  <1>5. /\ last \notin TradesOf(o)
        /\ \A n \in TradesOf(o) : amounts[n] \in Int /\ amounts'[n] = amounts[n]
    BY <1>1, <1>4 DEF Entered
  <1>6. SumFunctionOnSet(amounts', TradesOf(o)) = SumFunctionOnSet(amounts, TradesOf(o))
    BY <1>4, <1>5, SumOfEqual
  <1>7. SumFunctionOnSet(amounts', TradesOf(o) \cup {last})
           = SumFunctionOnSet(amounts, TradesOf(o)) + q
    BY <1>2, <1>4, <1>5, SumOfMore
  <1>8. TradesOf(o)' = IF o \in {b, s} THEN TradesOf(o) \cup {last} ELSE TradesOf(o)
    BY DEF Entered, TradesOf
  <1>9. orders'[o].filled = IF o \in {b, s} THEN orders[o].filled + q ELSE orders[o].filled
    BY <1>3 DEF Entered
  <1> QED BY <1>3, <1>6, <1>7, <1>8, <1>9

(* The sum over somebody's rows grows by the new row if it is theirs.      *)
LEMMA SumGrows ==
    ASSUME NEW f, NEW g, NEW S, IsFiniteSet(S), NEW last, last \notin S, g[last] \in Int,
           \A x \in S : f[x] \in Int /\ g[x] = f[x],
           NEW T, NEW mine \in BOOLEAN, T = IF mine THEN S \cup {last} ELSE S
    PROVE  SumFunctionOnSet(g, T) = SumFunctionOnSet(f, S) + (IF mine THEN g[last] ELSE 0)
  <1>1. SumFunctionOnSet(f, S) \in Int /\ SumFunctionOnSet(g, S) = SumFunctionOnSet(f, S)
    BY SumInt, SumOfEqual
  <1>2. CASE mine
    BY <1>2, SumOfMore
  <1>3. CASE ~mine
    BY <1>1, <1>3
  <1> QED BY <1>2, <1>3

(* Whose rows a new trade joins.                                           *)
LEMMA RowsGrow ==
    ASSUME LedgerInv, NEW b, NEW s, NEW q, NEW p, Entered(b, s, q, p), NEW u
    PROVE  LET last == Len(trades) + 1 IN
           /\ IsFiniteSet(BoughtBy(u)) /\ BoughtBy(u) \subseteq DOMAIN trades
           /\ IsFiniteSet(SoldBy(u)) /\ SoldBy(u) \subseteq DOMAIN trades
           /\ last \notin BoughtBy(u) /\ last \notin SoldBy(u)
           /\ BoughtBy(u)' = IF u = orders[b].user THEN BoughtBy(u) \cup {last} ELSE BoughtBy(u)
           /\ SoldBy(u)' = IF u = orders[s].user THEN SoldBy(u) \cup {last} ELSE SoldBy(u)
  <1>1. /\ IsFiniteSet(BoughtBy(u)) /\ BoughtBy(u) \subseteq DOMAIN trades
        /\ IsFiniteSet(SoldBy(u)) /\ SoldBy(u) \subseteq DOMAIN trades
    BY TradeRows, FS_Subset DEF BoughtBy, SoldBy
  <1>2. Len(trades) + 1 \notin DOMAIN trades
    BY DEF Entered
  <1>3. \A n \in DOMAIN trades :
           /\ trades'[n] = trades[n]
           /\ orders'[trades[n].buy].user = orders[trades[n].buy].user
           /\ orders'[trades[n].sell].user = orders[trades[n].sell].user
    BY TradeRows DEF Entered
  <1>4. BoughtBy(u)' =
           IF u = orders[b].user THEN BoughtBy(u) \cup {Len(trades) + 1} ELSE BoughtBy(u)
    BY <1>2, <1>3 DEF BoughtBy, Entered
  <1>5. SoldBy(u)' =
           IF u = orders[s].user THEN SoldBy(u) \cup {Len(trades) + 1} ELSE SoldBy(u)
    BY <1>2, <1>3 DEF SoldBy, Entered
  <1> QED BY <1>1, <1>2, <1>4, <1>5

LEMMA CashGrows ==
    ASSUME LedgerInv, NEW b, NEW s, NEW q, NEW p, Entered(b, s, q, p), NEW u
    PROVE  /\ SumFunctionOnSet(Paid', BoughtBy(u)') =
                 SumFunctionOnSet(Paid, BoughtBy(u)) + (IF u = orders[b].user THEN q * p ELSE 0)
           /\ SumFunctionOnSet(Paid', SoldBy(u)') =
                 SumFunctionOnSet(Paid, SoldBy(u)) + (IF u = orders[s].user THEN q * p ELSE 0)
           /\ SumFunctionOnSet(Paid, BoughtBy(u)) \in Int
           /\ SumFunctionOnSet(Paid, SoldBy(u)) \in Int
  <1> DEFINE last == Len(trades) + 1
             mb == (u = orders[b].user)
             ms == (u = orders[s].user)
  <1>1. \A n \in DOMAIN trades : Paid[n] \in Int /\ Paid'[n] = Paid[n]
    BY TradeRows DEF Paid, Column, Entered
  <1>2. Paid'[last] = q * p /\ q * p \in Int
    <2>1. Paid'[last] = p * q
      BY DEF Paid, Column, Entered
    <2>2. p * q = q * p /\ q * p \in Int
      BY Z3 DEF Entered
    <2> QED BY <2>1, <2>2
  <1>3. /\ IsFiniteSet(BoughtBy(u)) /\ BoughtBy(u) \subseteq DOMAIN trades
        /\ IsFiniteSet(SoldBy(u)) /\ SoldBy(u) \subseteq DOMAIN trades
        /\ last \notin BoughtBy(u) /\ last \notin SoldBy(u)
        /\ BoughtBy(u)' = IF mb THEN BoughtBy(u) \cup {last} ELSE BoughtBy(u)
        /\ SoldBy(u)' = IF ms THEN SoldBy(u) \cup {last} ELSE SoldBy(u)
    BY RowsGrow
  <1>4. mb \in BOOLEAN /\ ms \in BOOLEAN
    OBVIOUS
  <1> HIDE DEF mb, ms, last
  <1>5. \A n \in BoughtBy(u) \cup SoldBy(u) : Paid[n] \in Int /\ Paid'[n] = Paid[n]
    BY <1>1, <1>3
  <1>6. SumFunctionOnSet(Paid', BoughtBy(u)') =
           SumFunctionOnSet(Paid, BoughtBy(u)) + (IF mb THEN Paid'[last] ELSE 0)
    BY <1>2, <1>3, <1>4, <1>5, SumGrows
  <1>7. SumFunctionOnSet(Paid', SoldBy(u)') =
           SumFunctionOnSet(Paid, SoldBy(u)) + (IF ms THEN Paid'[last] ELSE 0)
    BY <1>2, <1>3, <1>4, <1>5, SumGrows
  <1>8. SumFunctionOnSet(Paid, BoughtBy(u)) \in Int /\ SumFunctionOnSet(Paid, SoldBy(u)) \in Int
    BY <1>3, <1>5, SumInt
  <1> QED BY <1>2, <1>6, <1>7, <1>8, Zenon DEF mb, ms

LEMMA SharesGrow ==
    ASSUME LedgerInv, NEW b, NEW s, NEW q, NEW p, Entered(b, s, q, p), NEW u, NEW sym
    PROVE  LET moved == IF orders[b].symbol = sym THEN q ELSE 0 IN
           /\ SumFunctionOnSet(Moved(sym)', BoughtBy(u)') =
                 SumFunctionOnSet(Moved(sym), BoughtBy(u))
                    + (IF u = orders[b].user THEN moved ELSE 0)
           /\ SumFunctionOnSet(Moved(sym)', SoldBy(u)') =
                 SumFunctionOnSet(Moved(sym), SoldBy(u))
                    + (IF u = orders[s].user THEN moved ELSE 0)
           /\ SumFunctionOnSet(Moved(sym), BoughtBy(u)) \in Int
           /\ SumFunctionOnSet(Moved(sym), SoldBy(u)) \in Int
  <1> DEFINE last == Len(trades) + 1
             mb == (u = orders[b].user)
             ms == (u = orders[s].user)
             moved == IF orders[b].symbol = sym THEN q ELSE 0
             col == Moved(sym)
  <1>1. \A n \in DOMAIN trades : col[n] \in Int /\ col'[n] = col[n]
    <2> TAKE n \in DOMAIN trades
    <2>1. /\ trades[n].buy \in DOMAIN orders /\ trades[n].quantity \in Nat
          /\ n \in DOMAIN trades' /\ trades'[n] = trades[n]
      BY TradeRows DEF Entered
    <2>2. orders'[trades[n].buy].symbol = orders[trades[n].buy].symbol
      BY <2>1 DEF Entered
    <2> QED BY <2>1, <2>2 DEF Moved, Column
  <1>2. col'[last] = moved /\ moved \in Int
    BY DEF Moved, Column, Entered
  <1>3. /\ IsFiniteSet(BoughtBy(u)) /\ BoughtBy(u) \subseteq DOMAIN trades
        /\ IsFiniteSet(SoldBy(u)) /\ SoldBy(u) \subseteq DOMAIN trades
        /\ last \notin BoughtBy(u) /\ last \notin SoldBy(u)
        /\ BoughtBy(u)' = IF mb THEN BoughtBy(u) \cup {last} ELSE BoughtBy(u)
        /\ SoldBy(u)' = IF ms THEN SoldBy(u) \cup {last} ELSE SoldBy(u)
    BY RowsGrow
  <1>4. mb \in BOOLEAN /\ ms \in BOOLEAN
    OBVIOUS
  <1> HIDE DEF mb, ms, last, col, moved
  <1>5. \A n \in BoughtBy(u) \cup SoldBy(u) : col[n] \in Int /\ col'[n] = col[n]
    BY <1>1, <1>3
  <1>6. SumFunctionOnSet(col', BoughtBy(u)') =
           SumFunctionOnSet(col, BoughtBy(u)) + (IF mb THEN col'[last] ELSE 0)
    BY <1>2, <1>3, <1>4, <1>5, SumGrows
  <1>7. SumFunctionOnSet(col', SoldBy(u)') =
           SumFunctionOnSet(col, SoldBy(u)) + (IF ms THEN col'[last] ELSE 0)
    BY <1>2, <1>3, <1>4, <1>5, SumGrows
  <1>8. SumFunctionOnSet(col, BoughtBy(u)) \in Int /\ SumFunctionOnSet(col, SoldBy(u)) \in Int
    BY <1>3, <1>5, SumInt
  <1> QED BY <1>2, <1>6, <1>7, <1>8, Zenon DEF mb, ms, col, moved

LEMMA TradeBalances ==
    ASSUME LedgerInv, BooksBalance, NEW i \in OrderIds, NEW r \in OrderIds, SettleTrade(i, r)
    PROVE  BooksBalance'
  <1> DEFINE b == BuyId(i, r)
             s == SellId(i, r)
             q == SettleQuantity(i, r)
             p == orders[r].price
             sym == orders[r].symbol
             cash == q * p
  <1>1. Entered(b, s, q, p)
    BY TradeEntered
  <1>2. orders[b].symbol = sym
    BY SettleableFacts DEF SettleTrade
  <1>3. /\ balance' = [balance EXCEPT ![orders[b].user] = @ - cash, ![orders[s].user] = @ + cash]
        /\ shares' = [shares EXCEPT ![<<orders[b].user, sym>>] = @ + q,
                                    ![<<orders[s].user, sym>>] = @ - q]
    BY DEF SettleTrade, MoveCash
  <1>4. balance \in [Users -> Int] /\ shares \in [Users \X Symbols -> Int]
    BY DEF LedgerInv, LedgerTypeOK
  <1> HIDE DEF b, s, q, p, sym
  <1>5. /\ cash \in Int /\ q \in Int /\ orders[b].user # orders[s].user
        /\ orders[b].user \in Users /\ orders[s].user \in Users /\ sym \in Symbols
    BY <1>1, <1>2 DEF Entered, OrderRow
  <1> SUFFICES ASSUME NEW u \in Users
               PROVE  /\ balance'[u] = InitialBalance[u]
                            + SumFunctionOnSet(Paid', SoldBy(u)')
                            - SumFunctionOnSet(Paid', BoughtBy(u)')
                      /\ \A x \in Symbols :
                            shares'[<<u, x>>] = InitialShares[<<u, x>>]
                               + SumFunctionOnSet(Moved(x)', BoughtBy(u)')
                               - SumFunctionOnSet(Moved(x)', SoldBy(u)')
    BY DEF BooksBalance
  <1>6. balance'[u] = InitialBalance[u] + SumFunctionOnSet(Paid', SoldBy(u)')
                         - SumFunctionOnSet(Paid', BoughtBy(u)')
    <2> DEFINE sold == SumFunctionOnSet(Paid, SoldBy(u))
               bought == SumFunctionOnSet(Paid, BoughtBy(u))
               sold1 == SumFunctionOnSet(Paid', SoldBy(u)')
               bought1 == SumFunctionOnSet(Paid', BoughtBy(u)')
               first == InitialBalance[u]
    <2>1. /\ bought1 = bought + (IF u = orders[b].user THEN cash ELSE 0)
          /\ sold1 = sold + (IF u = orders[s].user THEN cash ELSE 0)
          /\ bought \in Int /\ sold \in Int
      BY <1>1, CashGrows
    <2>2. first \in Int /\ balance[u] = first + sold - bought
      BY EndowmentAssumption DEF BooksBalance
    <2>3. balance'[u] = balance[u] - (IF u = orders[b].user THEN cash ELSE 0)
                                   + (IF u = orders[s].user THEN cash ELSE 0)
      <3> HIDE DEF cash
      <3> QED BY <1>3, <1>4, <1>5
    <2> HIDE DEF sold, bought, sold1, bought1, first, cash
    <2> QED BY <1>5, <2>1, <2>2, <2>3 DEF sold1, bought1, first
  <1>7. ASSUME NEW x \in Symbols
        PROVE  shares'[<<u, x>>] = InitialShares[<<u, x>>]
                  + SumFunctionOnSet(Moved(x)', BoughtBy(u)')
                  - SumFunctionOnSet(Moved(x)', SoldBy(u)')
    <2> DEFINE sold == SumFunctionOnSet(Moved(x), SoldBy(u))
               bought == SumFunctionOnSet(Moved(x), BoughtBy(u))
               sold1 == SumFunctionOnSet(Moved(x)', SoldBy(u)')
               bought1 == SumFunctionOnSet(Moved(x)', BoughtBy(u)')
               first == InitialShares[<<u, x>>]
               moved == IF orders[b].symbol = x THEN q ELSE 0
    <2>1. /\ bought1 = bought + (IF u = orders[b].user THEN moved ELSE 0)
          /\ sold1 = sold + (IF u = orders[s].user THEN moved ELSE 0)
          /\ bought \in Int /\ sold \in Int
      BY <1>1, SharesGrow
    <2>2. first \in Int /\ shares[<<u, x>>] = first + bought - sold
      BY EndowmentAssumption DEF BooksBalance
    <2>3. moved \in Int
      BY <1>5
    <2>4. shares'[<<u, x>>] = shares[<<u, x>>] + (IF u = orders[b].user THEN moved ELSE 0)
                                               - (IF u = orders[s].user THEN moved ELSE 0)
      BY <1>2, <1>3, <1>4, <1>5
    <2> HIDE DEF sold, bought, sold1, bought1, first, moved
    <2> QED BY <2>1, <2>2, <2>3, <2>4 DEF sold1, bought1, first
  <1> QED BY <1>6, <1>7

LEMMA TradeKeepsCost ==
    ASSUME LedgerInv, CostBasisBounded, NEW i \in OrderIds, NEW r \in OrderIds, SettleTrade(i, r)
    PROVE  CostBasisBounded'
  <1> DEFINE b == BuyId(i, r)
             s == SellId(i, r)
             q == SettleQuantity(i, r)
             p == orders[r].price
             sym == orders[r].symbol
             buyer == orders[b].user
             seller == orders[s].user
  <1>1. Entered(b, s, q, p)
    BY TradeEntered
  <1>2. orders[b].symbol = sym
    BY SettleableFacts DEF SettleTrade
  <1>3. /\ shares' = [shares EXCEPT ![<<buyer, sym>>] = @ + q, ![<<seller, sym>>] = @ - q]
        /\ avgCost' = [avgCost EXCEPT
               ![<<buyer, sym>>] = AverageCost(shares[<<buyer, sym>>], @, q, p),
               ![<<seller, sym>>] = IF shares[<<seller, sym>>] = q THEN 0 ELSE @]
    BY DEF SettleTrade
  <1>4. /\ shares \in [Users \X Symbols -> Int] /\ avgCost \in [Users \X Symbols -> Nat]
        /\ \A h \in Users \X Symbols : shares[h] \in Nat
    BY DEF LedgerInv, LedgerTypeOK, NoOverdraft
  <1> HIDE DEF b, s, q, p, sym
  <1>5. /\ p \in Nat /\ q \in Nat \ {0} /\ buyer # seller
        /\ buyer \in Users /\ seller \in Users /\ sym \in Symbols
    BY <1>1, <1>2 DEF Entered, OrderRow
  <1> SUFFICES ASSUME NEW u \in Users, NEW x \in Symbols, shares'[<<u, x>>] > 0
               PROVE  /\ \E c \in PricesPaid(u, x)' : c <= avgCost'[<<u, x>>]
                      /\ \E c \in PricesPaid(u, x)' : avgCost'[<<u, x>>] <= c
    BY DEF CostBasisBounded
  <1>6. \A n \in DOMAIN trades :
           /\ n \in DOMAIN trades' /\ trades'[n] = trades[n]
           /\ orders'[trades[n].buy].user = orders[trades[n].buy].user
           /\ orders'[trades[n].buy].symbol = orders[trades[n].buy].symbol
    BY <1>1, TradeRows DEF Entered
  <1>7. PricesPaid(u, x) \subseteq PricesPaid(u, x)'
    BY <1>6 DEF PricesPaid
  <1>8. PricesPaid(u, x) \subseteq Nat
    BY TradeRows, EndowmentAssumption DEF PricesPaid
  <1>9. shares[<<u, x>>] > 0 =>
           /\ \E c \in PricesPaid(u, x) : c <= avgCost[<<u, x>>]
           /\ \E c \in PricesPaid(u, x) : avgCost[<<u, x>>] <= c
    BY DEF CostBasisBounded
  <1> HIDE DEF buyer, seller
  <1>10. CASE u = buyer /\ x = sym
    <2> DEFINE held == shares[<<u, x>>]
               cost == avgCost[<<u, x>>]
    <2>1. avgCost'[<<u, x>>] = AverageCost(held, cost, q, p)
      BY <1>3, <1>4, <1>5, <1>10
    <2>2. held \in Nat /\ cost \in Nat
      BY <1>4
    <2>3. p \in PricesPaid(u, x)'
      <3> DEFINE last == Len(trades) + 1
      <3>1. /\ last \in DOMAIN trades' /\ trades'[last].price = p /\ trades'[last].buy = b
            /\ orders'[b].user = u /\ orders'[b].symbol = x
        BY <1>1, <1>2, <1>10 DEF Entered, buyer
      <3> QED BY <3>1 DEF PricesPaid
    <2>4. PICK lo \in PricesPaid(u, x)' : lo \in Nat /\ lo <= p /\ (held > 0 => lo <= cost)
      <3>1. CASE held > 0
        <4>1. PICK c \in PricesPaid(u, x) : c <= cost
          BY <1>9, <3>1
        <4>2. c \in Nat /\ c \in PricesPaid(u, x)'
          BY <1>7, <1>8
        <4> QED BY <1>5, <2>2, <2>3, <4>1, <4>2
      <3>2. CASE ~(held > 0)
        BY <1>5, <2>3, <3>2
      <3> QED BY <3>1, <3>2
    <2>5. PICK hi \in PricesPaid(u, x)' : hi \in Nat /\ p <= hi /\ (held > 0 => cost <= hi)
      <3>1. CASE held > 0
        <4>1. PICK c \in PricesPaid(u, x) : cost <= c
          BY <1>9, <3>1
        <4>2. c \in Nat /\ c \in PricesPaid(u, x)'
          BY <1>7, <1>8
        <4> QED BY <1>5, <2>2, <2>3, <4>1, <4>2
      <3>2. CASE ~(held > 0)
        BY <1>5, <2>3, <3>2
      <3> QED BY <3>1, <3>2
    <2> HIDE DEF held, cost
    <2>6. lo <= AverageCost(held, cost, q, p) /\ AverageCost(held, cost, q, p) <= hi
      BY <1>5, <2>2, <2>4, <2>5, AverageBetween
    <2> QED BY <2>1, <2>4, <2>5, <2>6
  <1>11. CASE ~(u = buyer /\ x = sym)
    <2>1. shares[<<u, x>>] > 0 /\ avgCost'[<<u, x>>] = avgCost[<<u, x>>]
      <3>1. CASE u = seller /\ x = sym
        <4>1. shares'[<<u, x>>] = shares[<<u, x>>] - q
          BY <1>3, <1>4, <1>5, <3>1
        <4>2. shares[<<u, x>>] \in Nat
          BY <1>4
        <4>3. shares[<<u, x>>] > 0 /\ shares[<<u, x>>] # q
          BY <1>5, <4>1, <4>2
        <4> QED BY <1>3, <1>4, <1>5, <3>1, <4>3
      <3>2. CASE ~(u = seller /\ x = sym)
        BY <1>3, <1>4, <1>5, <1>11, <3>2
      <3> QED BY <3>1, <3>2
    <2> QED BY <1>7, <1>9, <2>1
  <1> QED BY <1>10, <1>11

(* Cancelling rows, one or many, keeps the books.                          *)
LEMMA CancelledBooks ==
    ASSUME LedgerInv, BooksInv, DOMAIN orders' = DOMAIN orders,
           UNCHANGED <<balance, shares, avgCost, trades>>,
           \A x \in DOMAIN orders : orders'[x] \in {orders[x], Cancelled(orders[x])}
    PROVE  BooksInv'
  <1>1. \A x \in DOMAIN orders :
           /\ orders'[x].user = orders[x].user
           /\ orders'[x].symbol = orders[x].symbol
           /\ orders'[x].filled = orders[x].filled
    <2> TAKE x \in DOMAIN orders
    <2>1. orders[x] \in OrderRow
      BY DEF LedgerInv, LedgerTypeOK
    <2>2. orders'[x] = orders[x] \/ orders'[x] = Cancelled(orders[x])
      OBVIOUS
    <2> QED BY <2>1, <2>2, CancelledRow
  <1>2. \A n \in DOMAIN trades : trades[n].buy \in DOMAIN orders /\ trades[n].sell \in DOMAIN orders
    BY TradeRows
  <1> QED BY <1>1, <1>2, StandingBooks

LEMMA UnfillableBooks ==
    ASSUME LedgerInv, BooksInv, NEW i \in OrderIds, NEW r \in OrderIds, SettleUnfillable(i, r)
    PROVE  BooksInv'
  <1> DEFINE blamed == IF SellerHas(i, r) <= 0 THEN SellId(i, r) ELSE BuyId(i, r)
  <1>1. Settleable(i, r)
    BY DEF SettleUnfillable
  <1>2. blamed \in DOMAIN orders /\ orders[blamed] \in OrderRow /\ IsOpen(orders[blamed])
    BY <1>1, SettleableFacts
  <1>3. AfterFill(orders[blamed], 0, TRUE) = Cancelled(orders[blamed])
    BY <1>2, EmptyFillCancels
  <1>4. orders' = [orders EXCEPT ![blamed] = AfterFill(@, 0, TRUE)]
    BY DEF SettleUnfillable
  <1>5. UNCHANGED <<balance, shares, avgCost, trades>>
    BY DEF SettleUnfillable
  <1> HIDE DEF blamed
  <1> QED BY <1>2, <1>3, <1>4, <1>5, CancelledBooks

LEMMA SubmitBooks ==
    ASSUME LedgerInv, BooksInv, NEW o \in OrderIds, Submit(o)
    PROVE  BooksInv'
  <1>1. \E row : InsertRow(o, row) /\ row.filled = 0
    <2>1. \A u, s, t, side, p, q : NewRow(u, s, t, side, p, q).filled = 0
      BY DEF NewRow
    <2>2. PICK u, s, t, side, p, q : InsertRow(o, NewRow(u, s, t, side, p, q))
      BY Zenon DEF Submit, InsertMarket, InsertLimit
    <2> QED BY <2>1, <2>2
  <1> PICK row : InsertRow(o, row) /\ row.filled = 0
    BY <1>1
  <1>2. o \notin DOMAIN orders
    BY DEF InsertRow, LedgerInv, LedgerTypeOK
  <1>3. \A n \in DOMAIN trades : trades[n].buy \in DOMAIN orders /\ trades[n].sell \in DOMAIN orders
    BY TradeRows
  <1> QED BY <1>2, <1>3, StandingBooks DEF InsertRow

LEMMA NextBooks == LedgerInv /\ BooksInv /\ [LedgerNext]_ledgerVars => BooksInv'
  <1> SUFFICES ASSUME LedgerInv, BooksInv, [LedgerNext]_ledgerVars PROVE BooksInv'
    OBVIOUS
  <1>1. ASSUME NEW o \in OrderIds, CancelOpen(o) PROVE BooksInv'
    BY <1>1, CancelledBooks DEF CancelOpen
  <1>2. ASSUME NEW o \in OrderIds, DeleteOrder(o) PROVE BooksInv'
    <2>1. \A n \in DOMAIN trades :
             trades[n].buy \in DOMAIN orders \ {o} /\ trades[n].sell \in DOMAIN orders \ {o}
      BY <1>2, TradeRows DEF DeleteOrder
    <2> QED BY <1>2, <2>1, StandingBooks DEF DeleteOrder
  <1>3. CASE MarketClose
    BY <1>3, CancelledBooks DEF MarketClose
  <1>4. ASSUME NEW i \in OrderIds, NEW r \in OrderIds, SettleTrade(i, r) PROVE BooksInv'
    <2>1. FillsMatchTrades'
      BY <1>4, TradeEntered, FillsGrow DEF BooksInv
    <2>2. BooksBalance' /\ CostBasisBounded'
      BY <1>4, TradeBalances, TradeKeepsCost DEF BooksInv
    <2> QED BY <2>1, <2>2 DEF BooksInv
  <1>5. CASE UNCHANGED ledgerVars
    BY <1>5, TradeRows, StandingBooks DEF ledgerVars
  <1> QED BY <1>1, <1>2, <1>3, <1>4, <1>5, SubmitBooks, UnfillableBooks
          DEF LedgerNext, Settle, ExpireLimit

LEMMA InitBooks == LedgerInit => BooksInv
  <1> SUFFICES ASSUME LedgerInit PROVE BooksInv
    OBVIOUS
  <1>1. DOMAIN orders = {} /\ DOMAIN trades = {}
    BY DEF LedgerInit
  <1>2. FillsMatchTrades
    BY <1>1 DEF FillsMatchTrades
  <1>3. \A u : BoughtBy(u) = {} /\ SoldBy(u) = {}
    BY <1>1 DEF BoughtBy, SoldBy
  <1>4. BooksBalance
    <2>1. \A u \in Users :
             /\ balance[u] = InitialBalance[u] + 0 - 0
             /\ \A s \in Symbols : shares[<<u, s>>] = InitialShares[<<u, s>>] + 0 - 0
      BY EndowmentAssumption DEF LedgerInit
    <2> QED BY <1>3, <2>1, SumEmpty, Zenon DEF BooksBalance
  <1>5. CostBasisBounded
    <2> SUFFICES ASSUME NEW u \in Users, NEW s \in Symbols, shares[<<u, s>>] > 0
                 PROVE  avgCost[<<u, s>>] \in PricesPaid(u, s) /\ avgCost[<<u, s>>] \in Nat
      BY DEF CostBasisBounded
    <2>1. InitialShares[<<u, s>>] > 0 /\ avgCost[<<u, s>>] = InitialCost[<<u, s>>]
      BY DEF LedgerInit
    <2>2. InitialCost[<<u, s>>] \in Nat
      BY EndowmentAssumption
    <2> QED BY <2>1, <2>2 DEF PricesPaid
  <1> QED BY <1>2, <1>4, <1>5 DEF BooksInv

(* The invariant holds in every reachable state of the ledger.             *)
THEOREM LedgerInvariant == LedgerSpec => []LedgerInv
  <1>1. LedgerInit => LedgerInv
    BY InitInv
  <1>2. LedgerInv /\ [LedgerNext]_ledgerVars => LedgerInv'
    BY NextInv
  <1> QED BY <1>1, <1>2, PTL DEF LedgerSpec

(* Every table keeps its type: no row, balance, holding or trade of the    *)
(* ledger ever leaves the domain its column declares.                      *)
THEOREM LedgerTypeCorrect == LedgerSpec => []LedgerTypeOK
  <1>1. LedgerInv => LedgerTypeOK
    BY DEF LedgerInv
  <1> QED BY <1>1, LedgerInvariant, PTL

(* settle() never overdraws a buyer and never sells shares the seller does *)
(* not own, for any endowments, prices and quantities.                     *)
THEOREM NobodyOverdrawn == LedgerSpec => []NoOverdraft
  <1>1. LedgerInv => NoOverdraft
    BY DEF LedgerInv
  <1> QED BY <1>1, LedgerInvariant, PTL

(* filled_quantity and status of an order always agree.                    *)
THEOREM StatusCorrect == LedgerSpec => []StatusAgreesWithFill
  <1>1. LedgerInv => StatusAgreesWithFill
    BY DEF LedgerInv
  <1> QED BY <1>1, LedgerInvariant, PTL

(* Every trade on record respects both limits and has two owners, and no   *)
(* pair of orders trades twice.                                            *)
THEOREM TradesLawful == LedgerSpec => [](LimitsRespected /\ NoWashTrade /\ PairTradesOnce)
  <1>1. LedgerInv => LimitsRespected /\ NoWashTrade /\ PairTradesOnce
    BY DEF LedgerInv
  <1> QED BY <1>1, LedgerInvariant, PTL

LEMMA BooksInvariant == LedgerSpec => []BooksInv
  <1>1. LedgerInit => BooksInv
    BY InitBooks
  <1>2. LedgerInv /\ BooksInv /\ [LedgerNext]_ledgerVars => BooksInv'
    BY NextBooks
  <1> QED BY <1>1, <1>2, LedgerInvariant, PTL DEF LedgerSpec

(* The audit trail is complete: in every reachable state the filled        *)
(* quantity of every order is the sum of its rows in the trades table.     *)
THEOREM FillsAudited == LedgerSpec => []FillsMatchTrades
  <1>1. BooksInv => FillsMatchTrades
    BY DEF BooksInv
  <1> QED BY <1>1, BooksInvariant, PTL

(* Conservation, per user and per symbol: every balance and every holding  *)
(* is the endowment plus and minus the trades on record, however many.     *)
THEOREM BooksAlwaysBalance == LedgerSpec => []BooksBalance
  <1>1. BooksInv => BooksBalance
    BY DEF BooksInv
  <1> QED BY <1>1, BooksInvariant, PTL

(* Rounding to the cent, at every purchase, never moves the average cost   *)
(* of a holding outside the prices its owner paid.                         *)
THEOREM CostBasisSound == LedgerSpec => []CostBasisBounded
  <1>1. BooksInv => CostBasisBounded
    BY DEF BooksInv
  <1> QED BY <1>1, BooksInvariant, PTL

(* No transaction writes to a row that is closed.                          *)
LEMMA ClosedRowsKept ==
    ASSUME LedgerInv, LedgerNext, NEW o \in DOMAIN orders \cap DOMAIN orders',
           orders[o].status \in {"filled", "cancelled"}
    PROVE  orders'[o] = orders[o]
  <1>1. orders[o].status \notin OpenStatuses
    BY DEF OpenStatuses
  <1>2. ASSUME NEW x \in OrderIds, Submit(x) PROVE orders'[o] = orders[o]
    <2>1. x \notin DOMAIN orders
      BY <1>2 DEF Submit, InsertMarket, InsertLimit, InsertRow, LedgerInv, LedgerTypeOK
    <2>2. \A y \in DOMAIN orders : y # x => orders'[y] = orders[y]
      BY <1>2 DEF Submit, InsertMarket, InsertLimit, InsertRow
    <2> QED BY <2>1, <2>2
  <1>3. ASSUME NEW x \in OrderIds, CancelOpen(x) \/ ExpireLimit(x)
        PROVE  orders'[o] = orders[o]
    BY <1>1, <1>3 DEF CancelOpen, ExpireLimit, HasOpenStatus
  <1>4. ASSUME NEW x \in OrderIds, DeleteOrder(x) PROVE orders'[o] = orders[o]
    BY <1>4 DEF DeleteOrder
  <1>5. ASSUME NEW i \in OrderIds, NEW r \in OrderIds, SettleTrade(i, r)
        PROVE  orders'[o] = orders[o]
    <2>1. /\ orders[BuyId(i, r)].status \in OpenStatuses
          /\ orders[SellId(i, r)].status \in OpenStatuses
      BY <1>5, SettleableFacts DEF SettleTrade, IsOpen
    <2>2. o \notin {BuyId(i, r), SellId(i, r)}
      BY <1>1, <2>1
    <2> QED BY <1>5, <2>2, TradeFacts
  <1>6. ASSUME NEW i \in OrderIds, NEW r \in OrderIds, SettleUnfillable(i, r)
        PROVE  orders'[o] = orders[o]
    <2>1. /\ orders[BuyId(i, r)].status \in OpenStatuses
          /\ orders[SellId(i, r)].status \in OpenStatuses
      BY <1>6, SettleableFacts DEF SettleUnfillable, IsOpen
    <2>2. o \notin {BuyId(i, r), SellId(i, r)}
      BY <1>1, <2>1
    <2> QED BY <1>6, <2>2 DEF SettleUnfillable
  <1>7. CASE MarketClose
    BY <1>1, <1>7 DEF MarketClose, HasOpenStatus
  <1> QED BY <1>2, <1>3, <1>4, <1>5, <1>6, <1>7 DEF LedgerNext, Settle

(* A closed order is final: no fill, cancel, expiry or market close ever   *)
(* writes to it again.                                                     *)
THEOREM ClosedOrdersFinal == LedgerSpec => ClosedIsFinal
  <1> DEFINE Final ==
        \A o \in DOMAIN orders \cap DOMAIN orders' :
          orders[o].status \in {"filled", "cancelled"} => orders'[o] = orders[o]
  <1>1. LedgerInv /\ [LedgerNext]_ledgerVars => [Final]_ledgerVars
    BY ClosedRowsKept
  <1>2. LedgerSpec => []LedgerInv
    BY LedgerInvariant
  <1> QED BY <1>1, <1>2, PTL DEF LedgerSpec, ClosedIsFinal

(* Every settlement that writes closes one of its two orders, so a taker   *)
(* settles with each resting order once at most and the matching loop of   *)
(* matchOrder is bounded by the orders in the book.                        *)
THEOREM SettlementProgress == LedgerSpec => SettlementCloses
  <1> DEFINE Progress == \A i, r \in OrderIds : Settle(i, r) => ClosesOne(i, r)
  <1>1. LedgerInv => Progress
    <2> SUFFICES ASSUME LedgerInv, NEW i \in OrderIds, NEW r \in OrderIds, Settle(i, r)
                 PROVE  ClosesOne(i, r)
      OBVIOUS
    <2>1. CASE SettleTrade(i, r)
      <3>1. Settleable(i, r)
        BY <2>1 DEF SettleTrade
      <3>2. {BuyId(i, r), SellId(i, r)} = {i, r}
        BY <3>1, SettleableFacts
      <3>3. ~(/\ orders'[BuyId(i, r)].status \in OpenStatuses
              /\ orders'[SellId(i, r)].status \in OpenStatuses)
        BY <2>1, TradeFacts
      <3> QED BY <3>2, <3>3 DEF ClosesOne
    <2>2. CASE SettleUnfillable(i, r)
      <3> DEFINE blamed == IF SellerHas(i, r) <= 0 THEN SellId(i, r) ELSE BuyId(i, r)
      <3>1. Settleable(i, r)
        BY <2>2 DEF SettleUnfillable
      <3>2. blamed \in {i, r} /\ blamed \in DOMAIN orders
            /\ orders[blamed] \in OrderRow /\ IsOpen(orders[blamed])
        BY <3>1, SettleableFacts
      <3>3. orders'[blamed] = AfterFill(orders[blamed], 0, TRUE)
        BY <2>2, <3>2 DEF SettleUnfillable
      <3> HIDE DEF blamed
      <3>4. orders'[blamed].status = "cancelled"
        <4>1. orders'[blamed] = Cancelled(orders[blamed])
          BY <3>2, <3>3, EmptyFillCancels
        <4> QED BY <3>2, <4>1, CancelledRow
      <3> QED BY <3>2, <3>4 DEF ClosesOne, OpenStatuses
    <2> QED BY <2>1, <2>2 DEF Settle
  <1>2. LedgerSpec => []LedgerInv
    BY LedgerInvariant
  <1> QED BY <1>1, <1>2, PTL DEF SettlementCloses
=============================================================================
