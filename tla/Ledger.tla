------------------------------- MODULE Ledger -------------------------------
(***************************************************************************)
(* The Postgres tables that hold money, shares, orders and trades, and the *)
(* transactions that change them: submitting an order, settling a taker    *)
(* against a resting maker, and the three ways of cancelling.  Every       *)
(* transaction runs under row locks (SELECT ... FOR UPDATE, or one UPDATE  *)
(* statement), so each is one action here.  Who calls them, in what order  *)
(* and with which stale beliefs is the business of MatchingEngine.         *)
(***************************************************************************)
EXTENDS OrderRules, Sequences, FiniteSets, Functions

CONSTANTS OrderIds,        \* the ids gen_random_uuid() may return
          PriceMills,      \* submitted limit prices, in tenths of a cent
          Quantities,      \* submitted quantities
          InitialBalance,  \* cents of every user when trading starts
          InitialShares,   \* shares of every <<user, symbol>>
          InitialCost      \* their average price in cents, 0 if there are none

ASSUME InputAssumption ==
    /\ PriceMills \subseteq Nat \ {0}
    /\ Quantities \subseteq Nat \ {0}

ASSUME EndowmentAssumption ==
    /\ InitialBalance \in [Users -> Nat]
    /\ InitialShares \in [Users \X Symbols -> Nat]
    /\ InitialCost \in [Users \X Symbols -> Nat]

VARIABLES
    orders,     \* the orders table: a function from the ids of its rows
    issued,     \* ids ever used: a UUID never comes back after a DELETE
    balance,    \* users.balance, in cents
    shares,     \* portfolio_holdings.quantity
    avgCost,    \* portfolio_holdings.avg_buy_price, in cents
    trades      \* the trades table, in the order of its INSERTs

ledgerVars == <<orders, issued, balance, shares, avgCost, trades>>

Trade == [buy: OrderIds, sell: OrderIds, price: Nat, quantity: Nat]

LedgerTypeOK ==
    /\ issued \subseteq OrderIds
    /\ DOMAIN orders \subseteq issued
    /\ orders \in [DOMAIN orders -> OrderRow]
    /\ balance \in [Users -> Int]
    /\ shares \in [Users \X Symbols -> Int]
    /\ avgCost \in [Users \X Symbols -> Nat]
    /\ trades \in Seq(Trade)

LedgerInit ==
    /\ orders = [o \in {} |-> {}]
    /\ issued = {}
    /\ balance = InitialBalance
    /\ shares = InitialShares
    /\ avgCost = InitialCost
    /\ trades = <<>>

-----------------------------------------------------------------------------
(* Submitting.                                                             *)

NewRow(u, s, t, side, price, q) ==
    [user |-> u, symbol |-> s, type |-> t, side |-> side, price |-> price,
     quantity |-> q, filled |-> 0, status |-> "open"]

InsertRow(o, row) ==
    /\ o \in OrderIds \ issued
    /\ orders' = [x \in DOMAIN orders \cup {o} |-> IF x = o THEN row ELSE orders[x]]
    /\ issued' = issued \cup {o}
    /\ UNCHANGED <<balance, shares, avgCost, trades>>

InsertMarket(o, u, s, side, q) ==
    InsertRow(o, NewRow(u, s, "market", side, NoPrice, q))

InsertLimit(o, u, s, side, mills, q) ==
    /\ StoredPrice(mills) > 0
    /\ InsertRow(o, NewRow(u, s, "limit", side, StoredPrice(mills), q))

-----------------------------------------------------------------------------
(* Settling: the transaction of settle(incomingId, restingId).             *)

BuyId(i, r) == IF orders[i].side = "buy" THEN i ELSE r
SellId(i, r) == IF orders[i].side = "buy" THEN r ELSE i

(* Mutant: the rows are not re-checked for being open.                     *)
SettleableUnchecked(i, r) ==
    /\ i # r /\ {i, r} \subseteq DOMAIN orders
    /\ CanMatch(orders[i], orders[r])
    /\ orders[i].user # orders[r].user
    /\ orders[r].price # NoPrice

(* What the transaction re-checks under its row locks.  When it fails, the *)
(* transaction commits or rolls back without having written anything.      *)
Settleable(i, r) ==
    /\ i # r /\ {i, r} \subseteq DOMAIN orders
    /\ IsOpen(orders[i]) /\ IsOpen(orders[r])
    /\ CanMatch(orders[i], orders[r])
    /\ orders[i].user # orders[r].user
    /\ orders[r].price # NoPrice

SellerHas(i, r) ==
    LET seller == orders[SellId(i, r)] IN shares[<<seller.user, seller.symbol>>]

BuyerAffords(i, r) ==
    Affordable(balance[orders[BuyId(i, r)].user], orders[r].price)

PairWants(i, r) == Requested(orders[BuyId(i, r)], orders[SellId(i, r)])

SettleQuantity(i, r) ==
    FillQuantity(orders[BuyId(i, r)], orders[SellId(i, r)],
                 SellerHas(i, r), BuyerAffords(i, r))

(* A side that ran out of shares or of money loses its remainder.          *)
CancelRest(i, r, limit) ==
    SettleQuantity(i, r) < PairWants(i, r) /\ limit <= SettleQuantity(i, r)

(* Mutant: only the seller's UPDATE is made.                               *)
CreditCash(payer, payee, cash) == [balance EXCEPT ![payee] = @ + cash]

MoveCash(payer, payee, cash) ==
    [balance EXCEPT ![payer] = @ - cash, ![payee] = @ + cash]

SettleTrade(i, r) ==
    LET b == BuyId(i, r)
        s == SellId(i, r)
        q == SettleQuantity(i, r)
        p == orders[r].price
        sym == orders[r].symbol
        buyer == orders[b].user
        seller == orders[s].user
    IN  /\ Settleable(i, r)
        /\ q > 0
        /\ balance' = MoveCash(buyer, seller, q * p)
        /\ shares' = [shares EXCEPT ![<<buyer, sym>>] = @ + q,
                                    ![<<seller, sym>>] = @ - q]
        /\ avgCost' = [avgCost EXCEPT
               ![<<buyer, sym>>] = AverageCost(shares[<<buyer, sym>>], @, q, p),
               ![<<seller, sym>>] = IF shares[<<seller, sym>>] = q THEN 0 ELSE @]
        /\ orders' = [orders EXCEPT
               ![b] = AfterFill(@, q, CancelRest(i, r, BuyerAffords(i, r))),
               ![s] = AfterFill(@, q, CancelRest(i, r, SellerHas(i, r)))]
        /\ trades' = Append(trades, [buy |-> b, sell |-> s, price |-> p, quantity |-> q])
        /\ UNCHANGED issued

(* Nothing can execute: the side to blame is closed, sellers first.        *)
SettleUnfillable(i, r) ==
    LET blamed == IF SellerHas(i, r) <= 0 THEN SellId(i, r) ELSE BuyId(i, r)
    IN  /\ Settleable(i, r)
        /\ SettleQuantity(i, r) <= 0
        /\ orders' = [orders EXCEPT ![blamed] = AfterFill(@, 0, TRUE)]
        /\ UNCHANGED <<issued, balance, shares, avgCost, trades>>

-----------------------------------------------------------------------------
(* Cancelling.                                                             *)

(* Mutants of the UPDATE's WHERE: no status filter; only untouched orders. *)
HasAnyStatus(o) == o \in DOMAIN orders
HasUnfilledStatus(o) == o \in DOMAIN orders /\ orders[o].status = "open"

HasOpenStatus(o) == o \in DOMAIN orders /\ orders[o].status \in OpenStatuses

(* cancelOrder of the engine (the remainder of a market order) and of the  *)
(* API (the owner's request).                                              *)
CancelOpen(o) ==
    /\ HasOpenStatus(o)
    /\ orders' = [orders EXCEPT ![o] = Cancelled(@)]
    /\ UNCHANGED <<issued, balance, shares, avgCost, trades>>

(* The delayed order-expiry job of one limit order.                        *)
ExpireLimit(o) ==
    /\ o \in DOMAIN orders
    /\ IsLimit(orders[o])
    /\ CancelOpen(o)

(* The market-close job: every open limit order, in one UPDATE.            *)
MarketClose ==
    /\ orders' = [o \in DOMAIN orders |->
                     IF HasOpenStatus(o) /\ IsLimit(orders[o])
                     THEN Cancelled(orders[o]) ELSE orders[o]]
    /\ UNCHANGED <<issued, balance, shares, avgCost, trades>>

(* Only an operator deletes rows; trades reference orders ON DELETE        *)
(* RESTRICT, so an order that traded stays.                                *)
DeleteOrder(o) ==
    /\ o \in DOMAIN orders
    /\ \A n \in DOMAIN trades : o \notin {trades[n].buy, trades[n].sell}
    /\ orders' = [x \in DOMAIN orders \ {o} |-> orders[x]]
    /\ UNCHANGED <<issued, balance, shares, avgCost, trades>>

-----------------------------------------------------------------------------
Settle(i, r) == SettleTrade(i, r) \/ SettleUnfillable(i, r)

Submit(o) ==
    \E u \in Users, s \in Symbols, side \in Sides, q \in Quantities :
        \/ InsertMarket(o, u, s, side, q)
        \/ \E mills \in PriceMills : InsertLimit(o, u, s, side, mills, q)

LedgerNext ==
    \/ \E o \in OrderIds :
          Submit(o) \/ CancelOpen(o) \/ ExpireLimit(o) \/ DeleteOrder(o)
    \/ \E i, r \in OrderIds : Settle(i, r)
    \/ MarketClose

LedgerSpec == LedgerInit /\ [][LedgerNext]_ledgerVars

-----------------------------------------------------------------------------
(* Safety.                                                                 *)

(* Nobody is ever overdrawn and nobody sells shares they do not own,       *)
(* although nothing is reserved when an order is placed, one user may have *)
(* many open orders, and users.balance carries no CHECK.                   *)
NoOverdraft ==
    /\ \A u \in Users : balance[u] >= 0
    /\ \A h \in Users \X Symbols : shares[h] >= 0

(* An order's status says how much of it is filled, and it never fills     *)
(* beyond its quantity, through any mix of partial fills and cancels.      *)
StatusAgreesWithFill ==
    \A o \in DOMAIN orders :
        LET row == orders[o] IN
        /\ 0 <= row.filled /\ row.filled <= row.quantity
        /\ row.status = "filled" <=> row.filled = row.quantity
        /\ row.status = "partially_filled" => row.filled > 0
        /\ row.status = "open" => row.filled = 0

(* A trade executes at a price both parties accepted: not above the buy    *)
(* limit, not below the sell limit.                                        *)
LimitsRespected ==
    \A n \in DOMAIN trades :
        LET t == trades[n] IN
        /\ {t.buy, t.sell} \subseteq DOMAIN orders
        /\ IsLimit(orders[t.buy]) => t.price <= orders[t.buy].price
        /\ IsLimit(orders[t.sell]) => t.price >= orders[t.sell].price

(* No trade has the same user on both sides.                               *)
NoWashTrade ==
    \A n \in DOMAIN trades :
        orders[trades[n].buy].user # orders[trades[n].sell].user

(* Two orders trade with each other once at most: a settlement closes one  *)
(* of them, so a taker that retries, or a job that runs twice, cannot      *)
(* execute the same pair again.                                            *)
PairTradesOnce ==
    \A m, n \in DOMAIN trades :
        trades[m].buy = trades[n].buy /\ trades[m].sell = trades[n].sell => m = n

(* A column of the trades table, computed from its rows.                   *)
Column(value(_)) == [n \in DOMAIN trades |-> value(trades[n])]

TradesOf(o) == {n \in DOMAIN trades : o \in {trades[n].buy, trades[n].sell}}

TradedQuantity(o) == SumFunctionOnSet(Column(LAMBDA t : t.quantity), TradesOf(o))

(* The audit trail is complete: an order's filled quantity is the sum of   *)
(* its trades.                                                             *)
FillsMatchTrades ==
    \A o \in DOMAIN orders : orders[o].filled = TradedQuantity(o)

BoughtBy(u) == {n \in DOMAIN trades : orders[trades[n].buy].user = u}
SoldBy(u) == {n \in DOMAIN trades : orders[trades[n].sell].user = u}

Paid == Column(LAMBDA t : t.price * t.quantity)
Moved(s) == Column(LAMBDA t : IF orders[t.buy].symbol = s THEN t.quantity ELSE 0)

(* Every user's cash and holdings are what the trades on record make them: *)
(* nothing is created, lost or moved without a trade.                      *)
BooksBalance ==
    \A u \in Users :
        /\ balance[u] = InitialBalance[u]
              + SumFunctionOnSet(Paid, SoldBy(u)) - SumFunctionOnSet(Paid, BoughtBy(u))
        /\ \A s \in Symbols :
              shares[<<u, s>>] = InitialShares[<<u, s>>]
                  + SumFunctionOnSet(Moved(s), BoughtBy(u))
                  - SumFunctionOnSet(Moved(s), SoldBy(u))

(* The average price of a holding lies between the cheapest and the        *)
(* dearest price its owner ever paid, seeded shares included: rounding     *)
(* and sell-outs in between never push it outside.                         *)
PricesPaid(u, s) ==
    {trades[n].price : n \in {m \in DOMAIN trades :
        orders[trades[m].buy].user = u /\ orders[trades[m].buy].symbol = s}}
    \cup (IF InitialShares[<<u, s>>] > 0 THEN {InitialCost[<<u, s>>]} ELSE {})

CostBasisBounded ==
    \A u \in Users, s \in Symbols :
        shares[<<u, s>>] > 0 =>
            /\ \E p \in PricesPaid(u, s) : p <= avgCost[<<u, s>>]
            /\ \E p \in PricesPaid(u, s) : avgCost[<<u, s>>] <= p

-----------------------------------------------------------------------------
(* Action properties.                                                      *)

(* A closed order is final: no later fill, cancel or close touches it.     *)
ClosedIsFinal ==
    [][\A o \in DOMAIN orders \cap DOMAIN orders' :
          orders[o].status \in {"filled", "cancelled"} => orders'[o] = orders[o]]_ledgerVars

(* A settlement always makes progress: it closes one of the two orders.    *)
(* The engine's matching loop terminates because of it.                    *)
ClosesOne(i, r) ==
    orders'[i].status \notin OpenStatuses \/ orders'[r].status \notin OpenStatuses

SettlementCloses ==
    [][\A i, r \in OrderIds : Settle(i, r) => ClosesOne(i, r)]_ledgerVars
=============================================================================
