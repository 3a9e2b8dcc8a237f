------------------------------ MODULE Exchange ------------------------------
(***************************************************************************)
(* What the matching engine promises, without Redis, jobs, locks or        *)
(* workers: orders rest in order of arrival, and a trade is always with    *)
(* the best order that rests at that moment, by price and then by arrival, *)
(* skipping the taker's own.  MatchingEngine implements it.                *)
(***************************************************************************)
EXTENDS Ledger

VARIABLE rank   \* the arrival number of every order that rests

exchangeVars == <<ledgerVars, rank>>

Resting == DOMAIN rank

Counterparty(i, o) ==
    /\ o \in DOMAIN orders
    /\ IsOpen(orders[o])
    /\ orders[o].symbol = orders[i].symbol
    /\ orders[o].side # orders[i].side
    /\ orders[o].user # orders[i].user

Cheaper(i, p, q) == IF orders[i].side = "buy" THEN p < q ELSE p > q

(* Price-time priority among the orders that rest.                         *)
Best(i, r) ==
    \A o \in Resting \ {r} :
        Counterparty(i, o) =>
            \/ Cheaper(i, orders[r].price, orders[o].price)
            \/ orders[r].price = orders[o].price /\ rank[r] < rank[o]

Match(i, r) ==
    /\ r \in Resting
    /\ Settle(i, r)
    /\ Best(i, r)
    /\ UNCHANGED rank

(* An order comes to rest behind all that rest already.                    *)
Rest(o) ==
    /\ o \in DOMAIN orders /\ IsLimit(orders[o])
    /\ o \notin Resting
    /\ DOMAIN rank' = Resting \cup {o}
    /\ \A x \in Resting :
          /\ rank'[x] = rank[x]
          /\ orders[x].symbol = orders[o].symbol => rank[x] < rank'[o]
    /\ UNCHANGED ledgerVars

(* Only a closed order ever leaves.                                        *)
Leave(o) ==
    /\ o \in Resting
    /\ ~IsOpen(orders[o])
    /\ rank' = [x \in Resting \ {o} |-> rank[x]]
    /\ UNCHANGED ledgerVars

ExchangeInit == LedgerInit /\ rank = [o \in {} |-> 0]

ExchangeNext ==
    \/ \E o \in OrderIds : (Submit(o) \/ CancelOpen(o)) /\ UNCHANGED rank
    \/ MarketClose /\ UNCHANGED rank
    \/ \E o \in OrderIds : Rest(o) \/ Leave(o)
    \/ \E i, r \in OrderIds : Match(i, r)

ExchangeSpec == ExchangeInit /\ [][ExchangeNext]_exchangeVars
=============================================================================
