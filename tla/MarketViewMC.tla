---------------------------- MODULE MarketViewMC ----------------------------
(***************************************************************************)
(* A small instance of MarketView: two symbols, two buy orders and a sell  *)
(* order of which the API reads one to a side, a tape of two trades, one   *)
(* socket to an address and two loads at once.                             *)
(***************************************************************************)
EXTENDS MarketView, TLC

CONSTANTS s1, s2, o1, o2, o3

MCSideOf == (o1 :> "buy") @@ (o2 :> "sell") @@ (o3 :> "buy")
MCRank == (o1 :> 1) @@ (o2 :> 1) @@ (o3 :> 2)

Scenario(made, moved, chosen, placed, failed) ==
    [trades |-> made, changes |-> moved, selections |-> chosen, orders |-> placed, faults |-> failed]

(* The tape under trades, selections and faults; the book under changes.   *)
MCScenarios == {Scenario(3, 0, 1, 0, 1), Scenario(2, 0, 2, 1, 0), Scenario(0, 2, 1, 0, 1),
                Scenario(0, 3, 0, 1, 0)}
=============================================================================
