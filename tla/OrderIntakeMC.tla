---------------------------- MODULE OrderIntakeMC ----------------------------
(***************************************************************************)
(* A small instance of OrderIntake, before and after Friday's close: a     *)
(* client that submits a sell order three times with one key and changes   *)
(* it in between, and a buyer.  Depending on which of the three gets in,   *)
(* the sell order fills, fills in part, or costs more than the buyer has.  *)
(***************************************************************************)
EXTENDS OrderIntake, TLC

CONSTANTS u1, u2, s1, o1, o2, r1, r2, r3, r4, k1

Sell(mills, q) ==
    [user |-> u1, key |-> k1, symbol |-> s1, type |-> "limit", side |-> "sell",
     mills |-> mills, quantity |-> q]
Buy(q) ==
    [user |-> u2, key |-> k1, symbol |-> s1, type |-> "market", side |-> "buy",
     mills |-> 0, quantity |-> q]

MCUsers == {u1, u2}
MCSymbols == {s1}
MCOrderIds == {o1, o2}
MCRequests == {r1, r2, r3, r4}
MCBody == (r1 :> Sell(10, 2)) @@ (r2 :> Sell(10, 1)) @@ (r3 :> Sell(20, 1)) @@ (r4 :> Buy(1))
MCPriceMills == {10, 20}
MCQuantities == {1, 2}
MCBalance == (u1 :> 0) @@ (u2 :> 1)
MCShares == (<<u1, s1>> :> 2) @@ (<<u2, s1>> :> 0)
MCCost == (<<u1, s1>> :> 1) @@ (<<u2, s1>> :> 0)
=============================================================================
