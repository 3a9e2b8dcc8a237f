-------------------------- MODULE MatchingEngineMC --------------------------
(***************************************************************************)
(* Small instances of MatchingEngine: one symbol, three users.             *)
(***************************************************************************)
EXTENDS MatchingEngine, TLC

CONSTANTS u1, u2, u3, s1, o1, o2, o3, w1, w2

In(u, type, side, mills, q) ==
    [user |-> u, symbol |-> s1, type |-> type, side |-> side, mills |-> mills, quantity |-> q]

MCUsers == {u1, u2, u3}
MCSymbols == {s1}
MCOrderIds == {o1, o2, o3}
MCWorkers == {w1, w2}
TwoOrders == {o1, o2}
OneWorker == {w1}
MCPriceMills == {10, 20}
MCQuantities == {1, 2}
MCBalance == (u1 :> 0) @@ (u2 :> 3) @@ (u3 :> 9)
MCShares == (<<u1, s1>> :> 3) @@ (<<u2, s1>> :> 1) @@ (<<u3, s1>> :> 0)
MCCost == (<<u1, s1>> :> 1) @@ (<<u2, s1>> :> 1) @@ (<<u3, s1>> :> 0)

MCInputs ==
    {In(u1, "limit", "sell", 10, 2), In(u1, "limit", "sell", 20, 1),
     In(u2, "limit", "sell", 10, 1), In(u2, "limit", "buy", 20, 2),
     In(u3, "market", "buy", 0, 2)}

FewInputs ==
    {In(u1, "limit", "sell", 10, 2), In(u2, "limit", "buy", 20, 1),
     In(u3, "market", "buy", 0, 2)}

CrashInputs ==
    {In(u1, "limit", "sell", 10, 2), In(u3, "limit", "buy", 10, 1), In(u3, "market", "buy", 0, 1)}

None == {}

Symmetry == Permutations(MCOrderIds) \cup Permutations(MCWorkers)
OrderSymmetry == Permutations(MCOrderIds)
TwoOrderSymmetry == Permutations(TwoOrders) \cup Permutations(MCWorkers)
=============================================================================
