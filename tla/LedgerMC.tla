------------------------------ MODULE LedgerMC ------------------------------
(***************************************************************************)
(* A small instance of Ledger: one seller short of shares, one buyer short *)
(* of money, and prices that round to the same or to different cents.      *)
(***************************************************************************)
EXTENDS Ledger, TLC

CONSTANTS u1, u2, s1, o1, o2, o3

MCUsers == {u1, u2}
MCSymbols == {s1}
MCOrderIds == {o1, o2, o3}
MCPriceMills == {4, 14, 15}
MCQuantities == {1, 3}
MCBalance == (u1 :> 1) @@ (u2 :> 5)
MCShares == (<<u1, s1>> :> 2) @@ (<<u2, s1>> :> 1)
MCCost == (<<u1, s1>> :> 2) @@ (<<u2, s1>> :> 1)

Symmetry == Permutations(MCOrderIds)
=============================================================================
