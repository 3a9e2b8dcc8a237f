------------------------------- MODULE BotsMC -------------------------------
(***************************************************************************)
(* A small instance of Bots: two symbols near the lowest price, windows of *)
(* two prices, and ticks that overlap.                                     *)
(***************************************************************************)
EXTENDS Bots, TLC

CONSTANTS s1, s2

MCDrifts == {-5000, 0}
MCOffsets == {-5000}

Scenario(name, starts, steps, logins, faults) ==
    [strategy |-> name, lives |-> starts, ticks |-> steps, tokens |-> logins, losses |-> faults]

(* Restarts; repeated orders; and, with few failures, overlapping ticks.   *)
MCScenarios ==
    {Scenario("random-market-maker", 2, 1, 3, 1), Scenario("mean-reverter", 1, 2, 2, 1),
     Scenario("volume-bot", 1, 2, 1, 0), Scenario("trend-follower", 1, 3, 1, 0)}

MCDefaultPrices == (s1 :> 10) @@ (s2 :> 30)
=============================================================================
