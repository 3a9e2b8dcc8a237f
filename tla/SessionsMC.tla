----------------------------- MODULE SessionsMC -----------------------------
(***************************************************************************)
(* A small instance of Sessions: one account, a bot whose ticks overlap, a *)
(* second instance of that bot, and a browser.                             *)
(***************************************************************************)
EXTENDS Sessions, TLC

CONSTANTS u1, b1, b2, web, q1, q2, q3

MCClients == {b1, b2, web}
MCUserOf == [c \in MCClients |-> u1]
MCBots == {b1, b2}
MCTicks == {q1, q2, q3}
MCBotOf == (q1 :> b1) @@ (q2 :> b1) @@ (q3 :> b2)
MCUsers == {u1}
=============================================================================
