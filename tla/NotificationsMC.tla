-------------------------- MODULE NotificationsMC --------------------------
(***************************************************************************)
(* A small instance of Notifications: a one-time password, a bot's trade   *)
(* confirmation, and a daily summary that a retried market close asks for  *)
(* twice.  One process runs two jobs at once.                              *)
(***************************************************************************)
EXTENDS Notifications, TLC

CONSTANTS otp1, bot1, day1, day2, order1, userDay, p1, w1, w2

MCCalls == {otp1, bot1, day1, day2}
MCKind ==
    (otp1 :> "otp-email") @@ (bot1 :> "trade-confirmation") @@
    (day1 :> "daily-pnl-summary") @@ (day2 :> "daily-pnl-summary")
MCSubject == (bot1 :> order1) @@ (day1 :> userDay) @@ (day2 :> userDay)
MCSynthetic == {bot1}
MCProcesses == {p1}
MCWorkers == {w1, w2}
MCProcessOf == (w1 :> p1) @@ (w2 :> p1)
MCKeep == [completed |-> 1, failed |-> 1]
=============================================================================
