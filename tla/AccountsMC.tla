----------------------------- MODULE AccountsMC -----------------------------
(***************************************************************************)
(* Small instances of Accounts: plans of sign-ins with two addresses and   *)
(* two Google identities, and one of codes sent to and entered by one user.*)
(***************************************************************************)
EXTENDS Accounts, TLC

CONSTANTS e1, e2, p1, p2, g1, g2, a1, a2

Ask(kind, email, password, google, verified, action) ==
    [kind |-> kind, email |-> email, password |-> password,
     google |-> google, verified |-> verified, action |-> action]

GoogleAsk(g, e, verified) == Ask("google", e, p1, g, verified, None)
OtpAsk(kind, action) == Ask(kind, e1, p1, g1, TRUE, action)

MCAsks ==
    <<Ask("register", e1, p1, g1, TRUE, None),
      Ask("login", e1, p1, g1, TRUE, None), Ask("login", e1, p2, g1, TRUE, None),
      GoogleAsk(g1, e1, TRUE), GoogleAsk(g2, e1, TRUE), GoogleAsk(g1, e2, TRUE),
      GoogleAsk(g2, e1, FALSE),
      OtpAsk("send", a1), OtpAsk("send", a2),
      OtpAsk("verify", None), OtpAsk("verify", a1), OtpAsk("verify", None)>>

(* A password and Google for one address; a second Google identity takes   *)
(* an account over while the first has moved to another address; a code    *)
(* replaced, a code guessed, with a call that throws; and with none, two   *)
(* codes and two verifications, one code and three.                        *)
ThrowingPlans == {{1, 2, 4, 5}, {1, 3, 6, 7}, {4, 5, 6, 7}, {1, 8, 9, 10}, {1, 8, 10, 11}}
MCPlans == ThrowingPlans \cup {{1, 8, 9, 10, 11}, {1, 8, 10, 11, 12}}
MCMaxFaults == [p \in MCPlans |-> IF p \in ThrowingPlans THEN 1 ELSE 0]
=============================================================================
