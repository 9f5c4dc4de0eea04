----------------------------- MODULE MCTradeNow -----------------------------
(* Instance of TradeNow for TLC. *)
EXTENDS TradeNow, TLC

CONSTANTS w1, w2

Env(broker, autonomous, keys) ==
  [broker |-> broker, autonomous |-> autonomous, keys |-> keys]

\* Everything granted, and each grant missing.
OneMissing == {Env(TRUE, TRUE, TRUE), Env(FALSE, TRUE, TRUE),
               Env(TRUE, FALSE, TRUE), Env(TRUE, TRUE, FALSE)}

Set(user, auto, mode) == [user |-> user, auto |-> auto, mode |-> mode]

Order(route) == [route |-> route, dry |-> FALSE, approved |-> TRUE,
                 passed |-> TRUE]

\* The modes, and the toggles off.
EveryMode == {Set(TRUE, TRUE, "paper"), Set(TRUE, TRUE, "live"),
              Set(FALSE, FALSE, "paper")}

\* A manual order, an autonomous one, and one without each of its merits.
MixedOrders ==
  {Order("manual"), Order("autonomous"),
   [Order("manual") EXCEPT !.approved = FALSE],
   [Order("autonomous") EXCEPT !.passed = FALSE],
   [Order("manual") EXCEPT !.dry = TRUE]}

WorkerSymmetry == Permutations({w1, w2})
=============================================================================
