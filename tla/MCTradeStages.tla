---------------------------- MODULE MCTradeStages ----------------------------
(* Instance of TradeStages for TLC, in a world that moves twice: trades that  *)
(* start well, early, unproven, wide, cheap or on a weekend, up to the         *)
(* handoff; and positions of several plans, opened in the good world only.     *)
EXTENDS TradeStages

\* One minute before and at the open, the end of a trigger's window, 40 and 45 minutes
\* after an entry at either, the close.
MCMinutes == {569, 570, 584, 585, 609, 610, 614, 615, 959, 960}
MCPrices == {1, 8, 10, 11, 13, 14, 160}

Good ==
  [minute |-> 570, bell |-> "weekday", quality |-> "pass", liquidity |-> "good",
   volatility |-> "normal", proof |-> "proven", price |-> 10, atr |-> 2,
   signals |-> Signals \ {"invalidated", "backtest_due", "daily_loss", "reclaiming"},
   gates |-> {"budget", "paper", "broker_ready", "workflow", "execution", "broker",
              "approval"}]

MCWorlds ==
  {Good,
   [Good EXCEPT !.minute = 569],
   [Good EXCEPT !.minute = 569, !.proof = "unproven"],
   [Good EXCEPT !.atr = 4],
   [Good EXCEPT !.price = 1],
   [Good EXCEPT !.minute = 959, !.volatility = "extreme"],
   [Good EXCEPT !.bell = "weekend"]}

\* Bound: positions are opened in the good world, which stays on record as the world
\* of the route that was never asked for.
OpenedInGood == stage \in OpenStages => judged["route"] = Good

\* A plan of the planner's levels, one of one share, one of one share whose R at 160 rounds up to 0.50, one
\* with its target at its stop, one with its stop above its entry.
MCFlatPlans ==
  {[shares |-> 3, entry |-> 10, stop |-> 8, target |-> 14],
   [shares |-> 1, entry |-> 10, stop |-> 8, target |-> 13],
   [shares |-> 1, entry |-> 110, stop |-> 9, target |-> 300],
   [shares |-> 2, entry |-> 10, stop |-> 8, target |-> 8],
   [shares |-> 2, entry |-> 10, stop |-> 11, target |-> 14]}

\* Nineteen trades behind it, good, middling, bad, slipping or in a drawdown; or none,
\* and then a caller that reports twenty or nothing.
Nineteen == [n |-> 19, claimed |-> 0, r |-> 19 * 35, violations |-> 0, slips |-> 0,
             drawdown |-> FALSE, slump |-> FALSE]
MCRecords ==
  {[Nineteen EXCEPT !.n = 0, !.r = 0], [Nineteen EXCEPT !.n = 0, !.r = 0, !.claimed = 20],
   Nineteen, [Nineteen EXCEPT !.r = 0],
   [Nineteen EXCEPT !.violations = 2], [Nineteen EXCEPT !.slips = 3, !.slump = TRUE],
   [Nineteen EXCEPT !.drawdown = TRUE]}

=============================================================================
