----------------------------- MODULE StageRules -----------------------------
(***************************************************************************)
(* The rules of the trading stages (services/session_router,               *)
(* workflow_router, strategy_eligibility, trigger_monitoring,              *)
(* execution_planner, position_monitoring, close_position,                 *)
(* post_trade_evaluation and learning_loop): pure functions of a request,  *)
(* most of them a list of conditions of which the first that holds decides. *)
(*                                                                         *)
(* A request describes the world as its caller saw it:                     *)
(*   minute      minute of the day in New York                             *)
(*   bell        the broker's clock: "open", or no word and a day          *)
(*   quality, liquidity, volatility, proof   as in the request models,     *)
(*               values that every rule treats alike taken together        *)
(*   price, atr  of the share, integers                                    *)
(*   signals     the observations that hold                                *)
(*   gates       the flags of the account and of Master Admin that are set *)
(* The asset is a stock, the horizon the day: the scope checks pass.       *)
(***************************************************************************)
EXTENDS Integers, Sequences, FiniteSets

CONSTANTS
  MaxRisk,        \* dollars that a trade may lose: equity * max_risk_per_trade_percent
  MaxNotional,    \* dollars that a trade may cost: equity * max_position_size_percent
  AtrMultiple,    \* atr_stop_multiplier
  TargetRR        \* target_reward_risk

ASSUME StageAssumption ==
  /\ MaxRisk \in Nat /\ MaxNotional \in Nat
  /\ AtrMultiple \in Nat \ {0} /\ TargetRR \in Nat \ {0}

Bells == {"open", "weekday", "weekend"}
Qualities == {"pass", "warn", "fail"}
Liquidities == {"good", "poor", "unknown"}
Volatilities == {"normal", "extreme"}
Proofs == {"proven", "unproven", "blocked"}
Signals ==
  {"spread", "slippage", "reward", "rvol", "vwap", "reclaiming", "strength", "risk_on",
   "catalyst", "volume", "trigger", "invalidated", "urgent", "backtest_due", "momentum",
   "daily_loss"}
Gates ==
  {"budget", "paper", "live", "broker_ready", "workflow", "execution", "broker", "approval",
   "stop", "force"}

Sessions == {"pre_market", "market_open", "post_market", "closed"}
Paths == {"no_trade", "observe_only", "paper_only", "baseline", "backtest_queue",
          "adjusted_research"}
Eligibilities == {"eligible", "paper_only", "research_only", "blocked"}
TriggerStates == {"not_ready", "armed", "fired", "expired", "missed", "invalidated", "blocked"}
Actions == {"hold", "watch", "reduce", "exit_review", "blocked"}
ReviewActions == {"hold", "reduce_review", "close_review", "blocked"}
Labels == {"target_hit", "slippage_issue", "thesis_invalidated", "win", "loss", "flat",
           "rule_violation"}
Lessons == {"review_needed", "demote_to_research", "demote_to_paper", "keep_monitoring",
            "promote_candidate"}

\* What the first rule that applies says; the last rule of a list always applies.
FirstOf(rules) ==
  rules[CHOOSE i \in DOMAIN rules : rules[i][1] /\ \A j \in 1 .. i - 1 : ~ rules[j][1]][2]

\* What the last rule that applies says: each assignment overrides the ones before it.
LastOf(rules) ==
  rules[CHOOSE i \in DOMAIN rules :
          rules[i][1] /\ \A j \in i + 1 .. Len(rules) : ~ rules[j][1]][2]

\* a / b in units of 1 / unit, to the nearest whole number.  What lies halfway goes up;
\* in the code its binary fraction decides.
Rounded(a, b, unit) == (2 * unit * a + b) \div (2 * b)

All(signals, w) == signals \subseteq w.signals
Has(s, w) == s \in w.signals
On(g, w) == g \in w.gates

----------------------------------------------------------------------------
(* Before the trade *)

\* The session of the moment: the broker's clock when it says open, else the
\* hours of a weekday, each interval closed below and open above.
SessionOf(w) ==
  FirstOf(<<
    <<w.bell = "open", "market_open">>,
    <<w.bell = "weekend", "closed">>,
    <<w.minute \in 240 .. 569, "pre_market">>,
    <<w.minute \in 570 .. 959, "market_open">>,
    <<w.minute \in 960 .. 1199, "post_market">>,
    <<TRUE, "closed">> >>)

\* The workflow for a session.
PathFor(session, w) ==
  LET open == session = "market_open"
      orObserve == IF On("paper", w) THEN "paper_only" ELSE "observe_only"
  IN FirstOf(<<
       <<w.quality = "fail", "no_trade">>,
       <<~ On("budget", w), "no_trade">>,
       <<~ On("paper", w) /\ ~ On("live", w), "observe_only">>,
       <<w.liquidity = "poor", "observe_only">>,
       <<open /\ ~ On("broker_ready", w), "observe_only">>,
       <<w.volatility = "extreme", IF w.proof = "proven" THEN orObserve ELSE "no_trade">>,
       <<open /\ w.proof = "proven" /\ w.quality = "pass"
              /\ All({"urgent", "spread", "slippage"}, w), "baseline">>,
       <<open /\ w.proof = "unproven", orObserve>>,
       <<session = "pre_market" /\ w.proof = "unproven", "backtest_queue">>,
       <<TRUE, "adjusted_research">> >>)

\* The routes whose workflow_mode is blocked.
BlockedPath(path) == path \in {"no_trade", "observe_only"}

\* Fault: liquidity is not among the requirements.
MomentumWithoutLiquidity(w) ==
  /\ w.quality = "pass"
  /\ All({"rvol", "strength", "risk_on", "spread", "reward"}, w)
  /\ Has("vwap", w) \/ Has("reclaiming", w)
  /\ Has("catalyst", w) \/ Has("volume", w)

\* What regime_aware_momentum asks of the market and the features.
MomentumRequirements(w) ==
  /\ w.quality = "pass" /\ w.liquidity = "good"
  /\ All({"rvol", "strength", "risk_on", "spread", "reward"}, w)
  /\ Has("vwap", w) \/ Has("reclaiming", w)
  /\ Has("catalyst", w) \/ Has("volume", w)

\* May a strategy trade, under a session and a route decided before?
Eligibility(session, path, w) ==
  LET proven == w.proof = "proven"
      hardBlock == \/ w.quality = "fail" \/ ~ On("budget", w) \/ w.proof = "blocked"
                   \/ ~ All({"spread", "reward"}, w)
      adjusted == path \in {"adjusted_research", "backtest_queue"}
      otherwise(no) == IF On("paper", w) THEN "paper_only" ELSE no
  IN FirstOf(<<
       <<hardBlock, "blocked">>,
       <<session = "market_open" /\ ~ proven, otherwise("blocked")>>,
       <<path = "baseline" /\ (~ proven \/ w.quality # "pass" \/ w.liquidity # "good"),
         "blocked">>,
       <<adjusted /\ Has("backtest_due", w), "research_only">>,
       <<adjusted /\ ~ proven, otherwise("research_only")>>,
       <<~ Has("momentum", w), "research_only">>,
       <<~ MomentumRequirements(w), "blocked">>,
       <<proven, "eligible">>,
       <<TRUE, otherwise("research_only")>> >>)

\* The state of a trigger that expires at a minute.
TriggerState(status, expires, w) ==
  FirstOf(<<
    <<Has("invalidated", w), "invalidated">>,
    <<w.minute >= expires, "expired">>,
    <<status \in {"research_only", "blocked"}, "blocked">>,
    <<status = "paper_only", "armed">>,
    <<w.quality = "pass" /\ All({"spread", "volume", "trigger", "vwap"}, w), "fired">>,
    <<Has("trigger", w) /\ ~ Has("vwap", w) /\ ~ Has("volume", w), "missed">>,
    <<w.quality # "fail" /\ Has("spread", w), "armed">>,
    <<TRUE, "not_ready">> >>)

----------------------------------------------------------------------------
(* The plan and its handoff *)

RiskPerShare(w) == AtrMultiple * w.atr

\* Fault: the cap on the cost rounds up.
SharesRoundedUp(w) ==
  LET byRisk == IF RiskPerShare(w) > 0 THEN MaxRisk \div RiskPerShare(w) ELSE 0
  IN IF byRisk * w.price > MaxNotional THEN MaxNotional \div w.price + 1 ELSE byRisk

\* Shares to buy: what the risk allows, unless that costs too much.
Shares(w) ==
  LET byRisk == IF RiskPerShare(w) > 0 THEN MaxRisk \div RiskPerShare(w) ELSE 0
  IN IF byRisk * w.price > MaxNotional /\ w.price > 0 THEN MaxNotional \div w.price
     ELSE byRisk

\* The gates that let the planner plan.
PlanGates(w) ==
  /\ {"budget", "workflow", "execution", "broker", "paper"} \subseteq w.gates
  /\ ~ On("stop", w) /\ ~ On("force", w)
  /\ On("live", w) => On("approval", w)

\* The limit of a buy: none for a market order, else the ask, where the request has
\* one, else the price.  No ask is compared with the price or the sizing.
NoLimit == 0
Limits(asks, w) == {NoLimit, w.price} \cup asks

\* decide_plan_v1: the plan is made and numbered in any case; size, stop and target
\* follow the price, whatever the limit; readiness keeps the gates it was made under.
PlanFor(trigger, limit, w) ==
  [status |-> IF /\ trigger = "fired" /\ PlanGates(w)
                 /\ w.price > 0 /\ w.atr > 0 /\ Has("spread", w) /\ Shares(w) > 0
              THEN "planned" ELSE "blocked",
   shares |-> Shares(w),
   limit |-> limit,
   reference |-> w.price,
   stop |-> w.price - RiskPerShare(w),
   target |-> w.price + TargetRR * RiskPerShare(w),
   readiness |-> w.gates]

\* The gates that let a plan through to the precheck.
HandoffGates(gates) ==
  /\ {"workflow", "execution", "paper"} \subseteq gates
  /\ gates \cap {"stop", "force", "live"} = {}

\* Fault: the gates of the plan are not read again.
HandoffTrusts(plan, w) ==
  IF plan.status = "planned" /\ plan.shares > 0 /\ HandoffGates(plan.readiness)
  THEN "passed" ELSE "blocked"

\* precheck_handoff: the plan as its caller carried it, its gates and today's.
Handoff(plan, w) ==
  IF /\ plan.status = "planned" /\ plan.shares > 0
     /\ HandoffGates(plan.readiness) /\ HandoffGates(w.gates)
  THEN "passed" ELSE "blocked"

----------------------------------------------------------------------------
(* The open position.  p has shares, entry, stop, target and the minute opened. *)

\* The R multiple of a price, in hundredths; none without a stop below the entry.
RMultiple(p, price) ==
  IF p.stop > 0 /\ p.entry > p.stop THEN Rounded(price - p.entry, p.entry - p.stop, 100)
  ELSE 0

ThesisFails(w) == {"vwap", "volume", "strength"} \ w.signals

\* Fault: the minute at which time is up is still in time.
AdviceOfTimeLate(risk, p, minutes, w) ==
  FirstOf(<<
    <<minutes > 45 /\ RMultiple(p, w.price) < 50, "exit_review">>,
    <<minutes >= 40 /\ ThesisFails(w) = {} /\ ~ Has("invalidated", w) /\ risk = "hold",
      "watch">>,
    <<TRUE, risk>> >>)

\* The time stop, over what the risk monitor says.
AdviceOfTime(risk, p, minutes, w) ==
  FirstOf(<<
    <<minutes >= 45 /\ RMultiple(p, w.price) < 50, "exit_review">>,
    <<minutes >= 40 /\ ThesisFails(w) = {} /\ ~ Has("invalidated", w) /\ risk = "hold",
      "watch">>,
    <<TRUE, risk>> >>)

\* _risk_monitor: what it finds later overrides what it found before.
AdviceOfRisk(p, w) ==
  LastOf(<<
    <<TRUE, "hold">>,
    <<On("stop", w), "blocked">>,
    <<On("force", w) \/ Has("daily_loss", w), "exit_review">>,
    <<w.price * p.shares > MaxNotional, "reduce">>,
    <<w.price <= p.stop, "exit_review">>,
    <<w.price >= p.target \/ RMultiple(p, w.price) >= 150, "reduce">> >>)

\* decide_position_monitoring_v1: the recommended action.
Advice(p, minutes, w) ==
  LET timed == AdviceOfTime(AdviceOfRisk(p, w), p, minutes, w)
  IN FirstOf(<<
       <<Has("invalidated", w), "exit_review">>,
       <<Cardinality(ThesisFails(w)) >= 2 /\ timed = "hold", "watch">>,
       <<TRUE, timed>> >>)

ReducedShares(p) == (p.shares * 50) \div 100

\* Does a gate stand in the way of a close?
CloseBlocked(w) ==
  \/ On("live", w) \/ (On("stop", w) /\ ~ On("force", w))
  \/ ~ ({"workflow", "execution", "paper", "broker"} \subseteq w.gates)

\* Fault: half of one share is reduced.
ReviewActionAnyReduce(advice, p, w) ==
  FirstOf(<<
    <<On("force", w), "close_review">>,
    <<advice \in {"hold", "watch"}, "hold">>,
    <<advice = "reduce", "reduce_review">>,
    <<advice = "exit_review", "close_review">>,
    <<TRUE, "blocked">> >>)

\* Master Admin's force close first, then the advice.
ReviewAction(advice, p, w) ==
  FirstOf(<<
    <<On("force", w), "close_review">>,
    <<advice \in {"hold", "watch"}, "hold">>,
    <<advice = "reduce" /\ ReducedShares(p) > 0, "reduce_review">>,
    <<advice = "exit_review", "close_review">>,
    <<TRUE, "blocked">> >>)

\* decide_close_review_v1
ReviewOf(advice, p, w) ==
  LET action == ReviewAction(advice, p, w)
  IN [action |-> action,
      shares |-> CASE action = "reduce_review" -> ReducedShares(p)
                   [] action = "close_review" -> p.shares
                   [] OTHER -> 0,
      status |-> IF CloseBlocked(w) \/ action = "blocked" THEN "blocked" ELSE "ready"]

----------------------------------------------------------------------------
(* After the trade *)

Distance(a, b) == IF a < b THEN b - a ELSE a - b

\* The label of a closed paper position: its planned exit is its target, and its
\* reason for the exit is none that the labels know.  Slippage fails beyond 0.3 %.
LabelOf(p, exit) ==
  FirstOf(<<
    <<p.stop <= 0 \/ p.entry <= p.stop \/ exit <= 0, "rule_violation">>,
    <<1000 * Distance(exit, p.target) > 3 * p.target, "slippage_issue">>,
    <<exit <= p.stop, "thesis_invalidated">>,
    <<exit > p.entry /\ RMultiple(p, exit) >= 25, "win">>,
    <<exit < p.entry /\ RMultiple(p, exit) <= -25, "loss">>,
    <<TRUE, "flat">> >>)

\* What is learnt of it: the return, kept here in whole hundredths of R, none of a
\* position without a risk; no violation, no slippage.
OutcomeOf(p, exit) ==
  [r |-> IF p.entry > p.stop THEN (100 * (exit - p.entry)) \div (p.entry - p.stop) ELSE 0,
   violation |-> 0, slip |-> 0]

\* The record of a strategy with one more outcome: how many trades, the sum of their
\* returns, and how many broke a rule or slipped.
Learned(record, o) ==
  [record EXCEPT !.n = @ + 1, !.r = @ + o.r,
                 !.violations = @ + o.violation, !.slips = @ + o.slip]

\* The sample: what the caller says it is, if it says anything.
Sample(record) == IF record.claimed > 0 THEN record.claimed ELSE record.n

\* A rate, in units of 1 / 10000; the mean return, in thousandths of R.
Rate(count, record) == IF record.n > 0 THEN Rounded(count, record.n, 10000) ELSE 0
MeanR(record) == IF record.n > 0 THEN Rounded(record.r, record.n, 10) ELSE 0

TooOften(count, percent, record) == Rate(count, record) > 100 * percent

\* _drift
Drift(record) ==
  \/ record.drawdown
  \/ record.slump /\ Sample(record) >= 10
  \/ TooOften(record.violations, 10, record) \/ TooOften(record.slips, 15, record)

\* Fault: a drawdown overrides the demotion to research.
LessonDrawdownFirst(record) ==
  FirstOf(<<
    <<record.n = 0, "review_needed">>,
    <<record.drawdown, "demote_to_paper">>,
    <<\/ TooOften(record.violations, 10, record) \/ TooOften(record.slips, 15, record)
      \/ Sample(record) >= 20 /\ MeanR(record) < 0, "demote_to_research">>,
    <<Sample(record) >= 20 /\ MeanR(record) >= 350 /\ ~ Drift(record), "promote_candidate">>,
    <<TRUE, "keep_monitoring">> >>)

\* decide_learning_loop_v1: a demotion before a promotion.
LessonOf(record) ==
  FirstOf(<<
    <<record.n = 0, "review_needed">>,
    <<\/ TooOften(record.violations, 10, record) \/ TooOften(record.slips, 15, record)
      \/ Sample(record) >= 20 /\ MeanR(record) < 0, "demote_to_research">>,
    <<record.drawdown, "demote_to_paper">>,
    <<Sample(record) >= 20 /\ MeanR(record) >= 350 /\ ~ Drift(record), "promote_candidate">>,
    <<TRUE, "keep_monitoring">> >>)

=============================================================================
