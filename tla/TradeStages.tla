----------------------------- MODULE TradeStages -----------------------------
(***************************************************************************)
(* One trade on its way through the stages: session, route, eligibility,   *)
(* trigger, plan, precheck handoff, position, review, evaluation, lesson.  *)
(*                                                                         *)
(* Every stage is an endpoint of its own.  It is called with what the      *)
(* stages before it answered, carried by its caller unchanged, and with    *)
(* the market, the account and the gates as they are now; between two      *)
(* calls they move.  No stage reads what an earlier one decided from       *)
(* anywhere but its request, and none refuses because an earlier one       *)
(* blocked, unless its own rules say so.                                   *)
(***************************************************************************)
EXTENDS StageRules

CONSTANTS
  Worlds,         \* the worlds a trade may start in
  Prices, Atrs,   \* quotes, average true ranges
  Minutes,        \* the minutes of the day at which something is done
  Asks,           \* asks a planning request may carry
  FlatPlans,      \* plans that may be given to the paper simulator
  TriggerMinutes, \* expires_at - created_at of a trigger
  Records,        \* the outcomes a strategy may have behind it
  MaxMoves        \* bound: how often the world moves

World ==
  [minute : Minutes, bell : Bells, quality : Qualities, liquidity : Liquidities,
   volatility : Volatilities, proof : Proofs, price : Prices, atr : Atrs,
   signals : SUBSET Signals, gates : SUBSET Gates]

FlatPlan == [shares : Nat, entry : Nat, stop : Nat, target : Nat]

\* claimed: the sample size that the caller reports, 0 if it reports none.
Record == [n : Nat, claimed : Nat, r : Int, violations : Nat, slips : Nat,
           drawdown : BOOLEAN, slump : BOOLEAN]

ASSUME TradeAssumption ==
  /\ Minutes \subseteq Nat /\ Prices \subseteq Nat /\ Atrs \subseteq Nat
  /\ TriggerMinutes \in Nat /\ MaxMoves \in Nat
  /\ Asks \subseteq Nat /\ FlatPlans \subseteq FlatPlan
  /\ Worlds \subseteq World /\ Records \subseteq Record

VARIABLES
  world,      \* the market, the account, the gates
  moves,      \* how often the world may still move
  stage,      \* the last stage that answered
  file,       \* what the stages answered, carried from call to call
  position,   \* the open or closed position
  judged,     \* history: the world each stage judged
  past        \* the record of the strategy, this trade included

vars == <<world, moves, stage, file, position, judged, past>>

Stages == {"none", "session", "route", "eligibility", "trigger", "plan", "handoff",
           "position", "advice", "review", "closed", "label", "lesson"}

\* The stages whose view of the world the properties speak of.
Judges == {"route", "eligibility", "trigger", "plan", "handoff", "advice", "review"}

NoPlan == [status |-> "none", shares |-> 0, limit |-> NoLimit, reference |-> 0, stop |-> 0, target |-> 0,
           readiness |-> {}]
NoRecord == [n |-> 0, claimed |-> 0, r |-> 0, violations |-> 0, slips |-> 0, drawdown |-> FALSE,
             slump |-> FALSE]
NoReview == [action |-> "none", shares |-> 0, status |-> "none"]
\* A file for a trigger candidate made at a minute.
NewFile(minute) ==
  [created |-> minute, session |-> "none", path |-> "none", eligibility |-> "none",
   trigger |-> "none", plan |-> NoPlan, handoff |-> "none",
   advice |-> "none", review |-> NoReview, label |-> "none", lesson |-> "none"]
NoPosition == [shares |-> 0, entry |-> 0, stop |-> 0, target |-> 0, opened |-> 0, exit |-> 0]

\* The stages of a position.
OpenStages == {"position", "advice", "review", "closed", "label", "lesson"}

\* Every answer is one that its stage can give, no share is sold that was not bought, and
\* a position has an entry, a stop and a target (the planner itself plans stops below 0).
StagesTypeOK ==
  /\ world \in World /\ moves \in 0 .. MaxMoves
  /\ stage \in Stages
  /\ file.session \in Sessions \cup {"none"}
  /\ file.path \in Paths \cup {"none"}
  /\ file.eligibility \in Eligibilities \cup {"none"}
  /\ file.trigger \in TriggerStates \cup {"none"}
  /\ file.plan.status \in {"none", "planned", "blocked"} /\ file.plan.shares \in Nat
  /\ file.handoff \in {"none", "passed", "blocked"}
  /\ position \in [shares : Nat, entry : Nat, stop : Nat, target : Nat, opened : Nat,
                   exit : Nat]
  /\ stage \in OpenStages =>
       position.shares > 0 /\ position.entry > 0 /\ position.stop > 0 /\ position.target > 0
  /\ file.advice \in Actions \cup {"none"}
  /\ file.review.action \in ReviewActions \cup {"none"}
  /\ file.review.shares \in 0 .. position.shares
  /\ file.review.action \in {"reduce_review", "close_review"} => file.review.shares > 0
  /\ file.label \in Labels \cup {"none"}
  /\ file.lesson \in Lessons \cup {"none"}

Init ==
  /\ world \in Worlds
  /\ moves = MaxMoves
  /\ stage = "none"
  /\ file = NewFile(world.minute)
  /\ position = NoPosition
  /\ judged = [j \in Judges |-> world]
  /\ past = NoRecord

----------------------------------------------------------------------------
(* The world moves *)

Toggled(s, set) == IF s \in set THEN set \ {s} ELSE set \cup {s}

Drifts(w) ==
  {[w EXCEPT !.minute = m] : m \in {n \in Minutes : n > w.minute}}
  \cup {[w EXCEPT !.bell = b] : b \in {"open", "weekday"}}
  \cup {[w EXCEPT !.quality = q] : q \in Qualities}
  \cup {[w EXCEPT !.liquidity = l] : l \in Liquidities}
  \cup {[w EXCEPT !.volatility = v] : v \in Volatilities}
  \cup {[w EXCEPT !.proof = p] : p \in Proofs}
  \cup {[w EXCEPT !.price = p] : p \in Prices}
  \cup {[w EXCEPT !.atr = a] : a \in Atrs}
  \cup {[w EXCEPT !.signals = Toggled(s, @)] : s \in Signals}
  \cup {[w EXCEPT !.gates = Toggled(g, @)] : g \in Gates}

\* Bound: the world moves only between two stages that judge it.
WorldMoves ==
  /\ stage \notin {"none", "closed", "label", "lesson"} /\ file.handoff # "blocked"
  /\ moves > 0 /\ moves' = moves - 1
  /\ world' \in Drifts(world) \ {world}
  /\ UNCHANGED <<stage, file, position, judged, past>>

----------------------------------------------------------------------------
(* The stages *)

\* A stage answers: it follows one of the stages named, and its answer joins the file.
Answers(after, s, field, answer) ==
  /\ stage \in after
  /\ stage' = s
  /\ file' = [file EXCEPT ![field] = answer]
  /\ judged' = [j \in Judges |-> IF j = s THEN world ELSE judged[j]]
  /\ UNCHANGED <<world, moves, past>>

Stay == UNCHANGED position

EvaluateSession == Answers({"none"}, "session", "session", SessionOf(world)) /\ Stay

\* The router's request knows neither a closed market nor blocked proof: it is refused.
RouteNextWorkflow ==
  /\ file.session # "closed" /\ world.proof # "blocked"
  /\ Answers({"session"}, "route", "path", PathFor(file.session, world)) /\ Stay

CheckStrategyEligibility ==
  Answers({"route"}, "eligibility", "eligibility",
          Eligibility(file.session, file.path, world)) /\ Stay

\* A trigger is monitored until it fires, or for as long as its caller likes.
EvaluateTrigger ==
  /\ stage = "trigger" => file.trigger # "fired"
  /\ Answers({"eligibility", "trigger"}, "trigger", "trigger",
             TriggerState(file.eligibility, file.created + TriggerMinutes, world)) /\ Stay

PlanExecution ==
  \E limit \in Limits(Asks, world) :
    Answers({"trigger"}, "plan", "plan", PlanFor(file.trigger, limit, world)) /\ Stay

PrecheckHandoff ==
  Answers({"plan"}, "handoff", "handoff", Handoff(file.plan, world)) /\ Stay

\* The simulator fills a plan at its entry.  It reads a flat plan, which its caller
\* makes of an entry, levels and shares of its own: the nested plan of the planner has
\* none of those fields.  It asks for no handoff and compares no level with another.
\* Nothing of the earlier stages goes in, so this is how another trade begins.
OpenPosition ==
  /\ stage = "none"
  /\ On("paper", world)
  /\ \E plan \in FlatPlans :
       /\ plan.shares > 0 /\ plan.entry > 0 /\ plan.stop > 0 /\ plan.target > 0
       /\ position' = [shares |-> plan.shares, entry |-> plan.entry, stop |-> plan.stop,
                       target |-> plan.target, opened |-> world.minute, exit |-> 0]
  /\ stage' = "position"
  /\ file' = NewFile(world.minute)
  /\ judged' = [j \in Judges |-> world]
  /\ UNCHANGED <<world, moves, past>>

\* The position may be evaluated again and again.
EvaluatePosition ==
  Answers({"position", "advice", "review"}, "advice", "advice",
          Advice(position, world.minute - position.opened, world)) /\ Stay

\* The review of the carried advice; nothing is closed.
ReviewClosePosition ==
  Answers({"advice"}, "review", "review", ReviewOf(file.advice, position, world)) /\ Stay

\* close_review_agent: advice that asks for no exit is taken as one that does, and
\* the position is closed on the review's action, whatever its status.
RunCloseReviewAgent ==
  LET asked == IF file.advice = "reduce" THEN "reduce" ELSE "exit_review"
      review == ReviewOf(asked, position, world)
      closes == review.action = "close_review"
  IN /\ Answers({"advice"}, IF closes THEN "closed" ELSE "review", "review", review)
     /\ position' = IF closes THEN [position EXCEPT !.exit = world.price] ELSE position

\* post_trade_evaluator_agent: the label is reported, the outcome is what is learnt,
\* on top of what the strategy has behind it.
EvaluatePostTrade ==
  /\ stage = "closed"
  /\ stage' = "label"
  /\ file' = [file EXCEPT !.label = LabelOf(position, position.exit)]
  /\ \E record \in Records : past' = Learned(record, OutcomeOf(position, position.exit))
  /\ UNCHANGED <<world, moves, position, judged>>

EvaluateLearningLoop == Answers({"label"}, "lesson", "lesson", LessonOf(past)) /\ Stay

Next ==
  \/ WorldMoves
  \/ EvaluateSession \/ RouteNextWorkflow \/ CheckStrategyEligibility
  \/ EvaluateTrigger \/ PlanExecution \/ PrecheckHandoff \/ OpenPosition
  \/ EvaluatePosition \/ ReviewClosePosition \/ RunCloseReviewAgent
  \/ EvaluatePostTrade \/ EvaluateLearningLoop

StagesSpec == Init /\ [][Next]_vars

----------------------------------------------------------------------------
(* Properties *)

\* The account and Master Admin let a paper trade pass.
Permitted(w) ==
  /\ {"budget", "workflow", "execution", "broker", "paper"} \subseteq w.gates
  /\ w.gates \cap {"stop", "force", "live"} = {}

\* A handoff that passed has the whole chain behind it, however the world moved
\* between the calls: a proven strategy that met its requirements, a trigger that
\* fired before it expired and on data that passed, a plan made while everything was
\* permitted, and no stop, force close or live trading when it was handed off.
HandoffIsBacked ==
  stage = "handoff" /\ file.handoff = "passed" =>
    /\ judged["eligibility"].proof = "proven"
    /\ MomentumRequirements(judged["eligibility"])
    /\ LET fired == judged["trigger"]
       IN /\ fired.minute < file.created + TriggerMinutes
          /\ fired.quality = "pass" /\ "invalidated" \notin fired.signals
    /\ Permitted(judged["plan"])
    /\ {"stop", "force", "live"} \cap judged["handoff"].gates = {}
    /\ {"paper", "execution", "workflow"} \subseteq judged["handoff"].gates

\* A plan that is planned has as many shares as the account's limits allow at the
\* price it was made at, and not one less: stopped out it loses no more than the risk
\* of one trade, it costs no more than a position may, and one share more would break
\* one of the two.  At its limit, which may be any ask, it can cost and lose more.
StakeIsLargest ==
  LET p == file.plan
      within(shares) == /\ shares * (p.reference - p.stop) <= MaxRisk
                        /\ shares * p.reference <= MaxNotional
  IN p.status = "planned" => within(p.shares) /\ ~ within(p.shares + 1)

\* The later stages never ask for the route's mode, and need not: in a world that holds
\* still they plan nothing on a route that is blocked. The one exception is the broker's
\* readiness, which only the router is told.
PlanFollowsRoute ==
  LET routed == judged["route"]
  IN /\ file.plan.status = "planned"
     /\ \A s \in {"eligibility", "trigger", "plan"} : judged[s] = routed
     => \/ ~ BlockedPath(file.path)
        \/ file.session = "market_open" /\ "broker_ready" \notin routed.gates

\* A review of a position that is to be left asks for its close, whatever the rules find
\* after it: a stop that was touched (unless the plan put the target at or below it), time
\* that is up below half an R, a broken thesis, a force close.  A daily loss or an earlier
\* force close asks for it too, except where a price or a size that asks for a reduction
\* overrides them; then the answer is not to hold.  A review asks for a sale only with such
\* a cause.  close_review_agent closes without one, but not what is only to be reduced.
ExitsAreFinal ==
  LET w == judged["advice"]
      gain == w.price - position.entry
      risk == position.entry - position.stop
      touched == w.price <= position.stop
      late == w.minute - position.opened >= 45 /\ (risk > 0 => 200 * gain < 99 * risk)
      force == "force" \in judged["review"].gates
      final == \/ touched /\ position.stop < position.target
               \/ late
               \/ "invalidated" \in w.signals
               \/ force
      limit == "daily_loss" \in w.signals \/ "force" \in w.gates
      high == \/ w.price >= position.target
              \/ risk > 0 /\ 200 * gain >= 299 * risk
              \/ w.price * position.shares > MaxNotional
  IN /\ stage = "review" =>
          /\ final \/ (limit /\ ~ high) => file.review.action = "close_review"
          /\ limit => file.review.action # "hold"
          /\ file.review.action = "close_review" => final \/ touched \/ limit
          /\ file.review.action = "reduce_review" => high
     /\ stage = "closed" /\ file.advice = "reduce" => "force" \in world.gates

Rank(lesson) ==
  CHOOSE i \in 1 .. 5 :
    <<"review_needed", "demote_to_research", "demote_to_paper", "keep_monitoring",
      "promote_candidate">>[i] = lesson

\* A strategy with a worse record is never judged better: lower returns, one more
\* violation, one more slip, a drawdown or a slump do not raise the lesson.
WorseIsNeverBetter ==
  stage = "lesson" =>
    \A worse \in {[past EXCEPT !.drawdown = TRUE], [past EXCEPT !.slump = TRUE],
                  [past EXCEPT !.slips = @ + 1], [past EXCEPT !.violations = @ + 1]}
                 \cup {[past EXCEPT !.r = @ - d] : d \in {1, 100, 1000}} :
      Rank(LessonOf(worse)) <= Rank(file.lesson)

=============================================================================
