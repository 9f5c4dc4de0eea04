----------------------------- MODULE StageProofs -----------------------------
(***************************************************************************)
(* Theorems of TradeStages, for every set of worlds, quotes and records,   *)
(* every limit of the account, and a world that moves any number of times. *)
(***************************************************************************)
EXTENDS TradeStages, TLAPS

----------------------------------------------------------------------------
(* Lists of rules *)

LEMMA LeastOfTen ==
  ASSUME NEW S \in SUBSET (1 .. 10), S # {}
  PROVE  \E i \in S : \A k \in S : i <= k
<1>1. \A i \in 1 .. 10 : i \in {1, 2, 3, 4, 5, 6, 7, 8, 9, 10}
  OBVIOUS
<1>2. CASE 1 \in S
  BY <1>2
<1>3. CASE 1 \notin S /\ 2 \in S
  BY <1>3
<1>4. CASE S \cap {1, 2} = {} /\ 3 \in S
  BY <1>4
<1>5. CASE S \cap {1, 2, 3} = {} /\ 4 \in S
  BY <1>5
<1>6. CASE S \cap {1, 2, 3, 4} = {} /\ 5 \in S
  BY <1>6
<1>7. CASE S \cap {1, 2, 3, 4, 5} = {} /\ S \cap {6, 7, 8, 9, 10} # {}
  BY <1>7
<1> QED
  BY <1>1, <1>2, <1>3, <1>4, <1>5, <1>6, <1>7

\* The answer of a list of rules is that of a rule that applies, and none before it does.
LEMMA FirstApplies ==
  ASSUME NEW rules, NEW n \in 1 .. 10, DOMAIN rules = 1 .. n, rules[n][1]
  PROVE  \E i \in 1 .. n : /\ rules[i][1]
                           /\ \A j \in 1 .. i - 1 : ~ rules[j][1]
                           /\ FirstOf(rules) = rules[i][2]
<1> DEFINE P(k) == rules[k][1] /\ \A j \in 1 .. k - 1 : ~ rules[j][1]
           S == {k \in 1 .. n : rules[k][1]}
<1>1. n \in S /\ S \in SUBSET (1 .. 10)
  OBVIOUS
<1>2. PICK i \in S : \A k \in S : i <= k
  BY <1>1, LeastOfTen
<1>3. i \in DOMAIN rules /\ P(i)
  BY <1>2
<1>4. \A k \in DOMAIN rules : P(k) => k = i
  <2> SUFFICES ASSUME NEW k \in DOMAIN rules, P(k) PROVE k = i
    OBVIOUS
  <2>1. k \in S /\ i <= k
    BY <1>2
  <2>2. ~ (i < k)
    BY <1>2
  <2> QED
    BY <1>2, <2>1, <2>2
<1>5. (CHOOSE k \in DOMAIN rules : P(k)) = i
  BY <1>3, <1>4
<1> QED
  BY <1>3, <1>5 DEF FirstOf

\* The session of a moment is one of the four.
LEMMA SessionRule ==
  ASSUME NEW w \in World
  PROVE  SessionOf(w) \in Sessions
<1> DEFINE rules ==
      << <<w.bell = "open", "market_open">>,
         <<w.bell = "weekend", "closed">>,
         <<w.minute \in 240 .. 569, "pre_market">>,
         <<w.minute \in 570 .. 959, "market_open">>,
         <<w.minute \in 960 .. 1199, "post_market">>,
         <<TRUE, "closed">> >>
<1>1. DOMAIN rules = 1 .. 6 /\ rules[6][1]
  BY SMTT(30)
<1>2. \A i \in 1 .. 6 : rules[i][2] \in Sessions
  BY DEF Sessions
<1>3. SessionOf(w) = FirstOf(rules)
  BY DEF SessionOf
<1> HIDE DEF rules
<1> QED
  BY <1>1, <1>2, <1>3, FirstApplies

\* A route that is blocked has a cause.
LEMMA PathRule ==
  ASSUME NEW w \in World, NEW session
  PROVE  /\ PathFor(session, w) \in Paths
         /\ BlockedPath(PathFor(session, w)) =>
              \/ w.quality = "fail" \/ w.liquidity = "poor" \/ w.proof # "proven"
              \/ ~ ({"budget", "paper"} \subseteq w.gates)
              \/ session = "market_open" /\ "broker_ready" \notin w.gates
<1> DEFINE open == session = "market_open"
           orObserve == IF On("paper", w) THEN "paper_only" ELSE "observe_only"
           rules ==
      << <<w.quality = "fail", "no_trade">>,
         <<~ On("budget", w), "no_trade">>,
         <<~ On("paper", w) /\ ~ On("live", w), "observe_only">>,
         <<w.liquidity = "poor", "observe_only">>,
         <<open /\ ~ On("broker_ready", w), "observe_only">>,
         <<w.volatility = "extreme", IF w.proof = "proven" THEN orObserve ELSE "no_trade">>,
         <<open /\ w.proof = "proven" /\ w.quality = "pass"
                /\ All({"urgent", "spread", "slippage"}, w), "baseline">>,
         <<open /\ w.proof = "unproven", orObserve>>,
         <<session = "pre_market" /\ w.proof = "unproven", "backtest_queue">>,
         <<TRUE, "adjusted_research">> >>
<1>1. DOMAIN rules = 1 .. 10 /\ rules[10][1]
  OBVIOUS
<1>2. \A i \in 1 .. 10 : rules[i][2] \in Paths
  BY DEF Paths
<1>3. PathFor(session, w) = FirstOf(rules)
  BY DEF PathFor
<1> DEFINE cause ==
      \/ w.quality = "fail" \/ w.liquidity = "poor" \/ w.proof # "proven"
      \/ ~ ({"budget", "paper"} \subseteq w.gates)
      \/ session = "market_open" /\ "broker_ready" \notin w.gates
<1>4. \A i \in 1 .. 10 : BlockedPath(rules[i][2]) => i \in {1, 2, 3, 4, 5, 6, 8}
  BY DEF BlockedPath
<1>5. rules[1][1] \/ rules[2][1] => cause
  BY DEF On
<1>6. rules[3][1] \/ rules[4][1] => cause
  BY DEF On
<1>7. rules[5][1] => cause
  BY DEF On
<1>8. rules[6][1] /\ BlockedPath(rules[6][2]) => cause
  <2>1. CASE w.proof = "proven"
    BY <2>1 DEF BlockedPath, On
  <2> QED
    BY <2>1
<1>9. rules[8][1] => cause
  OBVIOUS
<1> HIDE DEF rules, cause
<1>10. PICK i \in 1 .. 10 : rules[i][1] /\ FirstOf(rules) = rules[i][2]
  BY <1>1, FirstApplies
<1>11. BlockedPath(rules[i][2]) => cause
  BY <1>4, <1>5, <1>6, <1>7, <1>8, <1>9, <1>10
<1> QED
  BY <1>2, <1>3, <1>10, <1>11 DEF cause

\* Only a proven strategy that meets its requirements is eligible.
LEMMA EligibilityRule ==
  ASSUME NEW w \in World, NEW session, NEW path
  PROVE  /\ Eligibility(session, path, w) \in Eligibilities
         /\ Eligibility(session, path, w) = "eligible" =>
              w.proof = "proven" /\ MomentumRequirements(w)
<1> DEFINE proven == w.proof = "proven"
           hardBlock == \/ w.quality = "fail" \/ ~ On("budget", w) \/ w.proof = "blocked"
                        \/ ~ All({"spread", "reward"}, w)
           adjusted == path \in {"adjusted_research", "backtest_queue"}
           otherwise(no) == IF On("paper", w) THEN "paper_only" ELSE no
           rules ==
      << <<hardBlock, "blocked">>,
         <<session = "market_open" /\ ~ proven, otherwise("blocked")>>,
         <<path = "baseline" /\ (~ proven \/ w.quality # "pass" \/ w.liquidity # "good"),
           "blocked">>,
         <<adjusted /\ Has("backtest_due", w), "research_only">>,
         <<adjusted /\ ~ proven, otherwise("research_only")>>,
         <<~ Has("momentum", w), "research_only">>,
         <<~ MomentumRequirements(w), "blocked">>,
         <<proven, "eligible">>,
         <<TRUE, otherwise("research_only")>> >>
<1>1. DOMAIN rules = 1 .. 9 /\ rules[9][1]
  OBVIOUS
<1>2. \A i \in 1 .. 9 : rules[i][2] \in Eligibilities /\ (rules[i][2] = "eligible" => i = 8)
  BY DEF Eligibilities
<1>3. Eligibility(session, path, w) = FirstOf(rules)
  BY DEF Eligibility
<1>4. rules[8][1] /\ ~ rules[7][1] => w.proof = "proven" /\ MomentumRequirements(w)
  OBVIOUS
<1> HIDE DEF rules
<1>5. PICK i \in 1 .. 9 : /\ rules[i][1] /\ \A j \in 1 .. i - 1 : ~ rules[j][1]
                          /\ FirstOf(rules) = rules[i][2]
  BY <1>1, FirstApplies
<1>6. CASE rules[i][2] = "eligible"
  <2>1. i = 8
    BY <1>2, <1>6
  <2>2. rules[8][1] /\ ~ rules[7][1]
    BY <1>5, <2>1
  <2> QED
    BY <1>2, <1>3, <1>4, <1>5, <2>2
<1> QED
  BY <1>2, <1>3, <1>5, <1>6

\* A trigger fires only in time, on data that passed, for a strategy that may trade.
LEMMA TriggerRule ==
  ASSUME NEW w \in World, NEW status, NEW expires \in Nat
  PROVE  /\ TriggerState(status, expires, w) \in TriggerStates
         /\ TriggerState(status, expires, w) = "fired" =>
              /\ w.minute < expires /\ w.quality = "pass" /\ "invalidated" \notin w.signals
              /\ status \notin {"research_only", "blocked", "paper_only"}
<1> DEFINE rules ==
      << <<Has("invalidated", w), "invalidated">>,
         <<w.minute >= expires, "expired">>,
         <<status \in {"research_only", "blocked"}, "blocked">>,
         <<status = "paper_only", "armed">>,
         <<w.quality = "pass" /\ All({"spread", "volume", "trigger", "vwap"}, w), "fired">>,
         <<Has("trigger", w) /\ ~ Has("vwap", w) /\ ~ Has("volume", w), "missed">>,
         <<w.quality # "fail" /\ Has("spread", w), "armed">>,
         <<TRUE, "not_ready">> >>
<1>1. DOMAIN rules = 1 .. 8 /\ rules[8][1]
  OBVIOUS
<1>2. \A i \in 1 .. 8 : rules[i][2] \in TriggerStates /\ (rules[i][2] = "fired" => i = 5)
  BY DEF TriggerStates
<1>3. TriggerState(status, expires, w) = FirstOf(rules)
  BY DEF TriggerState
<1>4. w.minute \in Nat
  BY TradeAssumption DEF World
<1>5. rules[5][1] /\ ~ rules[1][1] /\ ~ rules[2][1] /\ ~ rules[3][1] /\ ~ rules[4][1] =>
        /\ w.minute < expires /\ w.quality = "pass" /\ "invalidated" \notin w.signals
        /\ status \notin {"research_only", "blocked", "paper_only"}
  BY <1>4 DEF Has
<1> HIDE DEF rules
<1>6. PICK i \in 1 .. 8 : /\ rules[i][1] /\ \A j \in 1 .. i - 1 : ~ rules[j][1]
                          /\ FirstOf(rules) = rules[i][2]
  BY <1>1, FirstApplies
<1>7. CASE rules[i][2] = "fired"
  <2>1. i = 5
    BY <1>2, <1>7
  <2>2. rules[5][1] /\ ~ rules[1][1] /\ ~ rules[2][1] /\ ~ rules[3][1] /\ ~ rules[4][1]
    BY <1>6, <2>1
  <2> QED
    BY <1>2, <1>3, <1>5, <1>6, <2>2
<1> QED
  BY <1>2, <1>3, <1>6, <1>7

----------------------------------------------------------------------------
(* The stake *)

LEMMA Division ==
  ASSUME NEW a \in Nat, NEW b \in Nat \ {0}
  PROVE  a \div b \in Nat /\ (a \div b) * b <= a /\ a < (a \div b + 1) * b
OBVIOUS

LEMMA IntDivision ==
  ASSUME NEW a \in Int, NEW b \in Nat \ {0}
  PROVE  a \div b \in Int /\ (a \div b) * b <= a /\ a < (a \div b + 1) * b
OBVIOUS

LEMMA Products ==
  ASSUME NEW a \in Nat, NEW b \in Nat
  PROVE  a * b \in Nat
OBVIOUS

LEMMA ProductsGrow ==
  ASSUME NEW a \in Nat, NEW b \in Nat, NEW c \in Nat, a <= b
  PROVE  a * c <= b * c
OBVIOUS

LEMMA ProductsShrink ==
  ASSUME NEW a \in Nat, NEW b \in Nat, NEW c \in Nat, a * c < b * c
  PROVE  a <= b
OBVIOUS

LEMMA IntProducts ==
  ASSUME NEW a \in Int, NEW b \in Int
  PROVE  a * b \in Int
OBVIOUS

LEMMA IntProductsGrow ==
  ASSUME NEW a \in Int, NEW b \in Int, NEW c \in Nat, a <= b
  PROVE  a * c <= b * c
OBVIOUS

LEMMA QuotientBelow ==
  ASSUME NEW a \in Int, NEW b \in Nat \ {0}, NEW k \in Int
  PROVE  a \div b < k <=> a < k * b
<1> DEFINE q == a \div b
<1>1. q \in Int /\ q * b <= a /\ a < (q + 1) * b
  BY IntDivision
<1> HIDE DEF q
<1>2. k * b \in Int /\ q * b \in Int /\ (q + 1) * b \in Int
  BY <1>1, IntProducts
<1>3. CASE q < k
  <2>1. (q + 1) * b <= k * b
    BY <1>1, <1>3, IntProductsGrow
  <2> QED
    BY <1>1, <1>2, <1>3, <2>1 DEF q
<1>4. CASE ~ (q < k)
  <2>1. k * b <= q * b
    BY <1>1, <1>4, IntProductsGrow
  <2> QED
    BY <1>1, <1>2, <1>4, <2>1 DEF q
<1> QED
  BY <1>3, <1>4

LEMMA QuotientsGrow ==
  ASSUME NEW a \in Int, NEW c \in Int, NEW b \in Nat \ {0}, a <= c
  PROVE  a \div b <= c \div b
<1> DEFINE q == c \div b + 1
<1>1. a \div b \in Int /\ c \div b \in Int /\ c < q * b
  BY IntDivision
<1>2. q \in Int /\ q * b \in Int
  BY <1>1, IntProducts
<1>3. a \div b < q
  BY <1>1, <1>2, QuotientBelow
<1> QED
  BY <1>1, <1>3

LEMMA WorldTypes ==
  ASSUME NEW w \in World
  PROVE  /\ w.price \in Nat /\ w.atr \in Nat /\ w.minute \in Nat
         /\ RiskPerShare(w) \in Nat /\ (w.atr > 0 => RiskPerShare(w) > 0)
<1>1. w.price \in Nat /\ w.atr \in Nat /\ w.minute \in Nat
  BY TradeAssumption DEF World
<1>2. RiskPerShare(w) = AtrMultiple * w.atr
  BY DEF RiskPerShare
<1>3. AtrMultiple \in Nat /\ AtrMultiple > 0
  BY StageAssumption
<1> QED
  BY <1>1, <1>2, <1>3, Products

\* The shares the planner asks for lose no more than the risk allows and cost no more
\* than a position may (a share that costs nothing costs nothing); one share more would.
LEMMA SharesRule ==
  ASSUME NEW w \in World
  PROVE  /\ Shares(w) \in Nat
         /\ Shares(w) * RiskPerShare(w) <= MaxRisk
         /\ Shares(w) * w.price <= MaxNotional
         /\ w.price > 0 /\ RiskPerShare(w) > 0 =>
              \/ MaxRisk < (Shares(w) + 1) * RiskPerShare(w)
              \/ MaxNotional < (Shares(w) + 1) * w.price
<1>1. w.price \in Nat /\ RiskPerShare(w) \in Nat /\ MaxRisk \in Nat /\ MaxNotional \in Nat
  BY WorldTypes, StageAssumption
<1> DEFINE risk == RiskPerShare(w)
           price == w.price
           byRisk == IF risk > 0 THEN MaxRisk \div risk ELSE 0
           byCost == MaxNotional \div price
<1>2. Shares(w) = IF byRisk * price > MaxNotional /\ price > 0 THEN byCost ELSE byRisk
  BY DEF Shares
<1>3. /\ byRisk \in Nat /\ byRisk * risk <= MaxRisk
      /\ risk > 0 => MaxRisk < (byRisk + 1) * risk
  <2>1. CASE risk > 0
    <3>1. byRisk = MaxRisk \div risk /\ MaxRisk \in Nat /\ risk \in Nat \ {0}
      BY <1>1, <2>1
    <3> HIDE DEF risk, byRisk
    <3> QED
      BY <3>1, Division
  <2>2. CASE risk = 0
    BY <1>1, <2>2
  <2> QED
    BY <1>1, <2>1, <2>2
<1>4. ASSUME price > 0
      PROVE  byCost \in Nat /\ byCost * price <= MaxNotional
             /\ MaxNotional < (byCost + 1) * price
  <2>1. MaxNotional \in Nat /\ price \in Nat \ {0}
    BY <1>1, <1>4
  <2> HIDE DEF price
  <2> QED
    BY <2>1, Division
<1>5. price \in Nat /\ risk \in Nat
  BY <1>1
<1> HIDE DEF risk, price, byRisk, byCost
<1>6. CASE byRisk * price > MaxNotional /\ price > 0
  <2>1. /\ Shares(w) = byCost /\ byCost \in Nat /\ byCost * price <= MaxNotional
        /\ MaxNotional < (byCost + 1) * price
    BY <1>2, <1>4, <1>6
  <2>2. byCost * price \in Nat /\ byRisk * price \in Nat
    BY <1>3, <1>5, <2>1, Products
  <2>3. byCost * price < byRisk * price
    BY <1>1, <1>6, <2>1, <2>2
  <2>4. byCost <= byRisk
    BY <1>3, <1>5, <2>1, <2>3, ProductsShrink
  <2>5. byCost * risk <= byRisk * risk
    BY <1>3, <1>5, <2>1, <2>4, ProductsGrow
  <2>6. byCost * risk \in Nat /\ byRisk * risk \in Nat
    BY <1>3, <1>5, <2>1, Products
  <2>7. byCost * risk <= MaxRisk
    BY <1>1, <1>3, <2>5, <2>6
  <2>8. MaxNotional < (Shares(w) + 1) * price
    BY <2>1
  <2>9. Shares(w) \in Nat /\ Shares(w) * risk <= MaxRisk /\ Shares(w) * price <= MaxNotional
    BY <2>1, <2>7
  <2> QED
    BY <2>8, <2>9 DEF risk, price
<1>7. CASE ~ (byRisk * price > MaxNotional /\ price > 0)
  <2>1. Shares(w) = byRisk
    BY <1>2, <1>7
  <2>2. byRisk * price <= MaxNotional
    BY <1>1, <1>3, <1>5, <1>7, Products
  <2>3. risk > 0 => MaxRisk < (Shares(w) + 1) * risk
    BY <1>3, <2>1
  <2>4. Shares(w) \in Nat /\ Shares(w) * risk <= MaxRisk /\ Shares(w) * price <= MaxNotional
    BY <1>3, <2>1, <2>2
  <2> QED
    BY <2>3, <2>4 DEF risk, price
<1> QED
  BY <1>6, <1>7

\* The limit of a plan is none, the price or an ask.
LEMMA LimitsTyped ==
  ASSUME NEW w \in World
  PROVE  \A limit \in Limits(Asks, w) : limit \in Nat
<1>1. w.price \in Nat /\ Asks \subseteq Nat
  BY TradeAssumption, WorldTypes
<1> QED
  BY <1>1 DEF Limits, NoLimit

Plan == [status : {"none", "planned", "blocked"}, shares : Nat, limit : Nat,
         reference : Nat, stop : Int, target : Int, readiness : SUBSET Gates]

\* What a plan stakes at the price it was made at.
Within(p, shares) ==
  shares * (p.reference - p.stop) <= MaxRisk /\ shares * p.reference <= MaxNotional

\* What a plan is when it is planned.
Sound(p) == p.shares > 0 /\ Within(p, p.shares) /\ ~ Within(p, p.shares + 1)

LEMMA PlanRule ==
  ASSUME NEW w \in World, NEW trigger, NEW limit \in Nat
  PROVE  LET plan == PlanFor(trigger, limit, w) IN
         /\ plan \in Plan /\ plan.status # "none" /\ plan.readiness = w.gates
         /\ plan.status = "planned" => trigger = "fired" /\ PlanGates(w) /\ Sound(plan)
<1> DEFINE plan == PlanFor(trigger, limit, w)
<1>1. /\ w.price \in Nat /\ w.atr \in Nat /\ RiskPerShare(w) \in Nat
      /\ w.atr > 0 => RiskPerShare(w) > 0
      /\ w.gates \in SUBSET Gates
  BY WorldTypes DEF World
<1>2. /\ Shares(w) \in Nat
      /\ Shares(w) * RiskPerShare(w) <= MaxRisk
      /\ Shares(w) * w.price <= MaxNotional
      /\ w.price > 0 /\ RiskPerShare(w) > 0 =>
           \/ MaxRisk < (Shares(w) + 1) * RiskPerShare(w)
           \/ MaxNotional < (Shares(w) + 1) * w.price
  BY SharesRule
<1>3. TargetRR \in Nat /\ TargetRR > 0
  BY StageAssumption
<1>4. TargetRR * RiskPerShare(w) \in Nat
  BY <1>1, <1>3, Products
<1>5. /\ plan.shares = Shares(w) /\ plan.reference = w.price
      /\ plan.stop = w.price - RiskPerShare(w)
      /\ plan.target = w.price + TargetRR * RiskPerShare(w)
      /\ plan.readiness = w.gates
      /\ plan.status \in {"planned", "blocked"}
      /\ plan.status = "planned" =>
           trigger = "fired" /\ PlanGates(w) /\ w.price > 0 /\ w.atr > 0 /\ Shares(w) > 0
  BY DEF PlanFor
<1>6. plan \in Plan
  <2>1. w.price - RiskPerShare(w) \in Int /\ w.price + TargetRR * RiskPerShare(w) \in Int
    BY <1>1, <1>4
  <2> QED
    BY <1>1, <1>2, <2>1 DEF PlanFor, Plan
<1>7. ASSUME plan.status = "planned"
      PROVE  Sound(plan)
  <2>1. w.price > 0 /\ RiskPerShare(w) > 0 /\ Shares(w) > 0
    BY <1>1, <1>5, <1>7
  <2>2. plan.reference - plan.stop = RiskPerShare(w)
    BY <1>1, <1>5
  <2> DEFINE more == Shares(w) + 1
             loss == more * RiskPerShare(w)
             cost == more * w.price
  <2>3. loss \in Nat /\ cost \in Nat /\ (MaxRisk < loss \/ MaxNotional < cost)
    BY <1>1, <1>2, <2>1, Products
  <2>4. MaxRisk \in Nat /\ MaxNotional \in Nat
    BY StageAssumption
  <2>5. Within(plan, more) <=> loss <= MaxRisk /\ cost <= MaxNotional
    BY <1>5, <2>2 DEF Within
  <2> HIDE DEF loss, cost
  <2>6. ~ Within(plan, more)
    BY <2>3, <2>4, <2>5
  <2>7. Within(plan, Shares(w))
    BY <1>2, <1>5, <2>2 DEF Within
  <2> QED
    BY <1>5, <2>1, <2>6, <2>7 DEF Sound
<1> QED
  BY <1>5, <1>6, <1>7

----------------------------------------------------------------------------
(* Types *)

Review == [action : ReviewActions \cup {"none"}, shares : Nat,
           status : {"none", "ready", "blocked"}]

File == [created : Nat, session : Sessions \cup {"none"}, path : Paths \cup {"none"},
         eligibility : Eligibilities \cup {"none"}, trigger : TriggerStates \cup {"none"},
         plan : Plan, handoff : {"none", "passed", "blocked"},
         advice : Actions \cup {"none"}, review : Review,
         label : Labels \cup {"none"}, lesson : Lessons \cup {"none"}]

Position == [shares : Nat, entry : Nat, stop : Nat, target : Nat, opened : Nat, exit : Nat]

\* What a position is once it is open.
Held(p) == p.shares > 0 /\ p.entry > 0 /\ p.stop > 0 /\ p.target > 0

Typed ==
  /\ world \in World /\ moves \in 0 .. MaxMoves
  /\ stage \in Stages
  /\ file \in File
  /\ position \in Position
  /\ judged \in [Judges -> World]
  /\ past \in Record

LEMMA NewFileTyped ==
  ASSUME NEW minute \in Nat
  PROVE  NewFile(minute) \in File
BY DEF NewFile, File, Plan, NoPlan, NoLimit, Review, NoReview

\* What the answer of a stage leaves alone.
LEMMA AnswersKeep ==
  ASSUME Typed, NEW after, NEW s \in Stages, NEW field, NEW answer,
         Answers(after, s, field, answer)
  PROVE  /\ stage \in after /\ stage' = s
         /\ file' = [file EXCEPT ![field] = answer]
         /\ judged' \in [Judges -> World]
         /\ s \in Judges => judged'[s] = world
         /\ \A j \in Judges \ {s} : judged'[j] = judged[j]
         /\ UNCHANGED <<world, moves, past>>
BY DEF Answers, Typed

LEMMA WorldStaysTyped ==
  ASSUME NEW w \in World, NEW v \in Drifts(w)
  PROVE  v \in World
<1>1. \A s, set : set \subseteq Signals /\ s \in Signals => Toggled(s, set) \subseteq Signals
  BY DEF Toggled
<1>2. \A s, set : set \subseteq Gates /\ s \in Gates => Toggled(s, set) \subseteq Gates
  BY DEF Toggled
<1>3. CASE \E m \in Minutes : v = [w EXCEPT !.minute = m]
  BY <1>3 DEF World
<1>4. CASE \E b \in {"open", "weekday"} : v = [w EXCEPT !.bell = b]
  BY <1>4 DEF World, Bells
<1>5. CASE \E q \in Qualities : v = [w EXCEPT !.quality = q]
  BY <1>5 DEF World
<1>6. CASE \E l \in Liquidities : v = [w EXCEPT !.liquidity = l]
  BY <1>6 DEF World
<1>7. CASE \E x \in Volatilities : v = [w EXCEPT !.volatility = x]
  BY <1>7 DEF World
<1>8. CASE \E p \in Proofs : v = [w EXCEPT !.proof = p]
  BY <1>8 DEF World
<1>9. CASE \E p \in Prices : v = [w EXCEPT !.price = p]
  BY <1>9 DEF World
<1>10. CASE \E a \in Atrs : v = [w EXCEPT !.atr = a]
  BY <1>10 DEF World
<1>11. CASE \E s \in Signals : v = [w EXCEPT !.signals = Toggled(s, @)]
  <2>1. PICK s \in Signals : v = [w EXCEPT !.signals = Toggled(s, w.signals)]
    BY <1>11
  <2>2. Toggled(s, w.signals) \subseteq Signals
    BY <1>1 DEF World
  <2> QED
    BY <2>1, <2>2 DEF World
<1>12. CASE \E g \in Gates : v = [w EXCEPT !.gates = Toggled(g, @)]
  <2>1. PICK g \in Gates : v = [w EXCEPT !.gates = Toggled(g, w.gates)]
    BY <1>12
  <2>2. Toggled(g, w.gates) \subseteq Gates
    BY <1>2 DEF World
  <2> QED
    BY <2>1, <2>2 DEF World
<1> QED
  BY <1>3, <1>4, <1>5, <1>6, <1>7, <1>8, <1>9, <1>10, <1>11, <1>12 DEF Drifts

----------------------------------------------------------------------------
(* The chain behind a plan *)

Before(s) ==
  CASE s = "session"     -> {"none"}
    [] s = "route"       -> {"none", "session"}
    [] s = "eligibility" -> {"none", "session", "route"}
    [] s = "trigger"     -> {"none", "session", "route", "eligibility"}
    [] s = "plan"        -> {"none", "session", "route", "eligibility", "trigger"}
    [] s = "handoff"     -> {"none", "session", "route", "eligibility", "trigger", "plan"}

\* The file has no answer of a stage that is still to come.
InOrder ==
  /\ stage \in Before("route") => file.path = "none"
  /\ stage \in Before("eligibility") => file.eligibility = "none"
  /\ stage \in Before("trigger") => file.trigger = "none"
  /\ stage \in Before("plan") => file.plan.status = "none"
  /\ stage \in Before("handoff") => file.handoff = "none"
  /\ stage \in {"eligibility", "trigger"} => file.eligibility \in Eligibilities

\* Each answer in the file was given in the world its stage judged, and rests on the
\* answer before it.
Chained ==
  /\ file.path # "none" => file.path = PathFor(file.session, judged["route"])
  /\ file.eligibility = "eligible" =>
       judged["eligibility"].proof = "proven" /\ MomentumRequirements(judged["eligibility"])
  /\ file.trigger = "fired" =>
       /\ file.eligibility = "eligible"
       /\ judged["trigger"].minute < file.created + TriggerMinutes
       /\ judged["trigger"].quality = "pass" /\ "invalidated" \notin judged["trigger"].signals
  /\ file.plan.status = "planned" =>
       /\ file.trigger = "fired" /\ Sound(file.plan)
       /\ PlanGates(judged["plan"]) /\ file.plan.readiness = judged["plan"].gates
  /\ file.handoff = "passed" =>
       /\ file.plan.status = "planned" /\ HandoffGates(file.plan.readiness)
       /\ HandoffGates(judged["handoff"].gates)

\* An open position has shares and levels.
Opened == IF stage \in OpenStages THEN Held(position) ELSE position = NoPosition

ChainInv == Typed /\ InOrder /\ Chained /\ Opened

LEMMA SessionStep == ChainInv /\ EvaluateSession => ChainInv'
<1> SUFFICES ASSUME ChainInv, EvaluateSession PROVE ChainInv'
  OBVIOUS
<1>1. /\ stage = "none" /\ stage' = "session"
      /\ file' = [file EXCEPT !["session"] = SessionOf(world)]
      /\ judged' \in [Judges -> World] /\ \A j \in Judges : judged'[j] = judged[j]
      /\ UNCHANGED <<world, moves, past, position>>
  <2>1. Answers({"none"}, "session", "session",
                SessionOf(world))
    BY DEF EvaluateSession
  <2>2. Typed /\ "session" \in Stages /\ "session" \notin Judges
    BY DEF ChainInv, Stages, Judges
  <2>3. UNCHANGED position
    BY DEF EvaluateSession, Stay
  <2>4. QED
    <3>1. /\ stage \in {"none"} /\ stage' = "session"
          /\ file' = [file EXCEPT !["session"] = SessionOf(world)]
          /\ judged' \in [Judges -> World]
          /\ \A j \in Judges \ {"session"} : judged'[j] = judged[j]
          /\ UNCHANGED <<world, moves, past>>
      BY <2>1, <2>2, AnswersKeep
    <3> QED
      BY <2>2, <2>3, <3>1
<1>2. SessionOf(world) \in Sessions /\ file \in File
  BY SessionRule DEF ChainInv, Typed
<1>3. /\ file' \in File
      /\ file'.path = file.path /\ file'.eligibility = file.eligibility
      /\ file'.trigger = file.trigger /\ file'.plan = file.plan /\ file'.handoff = file.handoff
      /\ file'.created = file.created
  BY <1>1, <1>2 DEF File
<1>4. Typed'
  BY <1>1, <1>3 DEF ChainInv, Typed, Stages
<1>5. InOrder'
  BY <1>1, <1>3 DEF ChainInv, InOrder, Before
<1>6. Chained'
  BY <1>1, <1>3 DEF ChainInv, Chained, InOrder, Before, Judges
<1>7. Opened'
  BY <1>1 DEF ChainInv, Opened, OpenStages
<1> QED
  BY <1>4, <1>5, <1>6, <1>7 DEF ChainInv

LEMMA RouteStep == ChainInv /\ RouteNextWorkflow => ChainInv'
<1> SUFFICES ASSUME ChainInv, RouteNextWorkflow PROVE ChainInv'
  OBVIOUS
<1>1. /\ stage = "session" /\ stage' = "route"
      /\ file' = [file EXCEPT !["path"] = PathFor(file.session, world)]
      /\ judged' \in [Judges -> World] /\ judged'["route"] = world
      /\ \A j \in Judges \ {"route"} : judged'[j] = judged[j]
      /\ UNCHANGED <<world, moves, past, position>>
  <2>1. Answers({"session"}, "route", "path",
                PathFor(file.session, world))
    BY DEF RouteNextWorkflow
  <2>2. Typed /\ "route" \in Stages /\ "route" \in Judges
    BY DEF ChainInv, Stages, Judges
  <2>3. UNCHANGED position
    BY DEF RouteNextWorkflow, Stay
  <2>4. /\ stage \in {"session"} /\ stage' = "route"
        /\ file' = [file EXCEPT !["path"] = PathFor(file.session, world)]
        /\ judged' \in [Judges -> World]
        /\ "route" \in Judges => judged'["route"] = world
        /\ \A j \in Judges \ {"route"} : judged'[j] = judged[j]
        /\ UNCHANGED <<world, moves, past>>
    BY <2>1, <2>2, AnswersKeep
  <2> QED
    BY <2>2, <2>3, <2>4
<1>2. PathFor(file.session, world) \in Paths /\ file \in File
  BY PathRule DEF ChainInv, Typed
<1>3. /\ file' \in File /\ file'.path = PathFor(file.session, world)
      /\ file'.session = file.session /\ file'.eligibility = file.eligibility
      /\ file'.trigger = file.trigger /\ file'.plan = file.plan /\ file'.handoff = file.handoff
      /\ file'.created = file.created
  BY <1>1, <1>2 DEF File
<1>4. Typed'
  BY <1>1, <1>3 DEF ChainInv, Typed, Stages
<1>5. InOrder'
  BY <1>1, <1>3 DEF ChainInv, InOrder, Before
<1>6. Chained'
  <2>1. file'.path = PathFor(file'.session, judged'["route"])
    BY <1>1, <1>3
  <2>2. /\ judged'["eligibility"] = judged["eligibility"]
        /\ judged'["trigger"] = judged["trigger"] /\ judged'["plan"] = judged["plan"]
        /\ judged'["handoff"] = judged["handoff"]
    BY <1>1 DEF Judges
  <2> QED
    BY <1>3, <2>1, <2>2 DEF ChainInv, Chained
<1>7. Opened'
  BY <1>1 DEF ChainInv, Opened, OpenStages
<1> QED
  BY <1>4, <1>5, <1>6, <1>7 DEF ChainInv

LEMMA EligibilityStep == ChainInv /\ CheckStrategyEligibility => ChainInv'
<1> SUFFICES ASSUME ChainInv, CheckStrategyEligibility PROVE ChainInv'
  OBVIOUS
<1> DEFINE answer == Eligibility(file.session, file.path, world)
<1>1. /\ stage = "route" /\ stage' = "eligibility"
      /\ file' = [file EXCEPT !["eligibility"] = answer]
      /\ judged' \in [Judges -> World] /\ judged'["eligibility"] = world
      /\ \A j \in Judges \ {"eligibility"} : judged'[j] = judged[j]
      /\ UNCHANGED <<world, moves, past, position>>
  <2>1. Answers({"route"}, "eligibility", "eligibility",
                Eligibility(file.session, file.path, world))
    BY DEF CheckStrategyEligibility
  <2>2. Typed /\ "eligibility" \in Stages /\ "eligibility" \in Judges
    BY DEF ChainInv, Stages, Judges
  <2>3. UNCHANGED position
    BY DEF CheckStrategyEligibility, Stay
  <2> QED
    BY <2>1, <2>2, <2>3, AnswersKeep
<1>2. /\ answer \in Eligibilities /\ file \in File
      /\ answer = "eligible" => world.proof = "proven" /\ MomentumRequirements(world)
  BY EligibilityRule DEF ChainInv, Typed
<1> HIDE DEF answer
<1>3. /\ file' \in File /\ file'.eligibility = answer
      /\ file'.session = file.session /\ file'.path = file.path
      /\ file'.trigger = file.trigger /\ file'.plan = file.plan /\ file'.handoff = file.handoff
      /\ file'.created = file.created
  BY <1>1, <1>2 DEF File
<1>4. Typed'
  BY <1>1, <1>3 DEF ChainInv, Typed, Stages
<1>5. InOrder'
  BY <1>1, <1>2, <1>3 DEF ChainInv, InOrder, Before
<1>6. Chained'
  <2>1. /\ judged'["route"] = judged["route"]
        /\ judged'["trigger"] = judged["trigger"] /\ judged'["plan"] = judged["plan"]
        /\ judged'["handoff"] = judged["handoff"]
    BY <1>1 DEF Judges
  <2>2. file.trigger = "none"
    BY <1>1 DEF ChainInv, InOrder, Before
  <2> QED
    BY <1>1, <1>2, <1>3, <2>1, <2>2 DEF ChainInv, Chained
<1>7. Opened'
  BY <1>1 DEF ChainInv, Opened, OpenStages
<1> QED
  BY <1>4, <1>5, <1>6, <1>7 DEF ChainInv

LEMMA TriggerStep == ChainInv /\ EvaluateTrigger => ChainInv'
<1> SUFFICES ASSUME ChainInv, EvaluateTrigger PROVE ChainInv'
  OBVIOUS
<1> DEFINE expires == file.created + TriggerMinutes
           answer == TriggerState(file.eligibility, expires, world)
<1>1. /\ stage \in {"eligibility", "trigger"} /\ stage' = "trigger"
      /\ file' = [file EXCEPT !["trigger"] = answer]
      /\ judged' \in [Judges -> World] /\ judged'["trigger"] = world
      /\ \A j \in Judges \ {"trigger"} : judged'[j] = judged[j]
      /\ UNCHANGED <<world, moves, past, position>>
  <2>1. Answers({"eligibility", "trigger"}, "trigger", "trigger",
                TriggerState(file.eligibility, file.created + TriggerMinutes, world))
    BY DEF EvaluateTrigger
  <2>2. Typed /\ "trigger" \in Stages /\ "trigger" \in Judges
    BY DEF ChainInv, Stages, Judges
  <2>3. UNCHANGED position
    BY DEF EvaluateTrigger, Stay
  <2> QED
    BY <2>1, <2>2, <2>3, AnswersKeep
<1>2. expires \in Nat /\ file \in File /\ world \in World
  BY TradeAssumption DEF ChainInv, Typed, File
<1>3. /\ answer \in TriggerStates
      /\ answer = "fired" =>
           /\ world.minute < expires /\ world.quality = "pass"
           /\ "invalidated" \notin world.signals
           /\ file.eligibility \notin {"research_only", "blocked", "paper_only"}
  BY <1>2, TriggerRule
<1>4. file.eligibility \in Eligibilities
  BY <1>1 DEF ChainInv, InOrder
<1>5. answer = "fired" => file.eligibility = "eligible"
  BY <1>3, <1>4 DEF Eligibilities
<1> HIDE DEF answer
<1>6. /\ file' \in File /\ file'.trigger = answer
      /\ file'.session = file.session /\ file'.path = file.path
      /\ file'.eligibility = file.eligibility /\ file'.plan = file.plan
      /\ file'.handoff = file.handoff /\ file'.created = file.created
  BY <1>1, <1>2, <1>3 DEF File
<1>7. Typed'
  BY <1>1, <1>6 DEF ChainInv, Typed, Stages
<1>8. InOrder'
  BY <1>1, <1>4, <1>6 DEF ChainInv, InOrder, Before
<1>9. Chained'
  <2>1. /\ judged'["route"] = judged["route"]
        /\ judged'["eligibility"] = judged["eligibility"] /\ judged'["plan"] = judged["plan"]
        /\ judged'["handoff"] = judged["handoff"]
    BY <1>1 DEF Judges
  <2>2. file.plan.status = "none" /\ file.handoff = "none"
    BY <1>1 DEF ChainInv, InOrder, Before
  <2> QED
    BY <1>1, <1>3, <1>5, <1>6, <2>1, <2>2 DEF ChainInv, Chained
<1>10. Opened'
  BY <1>1 DEF ChainInv, Opened, OpenStages
<1> QED
  BY <1>7, <1>8, <1>9, <1>10 DEF ChainInv

LEMMA PlanStep == ChainInv /\ PlanExecution => ChainInv'
<1> SUFFICES ASSUME ChainInv, PlanExecution PROVE ChainInv'
  OBVIOUS
<1>0. PICK limit \in Limits(Asks, world) :
        /\ Answers({"trigger"}, "plan", "plan", PlanFor(file.trigger, limit, world))
        /\ UNCHANGED position
  BY DEF PlanExecution, Stay
<1> DEFINE answer == PlanFor(file.trigger, limit, world)
<1>1. /\ stage = "trigger" /\ stage' = "plan"
      /\ file' = [file EXCEPT !["plan"] = answer]
      /\ judged' \in [Judges -> World] /\ judged'["plan"] = world
      /\ \A j \in Judges \ {"plan"} : judged'[j] = judged[j]
      /\ UNCHANGED <<world, moves, past, position>>
  <2>1. Answers({"trigger"}, "plan", "plan", answer) /\ UNCHANGED position
    BY <1>0
  <2>2. Typed /\ "plan" \in Stages /\ "plan" \in Judges
    BY DEF ChainInv, Stages, Judges
  <2> HIDE DEF answer
  <2>3. /\ stage \in {"trigger"} /\ stage' = "plan"
        /\ file' = [file EXCEPT !["plan"] = answer]
        /\ judged' \in [Judges -> World]
        /\ "plan" \in Judges => judged'["plan"] = world
        /\ \A j \in Judges \ {"plan"} : judged'[j] = judged[j]
        /\ UNCHANGED <<world, moves, past>>
    BY <2>1, <2>2, AnswersKeep
  <2> QED
    BY <2>1, <2>2, <2>3
<1>2. world \in World /\ file \in File
  BY DEF ChainInv, Typed
<1>3. /\ answer \in Plan /\ answer.readiness = world.gates
      /\ answer.status = "planned" => file.trigger = "fired" /\ PlanGates(world) /\ Sound(answer)
  <2>1. limit \in Nat
    BY <1>0, <1>2, LimitsTyped
  <2> QED
    BY <1>2, <2>1, PlanRule
<1> HIDE DEF answer
<1>4. /\ file' \in File /\ file'.plan = answer
      /\ file'.session = file.session /\ file'.path = file.path
      /\ file'.eligibility = file.eligibility /\ file'.trigger = file.trigger
      /\ file'.handoff = file.handoff /\ file'.created = file.created
  BY <1>1, <1>2, <1>3 DEF File
<1>5. Typed'
  BY <1>1, <1>4 DEF ChainInv, Typed, Stages
<1>6. InOrder'
  BY <1>1, <1>4 DEF ChainInv, InOrder, Before
<1>7. Chained'
  <2>1. /\ judged'["route"] = judged["route"]
        /\ judged'["eligibility"] = judged["eligibility"]
        /\ judged'["trigger"] = judged["trigger"] /\ judged'["handoff"] = judged["handoff"]
    BY <1>1 DEF Judges
  <2>2. file.handoff = "none"
    BY <1>1 DEF ChainInv, InOrder, Before
  <2> QED
    BY <1>1, <1>3, <1>4, <2>1, <2>2 DEF ChainInv, Chained
<1>8. Opened'
  BY <1>1 DEF ChainInv, Opened, OpenStages
<1> QED
  BY <1>5, <1>6, <1>7, <1>8 DEF ChainInv

LEMMA HandoffStep == ChainInv /\ PrecheckHandoff => ChainInv'
<1> SUFFICES ASSUME ChainInv, PrecheckHandoff PROVE ChainInv'
  OBVIOUS
<1> DEFINE answer == Handoff(file.plan, world)
<1>1. /\ stage = "plan" /\ stage' = "handoff"
      /\ file' = [file EXCEPT !["handoff"] = answer]
      /\ judged' \in [Judges -> World] /\ judged'["handoff"] = world
      /\ \A j \in Judges \ {"handoff"} : judged'[j] = judged[j]
      /\ UNCHANGED <<world, moves, past, position>>
  <2>1. Answers({"plan"}, "handoff", "handoff",
                Handoff(file.plan, world))
    BY DEF PrecheckHandoff
  <2>2. Typed /\ "handoff" \in Stages /\ "handoff" \in Judges
    BY DEF ChainInv, Stages, Judges
  <2>3. UNCHANGED position
    BY DEF PrecheckHandoff, Stay
  <2>4. /\ stage \in {"plan"} /\ stage' = "handoff"
        /\ file' = [file EXCEPT !["handoff"] = answer]
        /\ judged' \in [Judges -> World]
        /\ "handoff" \in Judges => judged'["handoff"] = world
        /\ \A j \in Judges \ {"handoff"} : judged'[j] = judged[j]
        /\ UNCHANGED <<world, moves, past>>
    BY <2>1, <2>2, AnswersKeep
  <2> QED
    BY <2>2, <2>3, <2>4
<1>2. /\ answer \in {"passed", "blocked"} /\ file \in File
      /\ answer = "passed" =>
           /\ file.plan.status = "planned" /\ HandoffGates(file.plan.readiness)
           /\ HandoffGates(world.gates)
  BY DEF Handoff, ChainInv, Typed
<1> HIDE DEF answer
<1>3. /\ file' \in File /\ file'.handoff = answer
      /\ file'.session = file.session /\ file'.path = file.path
      /\ file'.eligibility = file.eligibility /\ file'.trigger = file.trigger
      /\ file'.plan = file.plan /\ file'.created = file.created
  BY <1>1, <1>2 DEF File
<1>4. Typed'
  BY <1>1, <1>3 DEF ChainInv, Typed, Stages
<1>5. InOrder'
  BY <1>1, <1>3 DEF ChainInv, InOrder, Before
<1>6. Chained'
  <2>1. /\ judged'["route"] = judged["route"]
        /\ judged'["eligibility"] = judged["eligibility"]
        /\ judged'["trigger"] = judged["trigger"] /\ judged'["plan"] = judged["plan"]
    BY <1>1 DEF Judges
  <2> QED
    BY <1>1, <1>2, <1>3, <2>1 DEF ChainInv, Chained
<1>7. Opened'
  BY <1>1 DEF ChainInv, Opened, OpenStages
<1> QED
  BY <1>4, <1>5, <1>6, <1>7 DEF ChainInv

----------------------------------------------------------------------------
(* After the handoff *)

LEMMA GreatestOfTen ==
  ASSUME NEW S \in SUBSET (1 .. 10), S # {}
  PROVE  \E i \in S : \A k \in S : k <= i
<1> DEFINE T == {11 - k : k \in S}
<1>1. T \in SUBSET (1 .. 10) /\ T # {}
  <2>1. \A k \in S : k \in 1 .. 10
    OBVIOUS
  <2>2. \A k \in S : 11 - k \in 1 .. 10
    BY <2>1
  <2> QED
    BY <2>2
<1>2. PICK t \in T : \A k \in T : t <= k
  BY <1>1, LeastOfTen
<1>3. PICK i \in S : t = 11 - i
  BY <1>2
<1>4. \A k \in S : k <= i
  <2> SUFFICES ASSUME NEW k \in S PROVE k <= i
    OBVIOUS
  <2>1. t <= 11 - k
    BY <1>2
  <2> QED
    BY <1>3, <2>1
<1> QED
  BY <1>4

\* The answer of a list of rules that override each other is that of a rule that
\* applies, and none after it does.
LEMMA LastApplies ==
  ASSUME NEW rules, NEW n \in 1 .. 10, DOMAIN rules = 1 .. n, Len(rules) = n, rules[1][1]
  PROVE  \E i \in 1 .. n : /\ rules[i][1]
                           /\ \A j \in i + 1 .. n : ~ rules[j][1]
                           /\ LastOf(rules) = rules[i][2]
<1> DEFINE P(k) == rules[k][1] /\ \A j \in k + 1 .. Len(rules) : ~ rules[j][1]
           S == {k \in 1 .. n : rules[k][1]}
<1>1. 1 \in S /\ S \in SUBSET (1 .. 10)
  OBVIOUS
<1>2. PICK i \in S : \A k \in S : k <= i
  BY <1>1, GreatestOfTen
<1>3. i \in DOMAIN rules /\ P(i)
  BY <1>2
<1>4. \A k \in DOMAIN rules : P(k) => k = i
  <2> SUFFICES ASSUME NEW k \in DOMAIN rules, P(k) PROVE k = i
    OBVIOUS
  <2>1. k \in S /\ k <= i
    BY <1>2
  <2>2. ~ (k < i)
    BY <1>2
  <2> QED
    BY <1>2, <2>1, <2>2
<1>5. (CHOOSE k \in DOMAIN rules : P(k)) = i
  BY <1>3, <1>4
<1> QED
  BY <1>3, <1>5 DEF LastOf

\* What the hundredths of an R multiple say of the gain.
LEMMA RRule ==
  ASSUME NEW p \in Position, NEW price \in Nat, p.stop > 0
  PROVE  LET gain == price - p.entry
             risk == p.entry - p.stop
             r == RMultiple(p, price)
         IN /\ r \in Int
            /\ r < 50 <=> (risk > 0 => 200 * gain < 99 * risk)
            /\ r >= 150 <=> risk > 0 /\ 200 * gain >= 299 * risk
<1> DEFINE gain == price - p.entry
           risk == p.entry - p.stop
           r == RMultiple(p, price)
<1>1. p.entry \in Nat /\ p.stop \in Nat /\ gain \in Int /\ risk \in Int
  BY DEF Position
<1>2. CASE risk > 0
  <2> DEFINE a == 2 * 100 * gain + risk
             b == 2 * risk
  <2>1. r = a \div b
    BY <1>1, <1>2 DEF RMultiple, Rounded
  <2>2. a \in Int /\ b \in Nat \ {0}
    BY <1>1, <1>2
  <2>3. r \in Int /\ (r < 50 <=> a < 50 * b) /\ (r < 150 <=> a < 150 * b)
    <3> HIDE DEF a, b, r
    <3> QED
      BY <2>1, <2>2, QuotientBelow, IntDivision
  <2>4. /\ a < 50 * b <=> 200 * gain < 99 * risk
        /\ a < 150 * b <=> 200 * gain < 299 * risk
    BY <1>1
  <2> HIDE DEF a, b, r
  <2> QED
    BY <1>1, <1>2, <2>3, <2>4 DEF r
<1>3. CASE ~ (risk > 0)
  <2>1. r = 0
    BY <1>1, <1>3 DEF RMultiple
  <2> QED
    BY <1>3, <2>1
<1> QED
  BY <1>2, <1>3

\* A stop that is touched, time that is up, and what makes a position one to leave.
Touched(p, w) == w.price <= p.stop
Late(p, minutes, w) ==
  minutes >= 45 /\ (p.entry - p.stop > 0 => 200 * (w.price - p.entry) < 99 * (p.entry - p.stop))
Leave(p, minutes, w) ==
  \/ Touched(p, w) /\ p.stop < p.target
  \/ Late(p, minutes, w)
  \/ "invalidated" \in w.signals
Limit(w) == "daily_loss" \in w.signals \/ "force" \in w.gates
High(p, w) ==
  \/ w.price >= p.target
  \/ p.entry - p.stop > 0 /\ 200 * (w.price - p.entry) >= 299 * (p.entry - p.stop)
  \/ w.price * p.shares > MaxNotional

\* The risk monitor: a touched stop is not overridden, a limit at most into a reduction.
LEMMA RiskRule ==
  ASSUME NEW p \in Position, p.stop > 0, NEW w \in World
  PROVE  LET risk == AdviceOfRisk(p, w) IN
         /\ risk \in {"hold", "blocked", "exit_review", "reduce"}
         /\ Touched(p, w) /\ p.stop < p.target => risk = "exit_review"
         /\ Limit(w) => risk \in {"exit_review", "reduce"}
         /\ risk = "exit_review" => Touched(p, w) \/ Limit(w)
         /\ risk = "reduce" => High(p, w)
<1> DEFINE rules ==
      << <<TRUE, "hold">>,
         <<On("stop", w), "blocked">>,
         <<On("force", w) \/ Has("daily_loss", w), "exit_review">>,
         <<w.price * p.shares > MaxNotional, "reduce">>,
         <<w.price <= p.stop, "exit_review">>,
         <<w.price >= p.target \/ RMultiple(p, w.price) >= 150, "reduce">> >>
<1>1. DOMAIN rules = 1 .. 6 /\ Len(rules) = 6 /\ rules[1][1]
  OBVIOUS
<1>2. /\ rules[1][2] = "hold" /\ rules[2][2] = "blocked"
      /\ rules[3][2] = "exit_review" /\ rules[5][2] = "exit_review"
      /\ rules[4][2] = "reduce" /\ rules[6][2] = "reduce"
  OBVIOUS
<1>3. AdviceOfRisk(p, w) = LastOf(rules)
  BY DEF AdviceOfRisk
<1>4. rules[3][1] <=> Limit(w)
  BY DEF Limit, On, Has
<1>5. rules[5][1] <=> Touched(p, w)
  BY DEF Touched
<1>6. /\ p.entry \in Nat /\ p.stop \in Nat /\ p.target \in Nat /\ w.price \in Nat
      /\ RMultiple(p, w.price) \in Int
      /\ RMultiple(p, w.price) >= 150 <=>
           p.entry - p.stop > 0 /\ 200 * (w.price - p.entry) >= 299 * (p.entry - p.stop)
  BY WorldTypes, RRule DEF Position
<1>7. rules[4][1] \/ rules[6][1] => High(p, w)
  BY <1>6 DEF High
<1>8. rules[5][1] /\ p.stop < p.target => ~ rules[6][1]
  <2> SUFFICES ASSUME rules[5][1], p.stop < p.target PROVE ~ rules[6][1]
    OBVIOUS
  <2>1. ~ (w.price >= p.target)
    BY <1>5, <1>6 DEF Touched
  <2>2. ~ (p.entry - p.stop > 0 /\ 200 * (w.price - p.entry) >= 299 * (p.entry - p.stop))
    BY <1>5, <1>6 DEF Touched
  <2>3. ~ (RMultiple(p, w.price) >= 150)
    BY <1>6, <2>2
  <2> QED
    BY <2>1, <2>3
<1> HIDE DEF rules
<1>9. PICK i \in 1 .. 6 : /\ rules[i][1] /\ \A j \in i + 1 .. 6 : ~ rules[j][1]
                          /\ LastOf(rules) = rules[i][2]
  BY <1>1, LastApplies
<1>10. i \in {1, 2, 3, 4, 5, 6}
  OBVIOUS
<1>11. Touched(p, w) /\ p.stop < p.target => i = 5
  <2> SUFFICES ASSUME Touched(p, w), p.stop < p.target PROVE i = 5
    OBVIOUS
  <2>1. rules[5][1] /\ ~ rules[6][1]
    BY <1>5, <1>8
  <2> QED
    BY <1>9, <1>10, <2>1
<1>12. Limit(w) => i \in {3, 4, 5, 6}
  BY <1>4, <1>9, <1>10
<1>13. i \in {3, 5} => Touched(p, w) \/ Limit(w)
  BY <1>4, <1>5, <1>9
<1>14. i \in {4, 6} => High(p, w)
  BY <1>7, <1>9
<1> QED
  BY <1>2, <1>3, <1>9, <1>10, <1>11, <1>12, <1>13, <1>14

\* The time stop.
LEMMA TimeRule ==
  ASSUME NEW p \in Position, p.stop > 0, NEW w \in World, NEW minutes \in Int, NEW risk
  PROVE  LET timed == AdviceOfTime(risk, p, minutes, w)
         IN \/ Late(p, minutes, w) /\ timed = "exit_review"
            \/ ~ Late(p, minutes, w) /\ (timed = risk \/ (risk = "hold" /\ timed = "watch"))
<1> DEFINE rules ==
      << <<minutes >= 45 /\ RMultiple(p, w.price) < 50, "exit_review">>,
         <<minutes >= 40 /\ ThesisFails(w) = {} /\ ~ Has("invalidated", w) /\ risk = "hold",
           "watch">>,
         <<TRUE, risk>> >>
           up == Late(p, minutes, w)
<1>1. DOMAIN rules = 1 .. 3 /\ rules[3][1]
  OBVIOUS
<1>2. AdviceOfTime(risk, p, minutes, w) = FirstOf(rules)
  BY DEF AdviceOfTime
<1>4. rules[1][1] <=> up
  BY WorldTypes, RRule DEF Late
<1>5. rules[2][1] => risk = "hold"
  OBVIOUS
<1>6. rules[1][2] = "exit_review" /\ rules[2][2] = "watch" /\ rules[3][2] = risk
  OBVIOUS
<1> HIDE DEF rules, up
<1>7. PICK i \in 1 .. 3 : /\ rules[i][1] /\ \A j \in 1 .. i - 1 : ~ rules[j][1]
                          /\ FirstOf(rules) = rules[i][2]
  BY <1>1, FirstApplies
<1>8. i \in {1, 2, 3}
  OBVIOUS
<1>9. CASE i = 1
  BY <1>2, <1>4, <1>6, <1>7, <1>9 DEF up
<1>10. CASE i = 2
  <2>1. ~ rules[1][1]
    BY <1>7, <1>10
  <2> QED
    BY <1>2, <1>4, <1>5, <1>6, <1>7, <1>10, <2>1 DEF up
<1>11. CASE i = 3
  <2>1. ~ rules[1][1]
    BY <1>7, <1>11
  <2> QED
    <3>1. AdviceOfTime(risk, p, minutes, w) = risk
      BY <1>2, <1>6, <1>7, <1>11
    <3>2. ~ up
      BY <1>4, <2>1
    <3> QED
      BY <3>1, <3>2 DEF up
<1> QED
  BY <1>8, <1>9, <1>10, <1>11

\* The advice on a position.
LEMMA AdviceRule ==
  ASSUME NEW p \in Position, p.stop > 0, NEW w \in World, NEW minutes \in Int
  PROVE  LET advice == Advice(p, minutes, w) IN
         /\ advice \in Actions
         /\ Leave(p, minutes, w) => advice = "exit_review"
         /\ Limit(w) => advice \in {"exit_review", "reduce"}
         /\ advice = "exit_review" => Leave(p, minutes, w) \/ Touched(p, w) \/ Limit(w)
         /\ advice = "reduce" => High(p, w)
<1> DEFINE risk == AdviceOfRisk(p, w)
           timed == AdviceOfTime(risk, p, minutes, w)
           rules ==
      << <<Has("invalidated", w), "exit_review">>,
         <<Cardinality(ThesisFails(w)) >= 2 /\ timed = "hold", "watch">>,
         <<TRUE, timed>> >>
           up == Late(p, minutes, w)
<1>1. DOMAIN rules = 1 .. 3 /\ rules[3][1]
  OBVIOUS
<1>2. Advice(p, minutes, w) = FirstOf(rules)
  BY DEF Advice
<1>3. rules[1][1] <=> "invalidated" \in w.signals
  BY DEF Has
<1>4. rules[2][1] => timed = "hold"
  OBVIOUS
<1>5. rules[1][2] = "exit_review" /\ rules[2][2] = "watch" /\ rules[3][2] = timed
  OBVIOUS
<1>6. /\ risk \in {"hold", "blocked", "exit_review", "reduce"}
      /\ Touched(p, w) /\ p.stop < p.target => risk = "exit_review"
      /\ Limit(w) => risk \in {"exit_review", "reduce"}
      /\ risk = "exit_review" => Touched(p, w) \/ Limit(w)
      /\ risk = "reduce" => High(p, w)
  BY RiskRule
<1>7. \/ up /\ timed = "exit_review"
      \/ ~ up /\ (timed = risk \/ (risk = "hold" /\ timed = "watch"))
  BY TimeRule
<1>8. Leave(p, minutes, w) <=>
        \/ Touched(p, w) /\ p.stop < p.target
        \/ up
        \/ "invalidated" \in w.signals
  BY DEF Leave
<1> HIDE DEF rules, up, timed, risk
<1>9. PICK i \in 1 .. 3 : /\ rules[i][1] /\ \A j \in 1 .. i - 1 : ~ rules[j][1]
                          /\ FirstOf(rules) = rules[i][2]
  BY <1>1, FirstApplies
<1>10. i \in {1, 2, 3}
  OBVIOUS
<1>11. /\ i = 1 => "invalidated" \in w.signals
       /\ i \in {2, 3} => "invalidated" \notin w.signals
       /\ i = 2 => timed = "hold"
  BY <1>3, <1>4, <1>9
<1>12. CASE i = 1
  BY <1>2, <1>5, <1>8, <1>9, <1>11, <1>12 DEF Actions
<1>13. CASE i = 2
  BY <1>2, <1>5, <1>6, <1>7, <1>8, <1>9, <1>11, <1>13 DEF Actions
<1>14. CASE i = 3
  BY <1>2, <1>5, <1>6, <1>7, <1>8, <1>9, <1>11, <1>14 DEF Actions
<1> QED
  BY <1>10, <1>12, <1>13, <1>14

\* The review of an advice: what it sells, and when.
LEMMA ReviewRule ==
  ASSUME NEW p \in Position, p.shares > 0, NEW w \in World, NEW advice
  PROVE  LET review == ReviewOf(advice, p, w) IN
         /\ review \in Review /\ review.action \in ReviewActions
         /\ review.shares <= p.shares
         /\ review.action \in {"reduce_review", "close_review"} => review.shares > 0
         /\ "force" \in w.gates => review.action = "close_review"
         /\ advice = "exit_review" => review.action = "close_review"
         /\ review.action = "close_review" => "force" \in w.gates \/ advice = "exit_review"
         /\ review.action = "reduce_review" => advice = "reduce"
         /\ review.action = "hold" => advice \in {"hold", "watch"}
<1> DEFINE rules ==
      << <<On("force", w), "close_review">>,
         <<advice \in {"hold", "watch"}, "hold">>,
         <<advice = "reduce" /\ ReducedShares(p) > 0, "reduce_review">>,
         <<advice = "exit_review", "close_review">>,
         <<TRUE, "blocked">> >>
           action == ReviewAction(advice, p, w)
<1>1. DOMAIN rules = 1 .. 5 /\ rules[5][1]
  OBVIOUS
<1>2. action = FirstOf(rules)
  BY DEF ReviewAction
<1>3. /\ rules[1][1] <=> "force" \in w.gates
      /\ rules[2][1] <=> advice \in {"hold", "watch"}
      /\ rules[3][1] <=> advice = "reduce" /\ ReducedShares(p) > 0
      /\ rules[4][1] <=> advice = "exit_review"
  BY DEF On
<1>4. /\ rules[1][2] = "close_review" /\ rules[2][2] = "hold"
      /\ rules[3][2] = "reduce_review" /\ rules[4][2] = "close_review"
      /\ rules[5][2] = "blocked"
  OBVIOUS
<1>5. p.shares \in Nat /\ ReducedShares(p) \in Nat /\ ReducedShares(p) <= p.shares
  BY DEF Position, ReducedShares
<1> HIDE DEF rules, action
<1>6. PICK i \in 1 .. 5 : /\ rules[i][1] /\ \A j \in 1 .. i - 1 : ~ rules[j][1]
                          /\ FirstOf(rules) = rules[i][2]
  BY <1>1, FirstApplies
<1>7. i \in {1, 2, 3, 4, 5}
  OBVIOUS
<1>8. /\ i > 1 => "force" \notin w.gates
      /\ i = 5 => advice # "exit_review"
  BY <1>3, <1>6
<1>9. /\ action \in ReviewActions
      /\ "force" \in w.gates => action = "close_review"
      /\ advice = "exit_review" => action = "close_review"
      /\ action = "close_review" => "force" \in w.gates \/ advice = "exit_review"
      /\ action = "reduce_review" => advice = "reduce" /\ ReducedShares(p) > 0
      /\ action = "hold" => advice \in {"hold", "watch"}
  BY <1>2, <1>3, <1>4, <1>6, <1>7, <1>8 DEF ReviewActions
<1> DEFINE review == ReviewOf(advice, p, w)
<1>10. /\ review.action = action
       /\ action = "reduce_review" => review.shares = ReducedShares(p)
       /\ action = "close_review" => review.shares = p.shares
       /\ action \notin {"reduce_review", "close_review"} => review.shares = 0
       /\ review.status \in {"ready", "blocked"}
       /\ review = [action |-> review.action, shares |-> review.shares,
                    status |-> review.status]
  BY DEF ReviewOf, action
<1> HIDE DEF review
<1>11. /\ review.shares \in Nat /\ review.shares <= p.shares
       /\ action \in {"reduce_review", "close_review"} => review.shares > 0
  BY <1>5, <1>9, <1>10
<1>12. review \in Review
  BY <1>9, <1>10, <1>11 DEF Review
<1> QED
  BY <1>9, <1>10, <1>11, <1>12 DEF review

----------------------------------------------------------------------------
(* After the trade *)

LEMMA LabelRule ==
  ASSUME NEW p, NEW exit
  PROVE  LabelOf(p, exit) \in Labels
<1> DEFINE rules ==
      << <<p.stop <= 0 \/ p.entry <= p.stop \/ exit <= 0, "rule_violation">>,
         <<1000 * Distance(exit, p.target) > 3 * p.target, "slippage_issue">>,
         <<exit <= p.stop, "thesis_invalidated">>,
         <<exit > p.entry /\ RMultiple(p, exit) >= 25, "win">>,
         <<exit < p.entry /\ RMultiple(p, exit) <= -25, "loss">>,
         <<TRUE, "flat">> >>
<1>1. DOMAIN rules = 1 .. 6 /\ rules[6][1]
  OBVIOUS
<1>2. \A i \in 1 .. 6 : rules[i][2] \in Labels
  BY DEF Labels
<1>3. LabelOf(p, exit) = FirstOf(rules)
  BY DEF LabelOf
<1> HIDE DEF rules
<1> QED
  BY <1>1, <1>2, <1>3, FirstApplies

\* One more outcome makes a record of a record.
LEMMA LearnedRule ==
  ASSUME NEW record \in Record, NEW p \in Position, NEW exit \in Int
  PROVE  Learned(record, OutcomeOf(p, exit)) \in Record
<1> DEFINE r == IF p.entry > p.stop THEN (100 * (exit - p.entry)) \div (p.entry - p.stop)
                ELSE 0
<1>1. p.entry \in Nat /\ p.stop \in Nat
  BY DEF Position
<1>2. r \in Int
  <2>1. CASE p.entry > p.stop
    <3>1. 100 * (exit - p.entry) \in Int /\ p.entry - p.stop \in Nat \ {0}
      BY <1>1, <2>1
    <3> QED
      BY <2>1, <3>1, IntDivision
  <2>2. CASE ~ (p.entry > p.stop)
    BY <2>2
  <2> QED
    BY <2>1, <2>2
<1> HIDE DEF r
<1> DEFINE outcome == OutcomeOf(p, exit)
<1>3. outcome.r \in Int /\ outcome.violation = 0 /\ outcome.slip = 0
  BY <1>2 DEF OutcomeOf, r
<1> HIDE DEF outcome
<1>4. /\ record.n + 1 \in Nat /\ record.r + outcome.r \in Int
      /\ record.violations + outcome.violation \in Nat
      /\ record.slips + outcome.slip \in Nat
  BY <1>3 DEF Record
<1>5. Learned(record, outcome) =
        [record EXCEPT !.n = record.n + 1, !.r = record.r + outcome.r,
                       !.violations = record.violations + outcome.violation,
                       !.slips = record.slips + outcome.slip]
  BY DEF Learned, Record
<1>6. Learned(record, outcome) \in Record
  BY <1>4, <1>5 DEF Record
<1> QED
  BY <1>6 DEF outcome

\* What the learning loop counts as too often broken or slipped, and as good.
Often(record) ==
  \/ TooOften(record.violations, 10, record) \/ TooOften(record.slips, 15, record)
  \/ Sample(record) >= 20 /\ MeanR(record) < 0
Good(record) ==
  /\ Sample(record) >= 20 /\ MeanR(record) >= 350
  /\ ~ record.drawdown /\ ~ record.slump

\* What the learning loop says, one case for each lesson.
LEMMA LessonRule ==
  ASSUME NEW record \in Record
  PROVE  LET lesson == LessonOf(record)
             often == Often(record)
             good == Good(record)
         IN \/ record.n = 0 /\ lesson = "review_needed"
            \/ record.n # 0 /\ often /\ lesson = "demote_to_research"
            \/ record.n # 0 /\ ~ often /\ record.drawdown /\ lesson = "demote_to_paper"
            \/ record.n # 0 /\ ~ often /\ good /\ lesson = "promote_candidate"
            \/ /\ record.n # 0 /\ ~ often /\ ~ record.drawdown /\ ~ good
               /\ lesson = "keep_monitoring"
<1> DEFINE often == Often(record)
           good == Good(record)
           rules ==
      << <<record.n = 0, "review_needed">>,
         <<\/ TooOften(record.violations, 10, record) \/ TooOften(record.slips, 15, record)
           \/ Sample(record) >= 20 /\ MeanR(record) < 0, "demote_to_research">>,
         <<record.drawdown, "demote_to_paper">>,
         <<Sample(record) >= 20 /\ MeanR(record) >= 350 /\ ~ Drift(record),
           "promote_candidate">>,
         <<TRUE, "keep_monitoring">> >>
<1>1. DOMAIN rules = 1 .. 5 /\ rules[5][1]
  OBVIOUS
<1>2. LessonOf(record) = FirstOf(rules)
  BY DEF LessonOf
<1>3. /\ rules[1][2] = "review_needed" /\ rules[2][2] = "demote_to_research"
      /\ rules[3][2] = "demote_to_paper" /\ rules[4][2] = "promote_candidate"
      /\ rules[5][2] = "keep_monitoring"
  OBVIOUS
<1>4. /\ rules[1][1] <=> record.n = 0
      /\ rules[2][1] <=> often
      /\ rules[3][1] <=> record.drawdown
  BY DEF Often
<1>5. rules[4][1] <=> Sample(record) >= 20 /\ MeanR(record) >= 350 /\ ~ Drift(record)
  OBVIOUS
<1>6. ~ often /\ Sample(record) >= 20 => (Drift(record) <=> record.drawdown \/ record.slump)
  <2>1. Sample(record) \in Nat
    BY DEF Sample, Record
  <2> QED
    BY <2>1 DEF Drift, Often
<1>7. ~ often => (rules[4][1] <=> good)
  BY <1>5, <1>6 DEF Good
<1> HIDE DEF rules, often, good
<1>8. PICK i \in 1 .. 5 : /\ rules[i][1] /\ \A j \in 1 .. i - 1 : ~ rules[j][1]
                          /\ FirstOf(rules) = rules[i][2]
  BY <1>1, FirstApplies
<1>9. i \in {1, 2, 3, 4, 5}
  OBVIOUS
<1>10. /\ i > 1 => ~ rules[1][1]
       /\ i > 2 => ~ rules[2][1]
       /\ i > 3 => ~ rules[3][1]
       /\ i > 4 => ~ rules[4][1]
  BY <1>8
<1>11. LessonOf(record) = rules[i][2]
  BY <1>2, <1>8
<1>12. CASE i \in {1, 2}
  BY <1>3, <1>4, <1>8, <1>10, <1>11, <1>12 DEF often
<1>13. CASE i \in {3, 4, 5}
  <2>1. record.n # 0 /\ ~ often /\ (rules[4][1] <=> good)
    BY <1>4, <1>7, <1>10, <1>13
  <2>2. CASE i = 3
    BY <1>3, <1>4, <1>8, <1>11, <2>1, <2>2 DEF often
  <2>3. CASE i = 4
    BY <1>3, <1>8, <1>11, <2>1, <2>3 DEF often, good
  <2>4. CASE i = 5
    BY <1>3, <1>4, <1>10, <1>11, <2>1, <2>4 DEF often, good
  <2> QED
    BY <1>13, <2>2, <2>3, <2>4
<1> QED
  BY <1>9, <1>12, <1>13

LEMMA Ranks ==
  /\ Rank("review_needed") = 1 /\ Rank("demote_to_research") = 2
  /\ Rank("demote_to_paper") = 3 /\ Rank("keep_monitoring") = 4
  /\ Rank("promote_candidate") = 5
<1> DEFINE order == <<"review_needed", "demote_to_research", "demote_to_paper",
                      "keep_monitoring", "promote_candidate">>
<1>1. /\ order[1] = "review_needed" /\ order[2] = "demote_to_research"
      /\ order[3] = "demote_to_paper" /\ order[4] = "keep_monitoring"
      /\ order[5] = "promote_candidate"
  OBVIOUS
<1>2. \A lesson : Rank(lesson) = CHOOSE i \in 1 .. 5 : order[i] = lesson
  BY DEF Rank
<1> HIDE DEF order
<1>3. \A i \in 1 .. 5 : i \in {1, 2, 3, 4, 5}
  OBVIOUS
<1>4. \A i, k \in 1 .. 5 : order[i] = order[k] => i = k
  BY <1>1, <1>3
<1>5. \A i \in 1 .. 5 : Rank(order[i]) = i
  BY <1>2, <1>4
<1> QED
  BY <1>1, <1>5

\* Rounding keeps an order.
LEMMA RoundedGrows ==
  ASSUME NEW a \in Int, NEW c \in Int, NEW b \in Nat \ {0}, NEW unit \in Nat, a <= c
  PROVE  /\ Rounded(a, b, unit) \in Int /\ Rounded(c, b, unit) \in Int
         /\ Rounded(a, b, unit) <= Rounded(c, b, unit)
<1>1. a * unit \in Int /\ c * unit \in Int /\ a * unit <= c * unit
  BY IntProducts, IntProductsGrow
<1> DEFINE x == 2 * unit * a + b
           y == 2 * unit * c + b
           d == 2 * b
<1>2. x = 2 * (a * unit) + b /\ y = 2 * (c * unit) + b
  OBVIOUS
<1>3. x \in Int /\ y \in Int /\ x <= y /\ d \in Nat \ {0}
  <2> HIDE DEF x, y
  <2> QED
    BY <1>1, <1>2
<1>4. Rounded(a, b, unit) = x \div d /\ Rounded(c, b, unit) = y \div d
  BY DEF Rounded
<1> HIDE DEF x, y, d
<1> QED
  BY <1>3, <1>4, IntDivision, QuotientsGrow

LEMMA RatesGrow ==
  ASSUME NEW record \in Record, NEW worse \in Record, worse.n = record.n,
         NEW count \in Nat, NEW more \in Nat, count <= more
  PROVE  /\ Rate(count, record) \in Int /\ Rate(more, worse) \in Int
         /\ Rate(count, record) <= Rate(more, worse)
<1>1. record.n \in Nat
  BY DEF Record
<1>2. CASE record.n > 0
  <2> DEFINE n == record.n
             unit == 10000
  <2>1. n \in Nat \ {0} /\ count \in Int /\ more \in Int /\ unit \in Nat
    BY <1>1, <1>2
  <2>2. Rate(count, record) = Rounded(count, n, unit) /\ Rate(more, worse) = Rounded(more, n, unit)
    BY <1>2 DEF Rate
  <2> HIDE DEF n, unit
  <2>3. /\ Rounded(count, n, unit) \in Int /\ Rounded(more, n, unit) \in Int
        /\ Rounded(count, n, unit) <= Rounded(more, n, unit)
    BY <2>1, RoundedGrows
  <2> QED
    BY <2>2, <2>3
<1>3. CASE ~ (record.n > 0)
  BY <1>3 DEF Rate
<1> QED
  BY <1>2, <1>3

LEMMA MeansGrow ==
  ASSUME NEW record \in Record, NEW worse \in Record, worse.n = record.n, worse.r <= record.r
  PROVE  MeanR(worse) \in Int /\ MeanR(record) \in Int /\ MeanR(worse) <= MeanR(record)
<1>1. record.n \in Nat /\ worse.r \in Int /\ record.r \in Int
  BY DEF Record
<1>2. CASE record.n > 0
  <2>1. record.n \in Nat \ {0} /\ 10 \in Nat
    BY <1>1, <1>2
  <2>2. /\ MeanR(worse) = Rounded(worse.r, record.n, 10)
        /\ MeanR(record) = Rounded(record.r, record.n, 10)
    BY <1>2 DEF MeanR
  <2> QED
    BY <1>1, <2>1, <2>2, RoundedGrows
<1>3. CASE ~ (record.n > 0)
  BY <1>3 DEF MeanR
<1> QED
  BY <1>2, <1>3

\* A record that is nowhere better does not earn the better lesson.
LEMMA WorseRanks ==
  ASSUME NEW record \in Record, NEW worse \in Record,
         worse.n = record.n, worse.claimed = record.claimed, worse.r <= record.r,
         worse.violations >= record.violations, worse.slips >= record.slips,
         record.drawdown => worse.drawdown, record.slump => worse.slump
  PROVE  Rank(LessonOf(worse)) <= Rank(LessonOf(record))
<1> DEFINE often(x) == Often(x)
           good(x) == Good(x)
<1>1. /\ Rate(record.violations, record) <= Rate(worse.violations, worse)
      /\ Rate(record.slips, record) <= Rate(worse.slips, worse)
      /\ MeanR(worse) <= MeanR(record) /\ Sample(worse) = Sample(record)
  BY RatesGrow, MeansGrow DEF Record, Sample
<1>11. /\ Rate(record.violations, record) \in Int /\ Rate(worse.violations, worse) \in Int
       /\ Rate(record.slips, record) \in Int /\ Rate(worse.slips, worse) \in Int
       /\ MeanR(worse) \in Int /\ MeanR(record) \in Int
  BY RatesGrow, MeansGrow DEF Record
<1>2. often(record) => often(worse)
  BY <1>1, <1>11 DEF Often, TooOften
<1>3. good(worse) => good(record)
  BY <1>1, <1>11 DEF Good
<1>4. ASSUME NEW x \in {record, worse}
      PROVE  \/ x.n = 0 /\ Rank(LessonOf(x)) = 1
             \/ x.n # 0 /\ often(x) /\ Rank(LessonOf(x)) = 2
             \/ x.n # 0 /\ ~ often(x) /\ x.drawdown /\ Rank(LessonOf(x)) = 3
             \/ x.n # 0 /\ ~ often(x) /\ good(x) /\ Rank(LessonOf(x)) = 5
             \/ x.n # 0 /\ ~ often(x) /\ ~ x.drawdown /\ ~ good(x) /\ Rank(LessonOf(x)) = 4
  <2>1. x \in Record
    OBVIOUS
  <2>2. \/ x.n = 0 /\ LessonOf(x) = "review_needed"
        \/ x.n # 0 /\ often(x) /\ LessonOf(x) = "demote_to_research"
        \/ x.n # 0 /\ ~ often(x) /\ x.drawdown /\ LessonOf(x) = "demote_to_paper"
        \/ x.n # 0 /\ ~ often(x) /\ good(x) /\ LessonOf(x) = "promote_candidate"
        \/ /\ x.n # 0 /\ ~ often(x) /\ ~ x.drawdown /\ ~ good(x)
           /\ LessonOf(x) = "keep_monitoring"
    BY <2>1, LessonRule
  <2> HIDE DEF often, good
  <2> QED
    BY <2>2, Ranks
<1>5. ~ (good(record) /\ record.drawdown)
  BY DEF Good
<1> HIDE DEF often, good
<1> DEFINE R == Rank(LessonOf(record))
           W == Rank(LessonOf(worse))
<1>6. \/ record.n = 0 /\ R = 1
      \/ record.n # 0 /\ often(record) /\ R = 2
      \/ record.n # 0 /\ ~ often(record) /\ record.drawdown /\ R = 3
      \/ record.n # 0 /\ ~ often(record) /\ good(record) /\ R = 5
      \/ record.n # 0 /\ ~ often(record) /\ ~ record.drawdown /\ ~ good(record) /\ R = 4
  BY <1>4
<1>7. \/ worse.n = 0 /\ W = 1
      \/ worse.n # 0 /\ often(worse) /\ W = 2
      \/ worse.n # 0 /\ ~ often(worse) /\ worse.drawdown /\ W = 3
      \/ worse.n # 0 /\ ~ often(worse) /\ good(worse) /\ W = 5
      \/ worse.n # 0 /\ ~ often(worse) /\ ~ worse.drawdown /\ ~ good(worse) /\ W = 4
  BY <1>4
<1> HIDE DEF R, W
<1>8. W <= R
  BY <1>2, <1>3, <1>5, <1>6, <1>7
<1> QED
  BY <1>8 DEF R, W

----------------------------------------------------------------------------
(* The invariant of the whole trade *)

\* The review in the file is the one the advice in the file asks for, or, where the
\* advice asks for nothing and nothing was closed, the one it was taken for.
Reviewed ==
  \E asked \in {file.advice, IF file.advice = "reduce" THEN "reduce" ELSE "exit_review"} :
    /\ file.review = ReviewOf(asked, position, judged["review"])
    /\ asked # file.advice => file.review.action # "close_review"

Later ==
  /\ file.review.shares <= position.shares
  /\ file.review.action \in {"reduce_review", "close_review"} => file.review.shares > 0
  /\ stage \in {"advice", "review"} =>
       file.advice = Advice(position, judged["advice"].minute - position.opened,
                            judged["advice"])
  /\ stage = "review" => Reviewed
  /\ stage = "closed" /\ file.advice = "reduce" => "force" \in world.gates
  /\ stage = "lesson" => file.lesson = LessonOf(past)

StageInv == ChainInv /\ Later

LEMMA InitStage == Init => StageInv
<1> SUFFICES ASSUME Init PROVE StageInv
  OBVIOUS
<1>1. world \in World /\ world.minute \in Nat
  BY TradeAssumption, WorldTypes DEF Init
<1>2. file = NewFile(world.minute) /\ stage = "none" /\ position = NoPosition
  BY DEF Init
<1>3. Typed
  <2>1. file \in File
    BY <1>1, <1>2, NewFileTyped
  <2>2. moves \in 0 .. MaxMoves
    BY TradeAssumption DEF Init
  <2>3. judged \in [Judges -> World]
    BY <1>1 DEF Init
  <2>4. past \in Record
    BY DEF Init, NoRecord, Record
  <2>5. position \in Position
    BY <1>2 DEF NoPosition, Position
  <2> QED
    BY <1>1, <1>2, <2>1, <2>2, <2>3, <2>4, <2>5 DEF Typed, Stages
<1>4. InOrder
  BY <1>2 DEF InOrder, NewFile, NoPlan
<1>5. Chained
  BY <1>2 DEF Chained, NewFile, NoPlan
<1>6. Opened
  BY <1>2 DEF Opened, OpenStages
<1>7. Later
  BY <1>2 DEF Later, NewFile, NoReview, NoPosition
<1> QED
  BY <1>3, <1>4, <1>5, <1>6, <1>7 DEF StageInv, ChainInv

\* The stages up to the handoff touch nothing that the later part speaks of.
LEMMA EarlyStep ==
  ASSUME StageInv,
         \/ EvaluateSession \/ RouteNextWorkflow \/ CheckStrategyEligibility
         \/ EvaluateTrigger \/ PlanExecution \/ PrecheckHandoff
  PROVE  StageInv'
<1> DEFINE keeps == /\ file'.review = file.review /\ position' = position
                    /\ stage' \notin {"advice", "review", "closed", "lesson"}
<1>1. ChainInv'
  BY SessionStep, RouteStep, EligibilityStep, TriggerStep, PlanStep, HandoffStep DEF StageInv
<1>2. file \in File
  BY DEF StageInv, ChainInv, Typed
<1>3. EvaluateSession => keeps
  BY <1>2 DEF EvaluateSession, Answers, Stay, File
<1>4. RouteNextWorkflow => keeps
  BY <1>2 DEF RouteNextWorkflow, Answers, Stay, File
<1>5. CheckStrategyEligibility => keeps
  BY <1>2 DEF CheckStrategyEligibility, Answers, Stay, File
<1>6. EvaluateTrigger => keeps
  BY <1>2 DEF EvaluateTrigger, Answers, Stay, File
<1>7. PlanExecution => keeps
  BY <1>2 DEF PlanExecution, Answers, Stay, File
<1>8. PrecheckHandoff => keeps
  BY <1>2 DEF PrecheckHandoff, Answers, Stay, File
<1>9. Later'
  BY <1>3, <1>4, <1>5, <1>6, <1>7, <1>8 DEF StageInv, Later
<1> QED
  BY <1>1, <1>9 DEF StageInv

\* The stages after the handoff add to a file whose chain they leave alone.
LEMMA LateKeeps ==
  ASSUME ChainInv, stage' \in OpenStages, file' \in File,
         file'.created = file.created, file'.session = file.session,
         file'.path = file.path, file'.eligibility = file.eligibility,
         file'.trigger = file.trigger, file'.plan = file.plan, file'.handoff = file.handoff,
         world' \in World, moves' \in 0 .. MaxMoves, past' \in Record,
         judged' \in [Judges -> World],
         \A j \in {"route", "eligibility", "trigger", "plan", "handoff"} :
           judged'[j] = judged[j],
         position' \in Position, Held(position')
  PROVE  ChainInv'
<1>1. Typed'
  BY DEF Typed, OpenStages, Stages
<1>2. InOrder'
  BY DEF InOrder, Before, OpenStages
<1>3. Chained'
  BY DEF ChainInv, Chained
<1>4. Opened'
  BY DEF Opened
<1> QED
  BY <1>1, <1>2, <1>3, <1>4 DEF ChainInv

\* What a stage after the handoff starts from.
LEMMA OpenFacts ==
  ASSUME ChainInv, stage \in OpenStages
  PROVE  /\ Typed /\ file \in File /\ world \in World /\ position \in Position
         /\ Held(position) /\ position.shares > 0 /\ position.stop > 0
BY DEF ChainInv, Opened, Typed, Held

LEMMA OpenStep == StageInv /\ OpenPosition => StageInv'
<1> SUFFICES ASSUME StageInv, OpenPosition PROVE StageInv'
  OBVIOUS
<1>1. PICK plan \in FlatPlans :
        /\ plan.shares > 0 /\ plan.entry > 0 /\ plan.stop > 0 /\ plan.target > 0
        /\ position' = [shares |-> plan.shares, entry |-> plan.entry, stop |-> plan.stop,
                        target |-> plan.target, opened |-> world.minute, exit |-> 0]
        /\ stage' = "position" /\ file' = NewFile(world.minute)
        /\ judged' = [j \in Judges |-> world]
        /\ UNCHANGED <<world, moves, past>>
  BY DEF OpenPosition
<1>2. Typed /\ file \in File /\ world \in World /\ world.minute \in Nat
  BY WorldTypes DEF StageInv, ChainInv, Typed
<1>3. plan \in FlatPlan
  BY TradeAssumption
<1>4. position' \in Position /\ Held(position')
  BY <1>1, <1>2, <1>3 DEF FlatPlan, Position, Held
<1>5. file' \in File
  BY <1>1, <1>2, NewFileTyped
<1>6. Typed'
  BY <1>1, <1>2, <1>4, <1>5 DEF Typed, Stages
<1>7. InOrder'
  BY <1>1 DEF InOrder, Before
<1>8. Chained'
  BY <1>1 DEF Chained, NewFile, NoPlan
<1>9. Opened'
  BY <1>1, <1>4 DEF Opened, OpenStages
<1>10. Later'
  <2>1. file'.review.shares = 0 /\ file'.review.action = "none" /\ position'.shares \in Nat
    BY <1>1, <1>4 DEF NewFile, NoReview, Position
  <2> QED
    BY <1>1, <2>1 DEF Later
<1> QED
  BY <1>6, <1>7, <1>8, <1>9, <1>10 DEF StageInv, ChainInv

LEMMA PositionStep == StageInv /\ EvaluatePosition => StageInv'
<1> SUFFICES ASSUME StageInv, EvaluatePosition PROVE StageInv'
  OBVIOUS
<1> DEFINE answer == Advice(position, world.minute - position.opened, world)
<1>1. /\ stage \in {"position", "advice", "review"} /\ stage' = "advice"
      /\ file' = [file EXCEPT !["advice"] = answer]
      /\ judged' = [j \in Judges |-> IF j = "advice" THEN world ELSE judged[j]]
      /\ UNCHANGED <<world, moves, past, position>>
  BY DEF EvaluatePosition, Answers, Stay
<1>2. /\ Typed /\ file \in File /\ world \in World /\ position \in Position
      /\ Held(position) /\ position.shares > 0 /\ position.stop > 0
  BY <1>1, OpenFacts DEF StageInv, OpenStages
<1>3. answer \in Actions
  <2>1. world.minute - position.opened \in Int
    BY <1>2, WorldTypes DEF Position
  <2> QED
    BY <1>2, <2>1, AdviceRule
<1>4. judged'["advice"] = world
  BY <1>1 DEF Judges
<1>5. judged' \in [Judges -> World]
      /\ \A j \in {"route", "eligibility", "trigger", "plan", "handoff"} :
           judged'[j] = judged[j]
  BY <1>1, <1>2 DEF Typed, Judges
<1>6. file'.advice = Advice(position', judged'["advice"].minute - position'.opened,
                            judged'["advice"])
  BY <1>1, <1>2, <1>4 DEF File
<1> HIDE DEF answer
<1>7. /\ file' \in File /\ file'.review = file.review
      /\ file'.created = file.created /\ file'.session = file.session
      /\ file'.path = file.path /\ file'.eligibility = file.eligibility
      /\ file'.trigger = file.trigger /\ file'.plan = file.plan /\ file'.handoff = file.handoff
  BY <1>1, <1>2, <1>3 DEF File
<1>8. ChainInv'
  <2>1. /\ stage' \in OpenStages /\ ChainInv
        /\ world' \in World /\ moves' \in 0 .. MaxMoves /\ past' \in Record
        /\ position' \in Position /\ Held(position')
    BY <1>1, <1>2 DEF StageInv, OpenStages, Typed
  <2> QED
    BY <1>5, <1>7, <2>1, LateKeeps
<1>9. Later'
  BY <1>1, <1>6, <1>7 DEF StageInv, Later
<1> QED
  BY <1>8, <1>9 DEF StageInv

\* Both reviews: the position keeps all but its exit.
LEMMA ReviewsStep ==
  ASSUME StageInv, stage = "advice",
         NEW asked \in {file.advice,
                        IF file.advice = "reduce" THEN "reduce" ELSE "exit_review"},
         NEW s \in {"review", "closed"},
         Answers({"advice"}, s, "review", ReviewOf(asked, position, world)),
         \/ s = "review" /\ position' = position
         \/ s = "closed" /\ position' = [position EXCEPT !.exit = world.price],
         \/ s = "review" /\ asked = file.advice
         \/ s = "closed" /\ ReviewOf(asked, position, world).action = "close_review"
         \/ s = "review" /\ ReviewOf(asked, position, world).action # "close_review"
  PROVE  StageInv'
<1> DEFINE answer == ReviewOf(asked, position, world)
<1>1. /\ stage' = s /\ file' = [file EXCEPT !["review"] = answer]
      /\ judged' = [j \in Judges |-> IF j = s THEN world ELSE judged[j]]
      /\ UNCHANGED <<world, moves, past>>
  BY DEF Answers
<1>2. /\ Typed /\ file \in File /\ world \in World /\ position \in Position
      /\ Held(position) /\ position.shares > 0 /\ position.stop > 0
  BY OpenFacts DEF StageInv, OpenStages
<1>3. /\ answer \in Review /\ answer.shares <= position.shares
      /\ answer.action \in {"reduce_review", "close_review"} => answer.shares > 0
  BY <1>2, ReviewRule
<1>4. /\ position' \in Position /\ Held(position')
      /\ position'.shares = position.shares
  <2>1. world.price \in Nat
    BY <1>2, WorldTypes
  <2> QED
    BY <1>2, <2>1 DEF Position, Held
<1>5. judged' \in [Judges -> World]
      /\ \A j \in {"route", "eligibility", "trigger", "plan", "handoff", "advice"} :
           judged'[j] = judged[j]
  BY <1>1, <1>2 DEF Typed, Judges
<1>6. ASSUME s = "review"
      PROVE  judged'["review"] = world /\ position' = position
  BY <1>1, <1>6 DEF Judges
<1>7. file'.review = answer
  BY <1>1, <1>2 DEF File
<1> HIDE DEF answer
<1>8. /\ file' \in File /\ file'.advice = file.advice
      /\ file'.created = file.created /\ file'.session = file.session
      /\ file'.path = file.path /\ file'.eligibility = file.eligibility
      /\ file'.trigger = file.trigger /\ file'.plan = file.plan /\ file'.handoff = file.handoff
  BY <1>1, <1>2, <1>3 DEF File
<1>9. ChainInv'
  <2>1. /\ stage' \in OpenStages /\ ChainInv
        /\ world' \in World /\ moves' \in 0 .. MaxMoves /\ past' \in Record
    BY <1>1, <1>2 DEF StageInv, OpenStages, Typed
  <2> QED
    BY <1>4, <1>5, <1>8, <2>1, LateKeeps
<1>10. CASE s = "closed"
  <2>1. file'.advice = "reduce" => "force" \in world'.gates
    <3> SUFFICES ASSUME file.advice = "reduce" PROVE "force" \in world.gates
      BY <1>1, <1>8
    <3>1. asked # "exit_review" /\ answer.action = "close_review"
      BY <1>10 DEF answer
    <3> QED
      BY <1>2, <3>1, ReviewRule DEF answer
  <2>2. Later'
    BY <1>1, <1>3, <1>4, <1>7, <1>10, <2>1 DEF Later
  <2> QED
    BY <1>9, <2>2 DEF StageInv
<1>11. CASE s = "review"
  <2>1. file'.advice = Advice(position', judged'["advice"].minute - position'.opened,
                              judged'["advice"])
    BY <1>5, <1>6, <1>8, <1>11 DEF StageInv, Later
  <2>2. /\ asked \in {file'.advice,
                     IF file'.advice = "reduce" THEN "reduce" ELSE "exit_review"}
        /\ file'.review = ReviewOf(asked, position', judged'["review"])
        /\ asked # file'.advice => file'.review.action # "close_review"
    BY <1>6, <1>7, <1>8, <1>11 DEF answer
  <2>3. Reviewed'
    BY <2>2 DEF Reviewed
  <2>4. Later'
    BY <1>1, <1>3, <1>4, <1>7, <1>11, <2>1, <2>3 DEF Later
  <2> QED
    BY <1>9, <2>4 DEF StageInv
<1> QED
  BY <1>10, <1>11

LEMMA CloseReviewStep == StageInv /\ ReviewClosePosition => StageInv'
<1> SUFFICES ASSUME StageInv, ReviewClosePosition PROVE StageInv'
  OBVIOUS
<1>1. /\ stage = "advice" /\ position' = position
      /\ Answers({"advice"}, "review", "review", ReviewOf(file.advice, position, world))
  BY DEF ReviewClosePosition, Answers, Stay
<1> QED
  BY <1>1, ReviewsStep

LEMMA CloseAgentStep == StageInv /\ RunCloseReviewAgent => StageInv'
<1> SUFFICES ASSUME StageInv, RunCloseReviewAgent PROVE StageInv'
  OBVIOUS
<1> DEFINE asked == IF file.advice = "reduce" THEN "reduce" ELSE "exit_review"
           review == ReviewOf(asked, position, world)
           s == IF review.action = "close_review" THEN "closed" ELSE "review"
<1>1. /\ Answers({"advice"}, s, "review", review)
      /\ position' = IF review.action = "close_review"
                     THEN [position EXCEPT !.exit = world.price] ELSE position
  BY DEF RunCloseReviewAgent
<1>2. stage = "advice"
  BY <1>1 DEF Answers
<1> HIDE DEF review, asked
<1>3. CASE review.action = "close_review"
  BY <1>1, <1>2, <1>3, ReviewsStep DEF review, asked
<1>4. CASE review.action # "close_review"
  BY <1>1, <1>2, <1>4, ReviewsStep DEF review, asked
<1> QED
  BY <1>3, <1>4

LEMMA PostTradeStep == StageInv /\ EvaluatePostTrade => StageInv'
<1> SUFFICES ASSUME StageInv, EvaluatePostTrade PROVE StageInv'
  OBVIOUS
<1> DEFINE answer == LabelOf(position, position.exit)
<1>1. /\ stage = "closed" /\ stage' = "label"
      /\ file' = [file EXCEPT !["label"] = answer]
      /\ UNCHANGED <<world, moves, position, judged>>
  BY DEF EvaluatePostTrade
<1>2. /\ Typed /\ file \in File /\ world \in World /\ position \in Position
      /\ Held(position) /\ position.stop > 0
  BY <1>1, OpenFacts DEF StageInv, OpenStages
<1>3. past' \in Record
  <2>1. PICK record \in Records :
          past' = Learned(record, OutcomeOf(position, position.exit))
    BY DEF EvaluatePostTrade
  <2>2. record \in Record /\ position.exit \in Int
    BY <1>2, TradeAssumption DEF Position
  <2> QED
    BY <1>2, <2>1, <2>2, LearnedRule
<1>4. answer \in Labels
  BY LabelRule
<1> HIDE DEF answer
<1>5. /\ file' \in File /\ file'.review = file.review
      /\ file'.created = file.created /\ file'.session = file.session
      /\ file'.path = file.path /\ file'.eligibility = file.eligibility
      /\ file'.trigger = file.trigger /\ file'.plan = file.plan /\ file'.handoff = file.handoff
  BY <1>1, <1>2, <1>4 DEF File
<1>6. ChainInv'
  <2>1. /\ stage' \in OpenStages /\ ChainInv
        /\ world' \in World /\ moves' \in 0 .. MaxMoves
        /\ position' \in Position /\ Held(position')
        /\ judged' \in [Judges -> World] /\ \A j : judged'[j] = judged[j]
    BY <1>1, <1>2 DEF StageInv, OpenStages, Typed
  <2> QED
    BY <1>3, <1>5, <2>1, LateKeeps
<1>7. Later'
  BY <1>1, <1>5 DEF StageInv, Later
<1> QED
  BY <1>6, <1>7 DEF StageInv

LEMMA LearningStep == StageInv /\ EvaluateLearningLoop => StageInv'
<1> SUFFICES ASSUME StageInv, EvaluateLearningLoop PROVE StageInv'
  OBVIOUS
<1> DEFINE answer == LessonOf(past)
<1>1. /\ stage = "label" /\ stage' = "lesson"
      /\ file' = [file EXCEPT !["lesson"] = answer]
      /\ judged' = [j \in Judges |-> IF j = "lesson" THEN world ELSE judged[j]]
      /\ UNCHANGED <<world, moves, past, position>>
  BY DEF EvaluateLearningLoop, Answers, Stay
<1>2. /\ Typed /\ file \in File /\ world \in World /\ position \in Position
      /\ Held(position)
  BY <1>1, OpenFacts DEF StageInv, OpenStages
<1>3. answer \in Lessons
  BY <1>2, LessonRule DEF Typed, Lessons
<1>4. judged' = judged
  BY <1>1, <1>2 DEF Typed, Judges
<1>5. file'.lesson = LessonOf(past')
  BY <1>1, <1>2 DEF File
<1> HIDE DEF answer
<1>6. /\ file' \in File /\ file'.review = file.review
      /\ file'.created = file.created /\ file'.session = file.session
      /\ file'.path = file.path /\ file'.eligibility = file.eligibility
      /\ file'.trigger = file.trigger /\ file'.plan = file.plan /\ file'.handoff = file.handoff
  BY <1>1, <1>2, <1>3 DEF File
<1>7. ChainInv'
  <2>1. /\ stage' \in OpenStages /\ ChainInv
        /\ world' \in World /\ moves' \in 0 .. MaxMoves /\ past' \in Record
        /\ position' \in Position /\ Held(position')
        /\ judged' \in [Judges -> World] /\ \A j : judged'[j] = judged[j]
    BY <1>1, <1>2, <1>4 DEF StageInv, OpenStages, Typed
  <2> QED
    BY <1>6, <2>1, LateKeeps
<1>8. Later'
  BY <1>1, <1>5, <1>6 DEF StageInv, Later
<1> QED
  BY <1>7, <1>8 DEF StageInv

LEMMA MoveStep == StageInv /\ WorldMoves => StageInv'
<1> SUFFICES ASSUME StageInv, WorldMoves PROVE StageInv'
  OBVIOUS
<1>1. /\ moves > 0 /\ moves' = moves - 1 /\ world' \in Drifts(world)
      /\ UNCHANGED <<stage, file, position, judged, past>>
  BY DEF WorldMoves
<1>2. Typed
  BY DEF StageInv, ChainInv
<1>3. world' \in World /\ moves' \in 0 .. MaxMoves
  <2>1. world' \in World
    BY <1>1, <1>2, WorldStaysTyped DEF Typed
  <2>2. moves' \in 0 .. MaxMoves
    BY <1>1, <1>2, TradeAssumption DEF Typed
  <2> QED
    BY <2>1, <2>2
<1>4. Typed'
  BY <1>1, <1>2, <1>3 DEF Typed
<1>5. InOrder' /\ Chained' /\ Opened'
  BY <1>1 DEF StageInv, ChainInv, InOrder, Chained, Opened
<1>6. Later'
  <2>1. stage # "closed"
    BY DEF WorldMoves
  <2> QED
    BY <1>1, <2>1 DEF StageInv, Later, Reviewed
<1> QED
  BY <1>4, <1>5, <1>6 DEF StageInv, ChainInv

LEMMA StageInvariant == StagesSpec => []StageInv
<1>1. StageInv /\ [Next]_vars => StageInv'
  <2> SUFFICES ASSUME StageInv, [Next]_vars PROVE StageInv'
    OBVIOUS
  <2>1. CASE UNCHANGED vars
    BY <2>1 DEF vars, StageInv, ChainInv, Typed, InOrder, Chained, Opened, Later, Reviewed
  <2>2. CASE Next
    BY <2>2, EarlyStep, OpenStep, PositionStep, CloseReviewStep, CloseAgentStep,
       PostTradeStep, LearningStep, MoveStep DEF Next
  <2> QED
    BY <2>1, <2>2
<1> QED
  BY <1>1, InitStage, PTL DEF StagesSpec

----------------------------------------------------------------------------
(* Theorems *)

\* Type correctness: every stage gives one of its answers, an open position has shares and
\* levels, and no review sells more than is held or reduces by nothing.
THEOREM StageTypes == StagesSpec => []StagesTypeOK
<1>1. StageInv => StagesTypeOK
  <2> SUFFICES ASSUME StageInv PROVE StagesTypeOK
    OBVIOUS
  <2>1. Typed /\ file \in File /\ position \in Position
    BY DEF StageInv, ChainInv, Typed
  <2>2. /\ file.session \in Sessions \cup {"none"} /\ file.path \in Paths \cup {"none"}
        /\ file.eligibility \in Eligibilities \cup {"none"}
        /\ file.trigger \in TriggerStates \cup {"none"}
        /\ file.handoff \in {"none", "passed", "blocked"}
        /\ file.advice \in Actions \cup {"none"}
        /\ file.label \in Labels \cup {"none"} /\ file.lesson \in Lessons \cup {"none"}
    BY <2>1 DEF File
  <2>3. file.plan.status \in {"none", "planned", "blocked"} /\ file.plan.shares \in Nat
    BY <2>1 DEF File, Plan
  <2>4. file.review.action \in ReviewActions \cup {"none"} /\ file.review.shares \in Nat
    BY <2>1 DEF File, Review
  <2>5. /\ position.shares \in Nat
        /\ stage \in OpenStages =>
             /\ position.shares > 0 /\ position.entry > 0
             /\ position.stop > 0 /\ position.target > 0
    BY <2>1 DEF StageInv, ChainInv, Opened, Held, Position
  <2>6. /\ file.review.shares \in 0 .. position.shares
        /\ file.review.action \in {"reduce_review", "close_review"} => file.review.shares > 0
    BY <2>4, <2>5 DEF StageInv, Later
  <2> QED
    BY <2>1, <2>2, <2>3, <2>4, <2>5, <2>6 DEF StagesTypeOK, Typed, Position
<1> QED
  BY <1>1, StageInvariant, PTL

\* A handoff that passed has the whole chain of stages behind it.
THEOREM HandoffBacked == StagesSpec => []HandoffIsBacked
<1>1. StageInv => HandoffIsBacked
  <2> SUFFICES ASSUME StageInv, stage = "handoff", file.handoff = "passed"
               PROVE  /\ judged["eligibility"].proof = "proven"
                      /\ MomentumRequirements(judged["eligibility"])
                      /\ judged["trigger"].minute < file.created + TriggerMinutes
                      /\ judged["trigger"].quality = "pass"
                      /\ "invalidated" \notin judged["trigger"].signals
                      /\ Permitted(judged["plan"])
                      /\ {"stop", "force", "live"} \cap judged["handoff"].gates = {}
                      /\ {"paper", "execution", "workflow"} \subseteq judged["handoff"].gates
    BY DEF HandoffIsBacked
  <2>1. /\ file.plan.status = "planned" /\ HandoffGates(file.plan.readiness)
        /\ HandoffGates(judged["handoff"].gates)
    BY DEF StageInv, ChainInv, Chained
  <2>2. /\ file.trigger = "fired" /\ PlanGates(judged["plan"])
        /\ file.plan.readiness = judged["plan"].gates
    BY <2>1 DEF StageInv, ChainInv, Chained
  <2>3. /\ file.eligibility = "eligible"
        /\ judged["trigger"].minute < file.created + TriggerMinutes
        /\ judged["trigger"].quality = "pass"
        /\ "invalidated" \notin judged["trigger"].signals
    BY <2>2 DEF StageInv, ChainInv, Chained
  <2>4. /\ judged["eligibility"].proof = "proven"
        /\ MomentumRequirements(judged["eligibility"])
    BY <2>3 DEF StageInv, ChainInv, Chained
  <2>5. Permitted(judged["plan"])
    BY <2>1, <2>2 DEF Permitted, PlanGates, HandoffGates
  <2>6. /\ {"stop", "force", "live"} \cap judged["handoff"].gates = {}
        /\ {"paper", "execution", "workflow"} \subseteq judged["handoff"].gates
    BY <2>1 DEF HandoffGates
  <2> QED
    BY <2>3, <2>4, <2>5, <2>6
<1> QED
  BY <1>1, StageInvariant, PTL

\* Every plan that is planned has as many shares as the limits allow at its price and no
\* more, whatever the quotes, the limits and the multiple.
THEOREM StakeLimited == StagesSpec => []StakeIsLargest
<1>1. StageInv => StakeIsLargest
  <2> SUFFICES ASSUME StageInv, file.plan.status = "planned"
               PROVE  Within(file.plan, file.plan.shares)
                      /\ ~ Within(file.plan, file.plan.shares + 1)
    BY DEF StakeIsLargest, Within
  <2> QED
    BY DEF StageInv, ChainInv, Chained, Sound
<1> QED
  BY <1>1, StageInvariant, PTL

\* In a world that holds still nothing is planned on a blocked route, but for the
\* broker's readiness.
THEOREM RouteFollowed == StagesSpec => []PlanFollowsRoute
<1>1. StageInv => PlanFollowsRoute
  <2> DEFINE routed == judged["route"]
  <2> SUFFICES ASSUME StageInv, file.plan.status = "planned",
                      \A s \in {"eligibility", "trigger", "plan"} : judged[s] = routed,
                      BlockedPath(file.path)
               PROVE  file.session = "market_open" /\ "broker_ready" \notin routed.gates
    BY DEF PlanFollowsRoute
  <2>1. routed \in World
    BY DEF StageInv, ChainInv, Typed, Judges
  <2>2. judged["eligibility"] = routed /\ judged["trigger"] = routed /\ judged["plan"] = routed
    OBVIOUS
  <2>3. file.path = PathFor(file.session, routed)
    BY DEF StageInv, ChainInv, Chained, BlockedPath
  <2>4. file.trigger = "fired" /\ PlanGates(routed)
    BY <2>2 DEF StageInv, ChainInv, Chained
  <2>5. file.eligibility = "eligible" /\ routed.quality = "pass"
    BY <2>2, <2>4 DEF StageInv, ChainInv, Chained
  <2>6. routed.proof = "proven" /\ MomentumRequirements(routed)
    BY <2>2, <2>5 DEF StageInv, ChainInv, Chained
  <2>7. routed.liquidity = "good"
    BY <2>6 DEF MomentumRequirements
  <2>8. {"budget", "paper"} \subseteq routed.gates
    BY <2>4 DEF PlanGates
  <2> HIDE DEF routed
  <2> QED
    BY <2>1, <2>3, <2>5, <2>6, <2>7, <2>8, PathRule
<1> QED
  BY <1>1, StageInvariant, PTL

\* A review of a position that is to be left asks for its close; a limit that was reached
\* is at least not answered with a hold; a review asks for a close or a reduction only with
\* a cause; and close_review_agent closes what is to be reduced only under a force close.
THEOREM ExitsFinal == StagesSpec => []ExitsAreFinal
<1>1. ASSUME StageInv, stage = "review"
      PROVE  LET w == judged["advice"]
                 minutes == w.minute - position.opened
                 force == "force" \in judged["review"].gates
                 leave == Leave(position, minutes, w) \/ force
                 close == file.review.action = "close_review"
             IN /\ leave \/ (Limit(w) /\ ~ High(position, w)) => close
                /\ Limit(w) => file.review.action # "hold"
                /\ close => leave \/ Touched(position, w) \/ Limit(w)
                /\ file.review.action = "reduce_review" => High(position, w)
  <2> DEFINE w == judged["advice"]
             minutes == w.minute - position.opened
             v == judged["review"]
             advice == Advice(position, minutes, w)
  <2>1. position \in Position /\ position.shares > 0 /\ position.stop > 0
    BY <1>1, OpenFacts DEF StageInv, OpenStages
  <2>2. w \in World /\ v \in World
    BY <1>1 DEF StageInv, ChainInv, Typed, Judges
  <2>3. minutes \in Int
    BY <2>1, <2>2, WorldTypes DEF Position
  <2>4. file.advice = advice
    BY <1>1 DEF StageInv, Later
  <2>5. PICK asked \in {advice, IF advice = "reduce" THEN "reduce" ELSE "exit_review"} :
          /\ file.review = ReviewOf(asked, position, v)
          /\ asked # advice => file.review.action # "close_review"
    BY <1>1, <2>4 DEF StageInv, Later, Reviewed
  <2> HIDE DEF w, minutes, v, advice
  <2>6. /\ Leave(position, minutes, w) => advice = "exit_review"
        /\ Limit(w) => advice \in {"exit_review", "reduce"}
        /\ advice = "exit_review" =>
             Leave(position, minutes, w) \/ Touched(position, w) \/ Limit(w)
        /\ advice = "reduce" => High(position, w)
    BY <2>1, <2>2, <2>3, AdviceRule DEF advice
  <2>7. /\ "force" \in v.gates => file.review.action = "close_review"
        /\ asked = "exit_review" => file.review.action = "close_review"
        /\ file.review.action = "close_review" => "force" \in v.gates \/ asked = "exit_review"
        /\ file.review.action = "reduce_review" => asked = "reduce"
        /\ file.review.action = "hold" => asked \in {"hold", "watch"}
    BY <2>1, <2>2, <2>5, ReviewRule
  <2>8. asked = advice
    BY <2>5, <2>7
  <2>9. /\ \/ Leave(position, minutes, w) \/ "force" \in v.gates
           \/ Limit(w) /\ ~ High(position, w)
           => file.review.action = "close_review"
        /\ Limit(w) => file.review.action # "hold"
        /\ file.review.action = "close_review" =>
             \/ Leave(position, minutes, w) \/ "force" \in v.gates
             \/ Touched(position, w) \/ Limit(w)
        /\ file.review.action = "reduce_review" => High(position, w)
    BY <2>6, <2>7, <2>8
  <2> QED
    BY <2>9 DEF w, minutes, v
<1>2. ASSUME StageInv, stage = "closed", file.advice = "reduce"
      PROVE  "force" \in world.gates
  BY <1>2 DEF StageInv, Later
<1>3. StageInv => ExitsAreFinal
  BY <1>1, <1>2 DEF ExitsAreFinal, Leave, Late, Touched, Limit, High
<1> QED
  BY <1>3, StageInvariant, PTL

\* A drawdown or a slump more.
LEMMA RecordWith ==
  ASSUME NEW record \in Record, NEW worse,
         \/ worse = [record EXCEPT !.drawdown = TRUE]
         \/ worse = [record EXCEPT !.slump = TRUE]
  PROVE  /\ worse \in Record /\ worse.n = record.n /\ worse.r = record.r
         /\ worse.claimed = record.claimed
         /\ worse.violations = record.violations /\ worse.slips = record.slips
         /\ record.drawdown => worse.drawdown
         /\ record.slump => worse.slump
<1>1. PICK b \in BOOLEAN : b = TRUE
  OBVIOUS
<1>2. \/ worse = [record EXCEPT !.drawdown = b]
      \/ worse = [record EXCEPT !.slump = b]
  BY <1>1
<1>3. /\ worse \in Record /\ worse.n = record.n /\ worse.r = record.r
      /\ worse.claimed = record.claimed
      /\ worse.violations = record.violations /\ worse.slips = record.slips
      /\ worse.drawdown \in {b, record.drawdown}
      /\ worse.slump \in {b, record.slump}
  BY <1>2 DEF Record
<1>4. record.drawdown => worse.drawdown
  BY <1>1, <1>3
<1>5. record.slump => worse.slump
  BY <1>1, <1>3
<1> QED
  BY <1>3, <1>4, <1>5

\* A worse record is never judged better.
THEOREM NeverBetter == StagesSpec => []WorseIsNeverBetter
<1>1. StageInv => WorseIsNeverBetter
  <2> SUFFICES ASSUME StageInv, stage = "lesson",
                      NEW worse \in {[past EXCEPT !.drawdown = TRUE],
                                     [past EXCEPT !.slump = TRUE],
                                     [past EXCEPT !.slips = @ + 1],
                                     [past EXCEPT !.violations = @ + 1]}
                                    \cup {[past EXCEPT !.r = @ - d] : d \in {1, 100, 1000}}
               PROVE  Rank(LessonOf(worse)) <= Rank(file.lesson)
    BY DEF WorseIsNeverBetter
  <2>1. past \in Record /\ file.lesson = LessonOf(past)
    BY DEF StageInv, ChainInv, Typed, Later
  <2>2. /\ worse \in Record /\ worse.n = past.n /\ worse.r <= past.r
        /\ worse.claimed = past.claimed
        /\ worse.violations >= past.violations /\ worse.slips >= past.slips
        /\ past.drawdown => worse.drawdown
        /\ past.slump => worse.slump
    <3>1. /\ past.n \in Nat /\ past.r \in Int /\ past.violations \in Nat /\ past.slips \in Nat
      BY <2>1 DEF Record
    <3>2. CASE worse \in {[past EXCEPT !.drawdown = TRUE], [past EXCEPT !.slump = TRUE]}
      <4>1. /\ worse \in Record /\ worse.n = past.n /\ worse.r = past.r
            /\ worse.claimed = past.claimed
            /\ worse.violations = past.violations /\ worse.slips = past.slips
            /\ past.drawdown => worse.drawdown
            /\ past.slump => worse.slump
        BY <2>1, <3>2, RecordWith
      <4> QED
        BY <3>1, <4>1
    <3>3. CASE worse = [past EXCEPT !.slips = @ + 1]
      BY <2>1, <3>1, <3>3 DEF Record
    <3>4. CASE worse = [past EXCEPT !.violations = @ + 1]
      BY <2>1, <3>1, <3>4 DEF Record
    <3>5. CASE \E d \in {1, 100, 1000} : worse = [past EXCEPT !.r = @ - d]
      <4>1. PICK d \in {1, 100, 1000} : worse = [past EXCEPT !.r = past.r - d]
        BY <3>5
      <4>2. d \in Int /\ d > 0 /\ past.r - d \in Int
        BY <3>1
      <4> QED
        BY <2>1, <3>1, <4>1, <4>2 DEF Record
    <3> QED
      BY <3>2, <3>3, <3>4, <3>5
  <2> QED
    BY <2>1, <2>2, WorseRanks
<1> QED
  BY <1>1, StageInvariant, PTL

=============================================================================
