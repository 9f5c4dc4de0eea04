--------------------------- MODULE ModelPromotion ---------------------------
(***************************************************************************)
(* app/services/model_promotion_service.py and what it reads: the evidence *)
(* that lets a model score, and the reviews that promote one.              *)
(*                                                                         *)
(* Artifacts, evaluations, calibrations, backtests and reviews are rows    *)
(* that are only ever added, each by one call; without Postgres a call     *)
(* answers like any other and saves nothing.  The gate of a model is       *)
(* computed by five queries, one after the other, and other calls may come *)
(* between any two of them.                                                *)
(*                                                                         *)
(* Of the metrics of a run only the sample size and two answers are kept:  *)
(* is every metric that has a threshold within it, and is there one of     *)
(* quality.  Names, dates, notes and warnings are left out, and so is a    *)
(* sample size that is no number: "nan" is below no minimum and passes.    *)
(***************************************************************************)
EXTENDS Integers, FiniteSets

CONSTANTS
  Workers,        \* threads that run handlers
  Models,         \* model keys
  Baseline,       \* weighted_ranker_v1
  Registered,     \* the models of the registry
  Coined,         \* review ids that are not the id of a review: negative numbers
  KeyOf,          \* what such an id has before its first ":", or "unknown"
  Metrics,        \* the metrics a client may hand in
  Demands,        \* the minimum sample sizes a client may ask of an evaluation
  MinSample,      \* the one a calibration has to have, and the default
  Window,         \* runs and reviews a query looks at, the newest ones
  ArtifactWindow, \* the same for artifacts
  MaxRows,        \* bound: calls that add a row
  Loads           \* bound: the demands, of which each behaviour has one: so many
                  \* calls of each kind, so many outages of Postgres, and the models
                  \* that have all of their evidence before it starts

Kinds == {"evaluation", "calibration", "backtest"}
NoMetrics == [sample |-> -1, sound |-> FALSE, quality |-> FALSE]
Measures == [sample : Nat, sound : BOOLEAN, quality : BOOLEAN]

\* Metrics that pass whatever is asked.
Best == {x \in Metrics : /\ x # NoMetrics /\ x.sound /\ x.quality
                         /\ \A d \in Demands \cup {MinSample} : x.sample >= d}

ASSUME PromotionAssumption ==
  /\ Baseline \in Models /\ Registered \subseteq Models
  /\ "unknown" \notin Models
  /\ KeyOf \in [Coined -> Models \cup {"unknown"}]
  /\ Coined \subseteq Int \ Nat
  /\ Metrics \subseteq Measures \cup {NoMetrics}
  /\ Demands \subseteq Nat /\ MinSample \in Nat
  /\ {Window, ArtifactWindow} \subseteq Nat \ {0}
  /\ MaxRows \in Nat
  /\ Loads \subseteq [artifact : Nat, evaluation : Nat, calibration : Nat,
                      backtest : Nat, request : Nat, decision : Nat, status : Nat,
                      outages : Nat, proven : SUBSET Models]
  /\ \A load \in Loads : load.proven # {} => MaxRows >= 4 /\ Best # {}

VARIABLES
  budget,     \* what is left of the demand
  dbUp,       \* Postgres is there
  added,      \* calls so far that add a row; a row is named by its call
  artifacts,  \* rows of model_artifacts
  runs,       \* rows of the evaluations, calibrations and backtests
  reviews,    \* rows of model_promotion_reviews
  at,         \* the query each worker makes next
  gate,       \* the gate each worker is computing
  eligible    \* history: models that were answered to be eligible

tables == <<artifacts, runs, reviews>>
vars == <<budget, dbUp, added, tables, at, gate, eligible>>

Rows     == 1 .. MaxRows
Artifact == [n : Rows, model : Models, status : {"registered", "missing"}]
Run      == [n : Rows, model : Models, metrics : Metrics, symbols : BOOLEAN,
             passed : BOOLEAN,
             status : {"passed", "failed", "insufficient_data", "blocked", "pending"}]

\* A review is asked for (of is 0), or decides on another one, or on nothing.
Review   == [n : Rows, of : 0 .. MaxRows \cup Coined, model : Models \cup {"unknown"},
             artifact : 0 .. MaxRows, decision : {"approved", "pending", "rejected"},
             owner : BOOLEAN, live : BOOLEAN]

Queries == {"artifact", "evaluation", "calibration", "backtest", "promotion", "answer"}

\* What was asked, and what the queries have found: the artifact, the kinds of run
\* that passed, and an approval, which may be for live use.
Gate    == [model : Models, ask : {"status", "request"}, claim : 0 .. MaxRows,
            owner : BOOLEAN, wants : BOOLEAN, artifact : 0 .. MaxRows,
            found : SUBSET Kinds, approval : {"none", "plain", "live"}]

NewGate(m, ask, claim, owner, wants) ==
  [model |-> m, ask |-> ask, claim |-> claim, owner |-> owner, wants |-> wants,
   artifact |-> 0, found |-> {}, approval |-> "none"]

IdleGate == NewGate(Baseline, "status", 0, FALSE, FALSE)

PromotionTypeOK ==
  /\ dbUp \in BOOLEAN /\ added \in 0 .. MaxRows
  /\ artifacts \subseteq Artifact
  /\ runs \in [Kinds -> SUBSET Run]
  /\ reviews \subseteq Review
  /\ at \in [Workers -> {"idle"} \cup Queries]
  /\ gate \in [Workers -> Gate]
  /\ eligible \subseteq Models

Ages == [evaluation |-> 2, calibration |-> 3, backtest |-> 4]

Init ==
  /\ budget \in Loads
  /\ dbUp = TRUE /\ added = IF budget.proven = {} THEN 0 ELSE 4
  /\ artifacts = {[n |-> 1, model |-> m, status |-> "registered"] : m \in budget.proven}
  /\ runs = [k \in Kinds |->
       {[n |-> Ages[k], model |-> m, metrics |-> CHOOSE x \in Best : TRUE,
         symbols |-> TRUE, passed |-> TRUE, status |-> "passed"] : m \in budget.proven}]
  /\ reviews = {}
  /\ at = [t \in Workers |-> "idle"]
  /\ gate = [t \in Workers |-> IdleGate]
  /\ eligible = {}

----------------------------------------------------------------------------
(* Saving and querying *)

Spend(what) == budget[what] > 0 /\ budget' = [budget EXCEPT ![what] = @ - 1]

\* try_save: a row whose key is taken is not saved either.
Saved(table, row, taken) == IF dbUp /\ ~taken THEN table \cup {row} ELSE table

NewRow == added < MaxRows /\ added' = added + 1

\* Fault: the rows are limited before those of the model are picked.
NewestOfAny(table, m, limit) ==
  IF dbUp THEN {r \in table : r.model = m /\ Cardinality({s \in table : s.n > r.n}) < limit}
  ELSE {}

\* list_records: the newest rows of a model, of which a caller picks some.
Newest(table, m, limit) ==
  LET mine == {r \in table : r.model = m}
  IN IF dbUp THEN {r \in mine : Cardinality({s \in mine : s.n > r.n}) < limit} ELSE {}

\* The newest of some rows, alone in a set.
Latest(rows) == {r \in rows : \A s \in rows : s.n <= r.n}

----------------------------------------------------------------------------
(* Evidence *)

\* register_model_artifact.
RegisterArtifact(m, status) ==
  /\ Spend("artifact") /\ NewRow
  /\ artifacts' = Saved(artifacts, [n |-> added + 1, model |-> m, status |-> status], FALSE)
  /\ UNCHANGED <<dbUp, runs, reviews, at, gate, eligible>>

\* evaluate_metrics, over the minimum sample the request asks for.
EvaluationVerdict(metrics, sample) ==
  IF metrics = NoMetrics THEN "insufficient_data"
  ELSE IF metrics.sample >= sample /\ metrics.sound /\ metrics.quality THEN "passed"
  ELSE "failed"

\* evaluate_calibration; the minimum is not the client's.
CalibrationVerdict(metrics) ==
  IF metrics = NoMetrics THEN "insufficient_data"
  ELSE IF metrics.sample >= MinSample /\ metrics.sound THEN "passed"
  ELSE "failed"

AddRun(kind, m, metrics, symbols, passed, status) ==
  /\ Spend(kind) /\ NewRow
  /\ runs' = [runs EXCEPT ![kind] =
       Saved(@, [n |-> added + 1, model |-> m, metrics |-> metrics, symbols |-> symbols,
                 passed |-> passed, status |-> status], FALSE)]
  /\ UNCHANGED <<dbUp, artifacts, reviews, at, gate, eligible>>

CreateEvaluation(m, metrics, sample) ==
  LET verdict == EvaluationVerdict(metrics, sample)
  IN AddRun("evaluation", m, metrics, TRUE, verdict = "passed", verdict)

CreateCalibration(m, metrics) ==
  LET verdict == CalibrationVerdict(metrics)
  IN AddRun("calibration", m, metrics, TRUE, verdict = "passed", verdict)

\* Fault: the client's word is taken without metrics.
BacktestClaimed(claim, metrics, symbols) ==
  IF ~symbols THEN [passed |-> FALSE, status |-> "blocked"] ELSE claim

\* create_model_backtest_request: the client says whether it passed, but needs
\* metrics to say so, and symbols in any case.
BacktestVerdict(claim, metrics, symbols) ==
  IF ~symbols THEN [passed |-> FALSE, status |-> "blocked"]
  ELSE IF claim.passed /\ metrics = NoMetrics THEN [passed |-> FALSE, status |-> "failed"]
  ELSE claim

CreateBacktest(m, claim, metrics, symbols) ==
  LET verdict == BacktestVerdict(claim, metrics, symbols)
  IN AddRun("backtest", m, metrics, symbols, verdict.passed, verdict.status)

\* get_latest_passed_model_evaluation and the like: a run that passed, if it is
\* among the newest; it need not be of the model's present artifact.
Counted(kind, m) ==
  {r \in Newest(runs[kind], m, Window) : r.passed /\ r.status = "passed"}

----------------------------------------------------------------------------
(* The gate *)

Goes(t, from, to) == at[t] = from /\ at' = [at EXCEPT ![t] = to]

Answers(t) == Goes(t, "answer", "idle") /\ gate' = [gate EXCEPT ![t] = IdleGate]

\* GET status, or POST request with what the client claims.
AskGate(t, m, ask, claim, owner, wants) ==
  /\ Spend(ask)
  /\ Goes(t, "idle", "artifact")
  /\ gate' = [gate EXCEPT ![t] = NewGate(m, ask, claim, owner, wants)]
  /\ UNCHANGED <<dbUp, added, tables, eligible>>

\* get_latest_valid_model_artifact: one, or none, which is 0.
ValidArtifact(m) ==
  LET valid == {a \in Newest(artifacts, m, ArtifactWindow) : a.status = "registered"}
  IN IF valid = {} THEN {0} ELSE {a.n : a \in Latest(valid)}

QueryArtifact(t) ==
  /\ Goes(t, "artifact", "evaluation")
  /\ \E n \in ValidArtifact(gate[t].model) : gate' = [gate EXCEPT ![t].artifact = n]
  /\ UNCHANGED <<budget, dbUp, added, tables, eligible>>

After == [evaluation |-> "calibration", calibration |-> "backtest", backtest |-> "promotion"]

QueryRuns(t) ==
  \E kind \in Kinds :
    /\ Goes(t, kind, After[kind])
    /\ gate' = [gate EXCEPT ![t].found =
         @ \cup (IF Counted(kind, gate[t].model) = {} THEN {} ELSE {kind})]
    /\ UNCHANGED <<budget, dbUp, added, tables, eligible>>

\* get_latest_approved_model_promotion, of the artifact if there is one.
Approvals(g) ==
  {r \in Newest(reviews, g.model, Window) :
     /\ r.decision = "approved" /\ r.owner
     /\ g.artifact # 0 => r.artifact = g.artifact}

ApprovalOf(g) ==
  IF Approvals(g) = {} THEN "none"
  ELSE IF \E r \in Latest(Approvals(g)) : r.live THEN "live" ELSE "plain"

QueryPromotion(t) ==
  /\ Goes(t, "promotion", "answer")
  /\ gate' = [gate EXCEPT ![t].approval = ApprovalOf(gate[t])]
  /\ UNCHANGED <<budget, dbUp, added, tables, eligible>>

\* evaluate_model_gate has no blocker; the baseline never has one.
Open(g) ==
  \/ g.model = Baseline
  \/ /\ g.model \in Registered /\ g.artifact # 0
     /\ g.found = Kinds /\ g.approval = "live"

AnswerStatus(t) ==
  /\ gate[t].ask = "status"
  /\ Answers(t)
  /\ eligible' = IF Open(gate[t]) THEN eligible \cup {gate[t].model} ELSE eligible
  /\ UNCHANGED <<budget, dbUp, added, tables>>

\* request_model_promotion: the owner's word approves only past the gate.
AnswerRequest(t) ==
  LET g == gate[t] IN
  /\ g.ask = "request" /\ NewRow
  /\ Answers(t)
  /\ reviews' = Saved(reviews,
       [n |-> added + 1, of |-> 0, model |-> g.model, artifact |-> g.claim,
        decision |-> IF g.owner /\ Open(g) THEN "approved" ELSE "pending",
        owner |-> g.owner, live |-> g.wants], FALSE)
  /\ UNCHANGED <<budget, dbUp, artifacts, runs, eligible>>

----------------------------------------------------------------------------
(* Decisions on a review *)

\* Fault: an id without a ":" is its own first part.
ModelInAnyCase(id) == IF id \in Coined THEN KeyOf[id] ELSE "id"

\* Review ids of the code hold no ":".
ModelIn(id) == IF id \in Coined THEN KeyOf[id] ELSE "unknown"

Decided(id, decision) == \E r \in reviews : r.of = id /\ r.decision = decision

\* approve_model_promotion and reject_model_promotion: whatever was reviewed, a
\* new row under the id with a suffix; it names no artifact, and the model is
\* read off the id.
Decide(id, decision, owner, live) ==
  /\ Spend("decision") /\ NewRow
  /\ decision = "rejected" => ~owner /\ ~live
  /\ reviews' = Saved(reviews,
       [n |-> added + 1, of |-> id, model |-> ModelIn(id), artifact |-> 0,
        decision |-> decision, owner |-> owner, live |-> live], Decided(id, decision))
  /\ UNCHANGED <<dbUp, artifacts, runs, at, gate, eligible>>

\* Postgres goes away or comes back.
FlipDb ==
  /\ Spend("outages")
  /\ dbUp' = ~dbUp
  /\ UNCHANGED <<added, tables, at, gate, eligible>>

----------------------------------------------------------------------------

Claims == {[passed |-> TRUE, status |-> "passed"], [passed |-> TRUE, status |-> "pending"]}

AddEvidence(m) ==
  \/ \E status \in {"registered", "missing"} : RegisterArtifact(m, status)
  \/ \E metrics \in Metrics, sample \in Demands : CreateEvaluation(m, metrics, sample)
  \/ \E metrics \in Metrics : CreateCalibration(m, metrics)
  \/ \E claim \in Claims, metrics \in Metrics, symbols \in BOOLEAN :
       CreateBacktest(m, claim, metrics, symbols)

\* The artifact a request names is one of those there are, or none.
AskOrDecide(t, m) ==
  \/ AskGate(t, m, "status", 0, FALSE, FALSE)
  \/ \E claim \in {0} \cup {a.n : a \in artifacts}, owner, wants \in BOOLEAN :
       AskGate(t, m, "request", claim, owner, wants)

ReviewIds == {r.n : r \in {s \in reviews : s.of = 0}} \cup Coined

GateStep(t) ==
  QueryArtifact(t) \/ QueryRuns(t) \/ QueryPromotion(t) \/ AnswerStatus(t) \/ AnswerRequest(t)

Next ==
  \/ \E m \in Models : AddEvidence(m)
  \/ \E t \in Workers, m \in Models : AskOrDecide(t, m)
  \/ \E t \in Workers : GateStep(t)
  \/ \E id \in ReviewIds, decision \in {"approved", "rejected"}, owner, live \in BOOLEAN :
       Decide(id, decision, owner, live)
  \/ FlipDb

PromotionSpec == Init /\ [][Next]_vars

----------------------------------------------------------------------------
(* Properties *)

\* The gate as it would be computed with no other call between its queries.
GateNow(m) ==
  LET g == [NewGate(m, "status", 0, FALSE, FALSE) EXCEPT
              !.artifact = CHOOSE n \in ValidArtifact(m) : TRUE,
              !.found = {k \in Kinds : Counted(k, m) # {}}]
  IN [g EXCEPT !.approval = ApprovalOf(g)]

\* What the documentation asks of a model before it may score: an artifact, runs of
\* every kind that passed, and a review of that artifact which the owner approved for
\* live use.
Promoted(m) ==
  LET g == GateNow(m)
  IN /\ m \in Registered /\ g.artifact # 0 /\ g.found = Kinds
     /\ \E r, d \in reviews :
          /\ r.of = 0 /\ r.model = m /\ r.artifact = g.artifact
          /\ d.of = r.n /\ d.decision = "approved" /\ d.owner /\ d.live

\* A model with all that is answered to be eligible. The code does not keep this: the
\* decision is saved under no artifact and under the model "unknown".
PromotedIsEligible == \A m \in Models : dbUp /\ Promoted(m) => Open(GateNow(m))

\* However requests, decisions, evidence and outages follow one another, the gate
\* opens for the baseline alone: a request is approved only past the gate, the gate
\* asks for an approval of the present artifact, and a decision names no artifact.
\* This is no promise of the code, but the reason why it breaks the one above.
OnlyBaselineEligible ==
  /\ eligible \subseteq {Baseline}
  /\ \A r \in reviews : r.of = 0 /\ r.decision = "approved" => r.model = Baseline

\* What a model has proved stops counting only in an outage or behind a run of its own
\* that did not pass: no run of another model pushes it out of the window.
EvidenceIsOwn ==
  [][\A kind \in Kinds, m \in Models :
       Counted(kind, m) # {} /\ Counted(kind, m)' = {} =>
         \/ ~dbUp'
         \/ \E r \in runs'[kind] \ runs[kind] :
              r.model = m /\ ~(r.passed /\ r.status = "passed")]_vars

\* What the gate counts was handed in with what it stands on: a calibration with the
\* minimum sample, a backtest with symbols and metrics, an evaluation with a metric
\* of quality (its minimum sample is the client's).
CountedEvidenceIsReal ==
  \A m \in Models :
    /\ \A r \in Counted("calibration", m) : r.metrics.sample >= MinSample
    /\ \A r \in Counted("backtest", m) : r.symbols /\ r.metrics # NoMetrics
    /\ \A r \in Counted("evaluation", m) : r.metrics.quality

=============================================================================
