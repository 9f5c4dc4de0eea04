--------------------------- MODULE PromotionProofs ---------------------------
(***************************************************************************)
(* Theorems of ModelPromotion: whoever asks, claims and decides, the gate  *)
(* opens for no model but the baseline, and what the gate counts stands on *)
(* the evidence its kind requires and is no other model's to push away.    *)
(***************************************************************************)
EXTENDS ModelPromotion, FiniteSetTheorems, TLAPS

\* A row's name is the call that added it, and review ids of the code are such names.
LEMMA IdsAreRows ==
  ASSUME PromotionTypeOK, NEW id \in ReviewIds
  PROVE  id \in Rows \cup Coined /\ id # 0
<1>1. CASE id \in Coined
  BY <1>1, PromotionAssumption
<1>2. CASE id \in {r.n : r \in {s \in reviews : s.of = 0}}
  <2>1. PICK r \in reviews : id = r.n
    BY <1>2
  <2>2. r \in Review
    BY <2>1 DEF PromotionTypeOK
  <2> QED
    BY <2>1, <2>2, PromotionAssumption DEF Review, Rows
<1> QED
  BY <1>1, <1>2 DEF ReviewIds

LEMMA NewRowIsFresh ==
  ASSUME PromotionTypeOK, NewRow
  PROVE  added + 1 \in Rows /\ added' \in 0 .. MaxRows
BY PromotionAssumption DEF PromotionTypeOK, NewRow, Rows

LEMMA ModelInTyped ==
  ASSUME NEW id
  PROVE  ModelIn(id) \in Models \cup {"unknown"}
BY PromotionAssumption DEF ModelIn

LEMMA NewGateTyped ==
  ASSUME NEW m \in Models, NEW ask \in {"status", "request"}, NEW claim \in 0 .. MaxRows,
         NEW owner \in BOOLEAN, NEW wants \in BOOLEAN
  PROVE  NewGate(m, ask, claim, owner, wants) \in Gate
BY PromotionAssumption DEF NewGate, Gate

LEMMA IdleGateTyped == IdleGate \in Gate
<1>1. Baseline \in Models /\ 0 \in 0 .. MaxRows
  BY PromotionAssumption
<1> QED
  BY <1>1, NewGateTyped DEF IdleGate

----------------------------------------------------------------------------
(* Types *)

LEMMA InitTyped == Init => PromotionTypeOK
<1> SUFFICES ASSUME Init PROVE PromotionTypeOK
  OBVIOUS
<1>1. budget.proven \subseteq Models /\ (budget.proven # {} => MaxRows >= 4 /\ Best # {})
  BY PromotionAssumption DEF Init
<1>2. dbUp \in BOOLEAN /\ added \in 0 .. MaxRows
  BY <1>1, PromotionAssumption DEF Init
<1>3. artifacts \subseteq Artifact
  <2>1. SUFFICES ASSUME NEW m \in budget.proven
                 PROVE  [n |-> 1, model |-> m, status |-> "registered"] \in Artifact
    BY DEF Init
  <2>2. 1 \in Rows /\ m \in Models
    BY <1>1, PromotionAssumption DEF Rows
  <2> QED
    BY <2>2 DEF Artifact
<1>4. ASSUME NEW k \in Kinds, NEW m \in budget.proven
      PROVE  [n |-> Ages[k], model |-> m, metrics |-> CHOOSE x \in Best : TRUE,
              symbols |-> TRUE, passed |-> TRUE, status |-> "passed"] \in Run
  <2>1. (CHOOSE x \in Best : TRUE) \in Metrics
    BY <1>1, <1>4 DEF Best
  <2>2. Ages[k] \in Rows
    BY <1>1, <1>4, PromotionAssumption DEF Ages, Kinds, Rows
  <2> QED
    BY <1>1, <1>4, <2>1, <2>2 DEF Run
<1>5. runs \in [Kinds -> SUBSET Run]
  BY <1>4 DEF Init
<1>6. gate \in [Workers -> Gate] /\ at \in [Workers -> {"idle"} \cup Queries]
  BY IdleGateTyped DEF Init
<1> QED
  BY <1>2, <1>3, <1>5, <1>6 DEF Init, PromotionTypeOK

LEMMA EvidenceTyped ==
  ASSUME PromotionTypeOK, NEW m \in Models, AddEvidence(m)
  PROVE  PromotionTypeOK'
<1>1. ASSUME NEW status \in {"registered", "missing"}, RegisterArtifact(m, status)
      PROVE  PromotionTypeOK'
  <2>1. added + 1 \in Rows /\ added' \in 0 .. MaxRows
    BY <1>1, NewRowIsFresh DEF RegisterArtifact
  <2>2. [n |-> added + 1, model |-> m, status |-> status] \in Artifact
    BY <2>1 DEF Artifact
  <2>3. artifacts' \subseteq Artifact
    BY <1>1, <2>2 DEF Saved, RegisterArtifact, PromotionTypeOK
  <2> QED
    BY <1>1, <2>1, <2>3 DEF RegisterArtifact, PromotionTypeOK
<1>2. ASSUME NEW kind \in Kinds, NEW metrics \in Metrics, NEW symbols \in BOOLEAN,
             NEW passed \in BOOLEAN,
             NEW status \in {"passed", "failed", "insufficient_data", "blocked", "pending"},
             AddRun(kind, m, metrics, symbols, passed, status)
      PROVE  PromotionTypeOK'
  <2>1. added + 1 \in Rows /\ added' \in 0 .. MaxRows
    BY <1>2, NewRowIsFresh DEF AddRun
  <2> DEFINE row == [n |-> added + 1, model |-> m, metrics |-> metrics,
                     symbols |-> symbols, passed |-> passed, status |-> status]
  <2>2. row \in Run
    BY <2>1 DEF Run
  <2>3. Saved(runs[kind], row, FALSE) \subseteq Run
    BY <2>2 DEF Saved, PromotionTypeOK
  <2>4. runs' \in [Kinds -> SUBSET Run]
    BY <1>2, <2>3 DEF AddRun, PromotionTypeOK
  <2> QED
    BY <1>2, <2>1, <2>4 DEF AddRun, PromotionTypeOK
<1>3. ASSUME NEW metrics \in Metrics, NEW sample \in Demands,
             CreateEvaluation(m, metrics, sample)
      PROVE  PromotionTypeOK'
  BY <1>2, <1>3 DEF CreateEvaluation, EvaluationVerdict, Kinds
<1>4. ASSUME NEW metrics \in Metrics, CreateCalibration(m, metrics)
      PROVE  PromotionTypeOK'
  BY <1>2, <1>4 DEF CreateCalibration, CalibrationVerdict, Kinds
<1>5. ASSUME NEW claim \in Claims, NEW metrics \in Metrics, NEW symbols \in BOOLEAN,
             CreateBacktest(m, claim, metrics, symbols)
      PROVE  PromotionTypeOK'
  <2> DEFINE verdict == BacktestVerdict(claim, metrics, symbols)
  <2>1. /\ verdict.passed \in BOOLEAN
        /\ verdict.status \in {"passed", "failed", "insufficient_data", "blocked", "pending"}
    <3>1. verdict \in {claim, [passed |-> FALSE, status |-> "failed"],
                              [passed |-> FALSE, status |-> "blocked"]}
      BY DEF BacktestVerdict
    <3>2. CASE verdict = claim
      <4>1. CASE claim = [passed |-> TRUE, status |-> "passed"]
        BY <3>2, <4>1
      <4>2. CASE claim = [passed |-> TRUE, status |-> "pending"]
        BY <3>2, <4>2
      <4> QED
        BY <4>1, <4>2 DEF Claims
    <3> HIDE DEF verdict
    <3>3. CASE verdict = [passed |-> FALSE, status |-> "failed"]
      BY <3>3
    <3>4. CASE verdict = [passed |-> FALSE, status |-> "blocked"]
      BY <3>4
    <3> QED
      BY <3>1, <3>2, <3>3, <3>4
  <2>2. AddRun("backtest", m, metrics, symbols, verdict.passed, verdict.status)
    BY <1>5 DEF CreateBacktest
  <2> QED
    BY <1>2, <2>1, <2>2 DEF Kinds
<1> QED
  BY <1>1, <1>3, <1>4, <1>5 DEF AddEvidence

LEMMA AskGateTyped ==
  ASSUME PromotionTypeOK, NEW t \in Workers, NEW m \in Models, AskOrDecide(t, m)
  PROVE  PromotionTypeOK'
<1>1. PICK ask \in {"status", "request"}, claim \in {0} \cup {a.n : a \in artifacts},
           owner \in BOOLEAN, wants \in BOOLEAN : AskGate(t, m, ask, claim, owner, wants)
  BY DEF AskOrDecide
<1>2. claim \in 0 .. MaxRows
  BY PromotionAssumption DEF PromotionTypeOK, Artifact, Rows
<1>3. gate' \in [Workers -> Gate]
  BY <1>1, <1>2, NewGateTyped DEF AskGate, PromotionTypeOK
<1>4. at' \in [Workers -> {"idle"} \cup Queries]
  BY <1>1 DEF AskGate, Goes, Queries, PromotionTypeOK
<1> QED
  BY <1>1, <1>3, <1>4 DEF AskGate, tables, PromotionTypeOK

LEMMA GateStepTyped ==
  ASSUME PromotionTypeOK, NEW t \in Workers, GateStep(t)
  PROVE  PromotionTypeOK'
<1>0. gate[t] \in Gate
  BY DEF PromotionTypeOK
<1>1. CASE QueryArtifact(t)
  <2>1. PICK n \in ValidArtifact(gate[t].model) : gate' = [gate EXCEPT ![t].artifact = n]
    BY <1>1 DEF QueryArtifact
  <2>4. n \in 0 .. MaxRows
    <3> DEFINE valid == {a \in Newest(artifacts, gate[t].model, ArtifactWindow) :
                           a.status = "registered"}
    <3>1. valid \subseteq Artifact
      BY DEF Newest, PromotionTypeOK
    <3>2. n \in (IF valid = {} THEN {0} ELSE {a.n : a \in Latest(valid)})
      BY DEF ValidArtifact
    <3> HIDE DEF valid
    <3> QED
      BY <3>1, <3>2, PromotionAssumption DEF Latest, Artifact, Rows
  <2>2. gate' \in [Workers -> Gate]
    BY <1>0, <2>1, <2>4 DEF Gate, PromotionTypeOK
  <2>3. at' \in [Workers -> {"idle"} \cup Queries]
    BY <1>1 DEF QueryArtifact, Goes, Queries, PromotionTypeOK
  <2> QED
    BY <1>1, <2>2, <2>3 DEF QueryArtifact, tables, PromotionTypeOK
<1>2. CASE QueryRuns(t)
  <2>1. PICK kind \in Kinds :
          /\ Goes(t, kind, After[kind])
          /\ gate' = [gate EXCEPT ![t].found = @ \cup
                       (IF Counted(kind, gate[t].model) = {} THEN {} ELSE {kind})]
    BY <1>2 DEF QueryRuns
  <2>2. gate' \in [Workers -> Gate]
    BY <1>0, <2>1 DEF Gate, PromotionTypeOK
  <2>3. at' \in [Workers -> {"idle"} \cup Queries]
    BY <2>1 DEF Goes, After, Kinds, Queries, PromotionTypeOK
  <2> QED
    BY <1>2, <2>2, <2>3 DEF QueryRuns, tables, PromotionTypeOK
<1>3. CASE QueryPromotion(t)
  <2>1. PICK approval \in {"none", "plain", "live"} :
          gate' = [gate EXCEPT ![t].approval = approval]
    BY <1>3 DEF QueryPromotion, ApprovalOf
  <2>2. gate' \in [Workers -> Gate]
    BY <1>0, <2>1 DEF Gate, PromotionTypeOK
  <2>3. at' \in [Workers -> {"idle"} \cup Queries]
    BY <1>3 DEF QueryPromotion, Goes, Queries, PromotionTypeOK
  <2> QED
    BY <1>3, <2>2, <2>3 DEF QueryPromotion, tables, PromotionTypeOK
<1>4. ASSUME Answers(t)
      PROVE  gate' \in [Workers -> Gate] /\ at' \in [Workers -> {"idle"} \cup Queries]
  BY <1>4, IdleGateTyped DEF Answers, Goes, PromotionTypeOK
<1>5. CASE AnswerStatus(t)
  <2>1. eligible' \subseteq Models
    BY <1>0, <1>5 DEF AnswerStatus, Gate, PromotionTypeOK
  <2> QED
    BY <1>4, <1>5, <2>1 DEF AnswerStatus, tables, PromotionTypeOK
<1>6. CASE AnswerRequest(t)
  <2> DEFINE g == gate[t]
             row == [n |-> added + 1, of |-> 0, model |-> g.model, artifact |-> g.claim,
                     decision |-> IF g.owner /\ Open(g) THEN "approved" ELSE "pending",
                     owner |-> g.owner, live |-> g.wants]
  <2>1. added + 1 \in Rows /\ added' \in 0 .. MaxRows
    BY <1>6, NewRowIsFresh DEF AnswerRequest
  <2>2. row \in Review
    BY <1>0, <2>1, PromotionAssumption DEF Gate, Review
  <2>3. reviews' \subseteq Review
    BY <1>6, <2>2 DEF Saved, AnswerRequest, PromotionTypeOK
  <2> QED
    BY <1>4, <1>6, <2>1, <2>3 DEF AnswerRequest, PromotionTypeOK
<1> QED
  BY <1>1, <1>2, <1>3, <1>5, <1>6 DEF GateStep

LEMMA DecideTyped ==
  ASSUME PromotionTypeOK, NEW id \in ReviewIds, NEW decision \in {"approved", "rejected"},
         NEW owner \in BOOLEAN, NEW live \in BOOLEAN, Decide(id, decision, owner, live)
  PROVE  PromotionTypeOK'
<1> DEFINE row == [n |-> added + 1, of |-> id, model |-> ModelIn(id), artifact |-> 0,
                   decision |-> decision, owner |-> owner, live |-> live]
<1>1. added + 1 \in Rows /\ added' \in 0 .. MaxRows
  BY NewRowIsFresh DEF Decide
<1>2. id \in 0 .. MaxRows \cup Coined
  BY IdsAreRows DEF Rows
<1>3. row \in Review
  BY <1>1, <1>2, ModelInTyped, PromotionAssumption DEF Review
<1>4. reviews' \subseteq Review
  BY <1>3 DEF Saved, Decide, PromotionTypeOK
<1> QED
  BY <1>1, <1>4 DEF Decide, PromotionTypeOK

LEMMA NextTyped == PromotionTypeOK /\ [Next]_vars => PromotionTypeOK'
<1> SUFFICES ASSUME PromotionTypeOK, [Next]_vars PROVE PromotionTypeOK'
  OBVIOUS
<1>1. CASE FlipDb
  BY <1>1 DEF FlipDb, tables, PromotionTypeOK
<1>2. CASE UNCHANGED vars
  BY <1>2 DEF vars, tables, PromotionTypeOK
<1> QED
  BY <1>1, <1>2, EvidenceTyped, AskGateTyped, GateStepTyped, DecideTyped DEF Next

\* Rows, gates and answers are what their types say, for any number of workers,
\* models and calls: in particular the model a decision reads off an id
\* (approve_model_promotion) is a model or "unknown".
THEOREM PromotionTypes == PromotionSpec => []PromotionTypeOK
<1> QED
  BY InitTyped, NextTyped, PTL DEF PromotionSpec

----------------------------------------------------------------------------
(* The gate opens for the baseline alone *)

\* An approval of another model names no artifact: only a decision can have made it.
ApprovalsAreDecisions ==
  \A r \in reviews : r.decision = "approved" /\ r.model # Baseline => r.artifact = 0 /\ r.of # 0

\* So no gate of another model has found both an artifact and an approval of it.
GateFindsNoApproval ==
  \A t \in Workers :
    at[t] = "answer" /\ gate[t].model # Baseline /\ gate[t].artifact # 0
      => gate[t].approval = "none"

PromotionInv ==
  /\ PromotionTypeOK
  /\ ApprovalsAreDecisions
  /\ GateFindsNoApproval
  /\ eligible \subseteq {Baseline}

LEMMA ClosedGate ==
  ASSUME PromotionInv, NEW t \in Workers, at[t] = "answer", Open(gate[t])
  PROVE  gate[t].model = Baseline
BY DEF PromotionInv, GateFindsNoApproval, Open

LEMMA PromotionStep == PromotionInv /\ [Next]_vars => PromotionInv'
<1> SUFFICES ASSUME PromotionInv, [Next]_vars PROVE PromotionInv'
  OBVIOUS
<1>0. PromotionTypeOK /\ PromotionTypeOK'
  BY NextTyped DEF PromotionInv
<1>1. ASSUME UNCHANGED <<reviews, at, gate, eligible>> PROVE PromotionInv'
  BY <1>0, <1>1 DEF PromotionInv, ApprovalsAreDecisions, GateFindsNoApproval
<1>2. ASSUME NEW m \in Models, AddEvidence(m) PROVE PromotionInv'
  BY <1>1, <1>2 DEF AddEvidence, RegisterArtifact, CreateEvaluation, CreateCalibration,
                    CreateBacktest, AddRun
<1>3. ASSUME NEW t \in Workers, UNCHANGED <<reviews, eligible>>,
             NEW from, NEW to, Goes(t, from, to), to # "answer",
             \A u \in Workers \ {t} : gate'[u] = gate[u]
      PROVE  PromotionInv'
  <2>1. \A u \in Workers : at'[u] = "answer" => u # t /\ at[u] = "answer"
    BY <1>0, <1>3 DEF Goes, PromotionTypeOK
  <2>2. GateFindsNoApproval'
    BY <1>3, <2>1 DEF PromotionInv, GateFindsNoApproval
  <2> QED
    BY <1>0, <1>3, <2>2 DEF PromotionInv, ApprovalsAreDecisions
<1>4. ASSUME NEW t \in Workers, NEW m \in Models, AskOrDecide(t, m) PROVE PromotionInv'
  <2>1. \E ask, claim, owner, wants : AskGate(t, m, ask, claim, owner, wants)
    BY <1>4 DEF AskOrDecide
  <2>2. /\ UNCHANGED <<reviews, eligible>>
        /\ Goes(t, "idle", "artifact")
        /\ \A u \in Workers \ {t} : gate'[u] = gate[u]
    BY <1>0, <2>1 DEF AskGate, tables, PromotionTypeOK
  <2> QED
    BY <1>3, <2>2
<1>5. ASSUME NEW t \in Workers, GateStep(t) PROVE PromotionInv'
  <2>1. CASE QueryArtifact(t)
    <3>1. /\ UNCHANGED <<reviews, eligible>>
          /\ Goes(t, "artifact", "evaluation")
          /\ \A u \in Workers \ {t} : gate'[u] = gate[u]
      BY <1>0, <2>1 DEF QueryArtifact, tables, PromotionTypeOK
    <3> QED
      BY <1>3, <3>1
  <2>2. CASE QueryRuns(t)
    <3>1. PICK kind \in Kinds :
            /\ UNCHANGED <<reviews, eligible>>
            /\ Goes(t, kind, After[kind])
            /\ \A u \in Workers \ {t} : gate'[u] = gate[u]
      BY <1>0, <2>2 DEF QueryRuns, tables, PromotionTypeOK
    <3>2. After[kind] # "answer"
      BY DEF After, Kinds
    <3> QED
      BY <1>3, <3>1, <3>2
  <2>3. CASE QueryPromotion(t)
    <3>1. /\ UNCHANGED <<reviews, eligible>>
          /\ \A u \in Workers \ {t} : gate'[u] = gate[u] /\ at'[u] = at[u]
      BY <1>0, <2>3 DEF QueryPromotion, Goes, tables, PromotionTypeOK
    <3>2. ASSUME gate'[t].model # Baseline, gate'[t].artifact # 0
          PROVE  gate'[t].approval = "none"
      <4>1. gate[t].model # Baseline /\ gate[t].artifact # 0
        BY <1>0, <2>3, <3>2 DEF QueryPromotion, PromotionTypeOK, Gate
      <4>2. Approvals(gate[t]) = {}
        BY <4>1 DEF Approvals, Newest, PromotionInv, ApprovalsAreDecisions
      <4> QED
        BY <1>0, <2>3, <4>2 DEF QueryPromotion, ApprovalOf, PromotionTypeOK, Gate
    <3>3. GateFindsNoApproval'
      BY <3>1, <3>2 DEF PromotionInv, GateFindsNoApproval
    <3> QED
      BY <1>0, <3>1, <3>3 DEF PromotionInv, ApprovalsAreDecisions
  <2>4. ASSUME Answers(t)
        PROVE  /\ Goes(t, "answer", "idle")
               /\ \A u \in Workers \ {t} : gate'[u] = gate[u]
    BY <1>0, <2>4 DEF Answers, PromotionTypeOK
  <2>5. ASSUME Answers(t) PROVE GateFindsNoApproval'
    <3>1. \A u \in Workers : at'[u] = "answer" => u # t /\ at[u] = "answer"
      BY <1>0, <2>4, <2>5 DEF Goes, PromotionTypeOK
    <3> QED
      BY <2>4, <2>5, <3>1 DEF PromotionInv, GateFindsNoApproval
  <2>6. CASE AnswerStatus(t)
    <3>1. eligible' \subseteq {Baseline}
      BY <2>6, ClosedGate DEF AnswerStatus, Answers, Goes, PromotionInv
    <3> QED
      BY <1>0, <2>5, <2>6, <3>1
      DEF AnswerStatus, tables, PromotionInv, ApprovalsAreDecisions
  <2>7. CASE AnswerRequest(t)
    <3> DEFINE row == [n |-> added + 1, of |-> 0, model |-> gate[t].model,
                       artifact |-> gate[t].claim,
                       decision |-> IF gate[t].owner /\ Open(gate[t])
                                    THEN "approved" ELSE "pending",
                       owner |-> gate[t].owner, live |-> gate[t].wants]
    <3>1. row.decision = "approved" => row.model = Baseline
      BY <2>7, ClosedGate DEF AnswerRequest, Answers, Goes
    <3>2. reviews' \subseteq reviews \cup {row}
      BY <2>7 DEF AnswerRequest, Saved
    <3>3. ApprovalsAreDecisions'
      BY <3>1, <3>2 DEF PromotionInv, ApprovalsAreDecisions
    <3> QED
      BY <1>0, <2>5, <2>7, <3>3 DEF AnswerRequest, PromotionInv
  <2> QED
    BY <1>5, <2>1, <2>2, <2>3, <2>6, <2>7 DEF GateStep
<1>6. ASSUME NEW id \in ReviewIds, NEW decision \in {"approved", "rejected"},
             NEW owner \in BOOLEAN, NEW live \in BOOLEAN, Decide(id, decision, owner, live)
      PROVE  PromotionInv'
  <2> DEFINE row == [n |-> added + 1, of |-> id, model |-> ModelIn(id), artifact |-> 0,
                     decision |-> decision, owner |-> owner, live |-> live]
  <2>1. row.artifact = 0 /\ row.of # 0
    BY <1>0, IdsAreRows
  <2>2. reviews' \subseteq reviews \cup {row} /\ UNCHANGED <<at, gate, eligible>>
    BY <1>6 DEF Decide, Saved
  <2>3. ApprovalsAreDecisions'
    BY <2>1, <2>2 DEF PromotionInv, ApprovalsAreDecisions
  <2> QED
    BY <1>0, <2>2, <2>3 DEF PromotionInv, GateFindsNoApproval
<1>7. CASE FlipDb
  BY <1>1, <1>7 DEF FlipDb, tables
<1>8. CASE UNCHANGED vars
  BY <1>1, <1>8 DEF vars, tables
<1> QED
  BY <1>2, <1>4, <1>5, <1>6, <1>7, <1>8 DEF Next

\* The gate opens for the baseline alone, whatever is handed in, requested and
\* decided in whatever order (evaluate_model_gate, request_model_promotion and
\* approve_model_promotion taken together): that a promoted model is not eligible,
\* which the run promotion_refused shows of one, is so of every model but the baseline.
THEOREM OnlyTheBaseline == PromotionSpec => []OnlyBaselineEligible
<1>1. Init => PromotionInv
  BY InitTyped DEF Init, PromotionInv, ApprovalsAreDecisions, GateFindsNoApproval
<1>2. PromotionInv => OnlyBaselineEligible
  BY DEF PromotionInv, ApprovalsAreDecisions, OnlyBaselineEligible
<1> QED
  BY <1>1, <1>2, PromotionStep, PTL DEF PromotionSpec

----------------------------------------------------------------------------
(* What the gate counts *)

\* A run that passed has what its kind requires, in whichever table it is.
PassedRunsAreReal ==
  /\ \A r \in runs["evaluation"]  : r.passed => r.metrics.quality
  /\ \A r \in runs["calibration"] : r.passed => r.metrics.sample >= MinSample
  /\ \A r \in runs["backtest"]    : r.passed => r.symbols /\ r.metrics # NoMetrics

LEMMA ProvenRunsAreReal ==
  ASSUME Init
  PROVE  PassedRunsAreReal
<1>1. ASSUME NEW m \in budget.proven
      PROVE  /\ (CHOOSE x \in Best : TRUE).quality
             /\ (CHOOSE x \in Best : TRUE).sample >= MinSample
             /\ (CHOOSE x \in Best : TRUE) # NoMetrics
  <2>1. Best # {}
    BY <1>1, PromotionAssumption DEF Init
  <2>2. (CHOOSE x \in Best : TRUE) \in Best
    BY <2>1
  <2> QED
    BY <2>2 DEF Best
<1> QED
  BY <1>1 DEF Init, PassedRunsAreReal, Kinds

LEMMA AddedRunIsReal ==
  ASSUME PromotionTypeOK, PassedRunsAreReal,
         NEW kind \in Kinds, NEW m, NEW metrics, NEW symbols, NEW passed, NEW status,
         AddRun(kind, m, metrics, symbols, passed, status),
         kind = "evaluation" /\ passed => metrics.quality,
         kind = "calibration" /\ passed => metrics.sample >= MinSample,
         kind = "backtest" /\ passed => symbols /\ metrics # NoMetrics
  PROVE  PassedRunsAreReal'
<1> DEFINE row == [n |-> added + 1, model |-> m, metrics |-> metrics,
                   symbols |-> symbols, passed |-> passed, status |-> status]
<1>1. \A k \in Kinds : runs'[k] \subseteq IF k = kind THEN runs[k] \cup {row} ELSE runs[k]
  BY DEF AddRun, Saved, PromotionTypeOK
<1>2. row.metrics = metrics /\ row.symbols = symbols /\ row.passed = passed
  OBVIOUS
<1> HIDE DEF row
<1> QED
  BY <1>1, <1>2 DEF PassedRunsAreReal, Kinds

LEMMA EvidenceIsReal ==
  ASSUME PromotionTypeOK, PassedRunsAreReal, NEW m \in Models, AddEvidence(m)
  PROVE  PassedRunsAreReal'
<1>1. CASE \E status \in {"registered", "missing"} : RegisterArtifact(m, status)
  BY <1>1 DEF RegisterArtifact, PassedRunsAreReal
<1>2. ASSUME NEW metrics \in Metrics, NEW sample \in Demands,
             CreateEvaluation(m, metrics, sample)
      PROVE  PassedRunsAreReal'
  <2>1. EvaluationVerdict(metrics, sample) = "passed" => metrics.quality
    BY DEF EvaluationVerdict
  <2> QED
    BY <1>2, <2>1, AddedRunIsReal DEF CreateEvaluation, Kinds
<1>3. ASSUME NEW metrics \in Metrics, CreateCalibration(m, metrics)
      PROVE  PassedRunsAreReal'
  <2>1. CalibrationVerdict(metrics) = "passed" => metrics.sample >= MinSample
    BY DEF CalibrationVerdict
  <2> QED
    BY <1>3, <2>1, AddedRunIsReal DEF CreateCalibration, Kinds
<1>4. ASSUME NEW claim \in Claims, NEW metrics \in Metrics, NEW symbols \in BOOLEAN,
             CreateBacktest(m, claim, metrics, symbols)
      PROVE  PassedRunsAreReal'
  <2>1. BacktestVerdict(claim, metrics, symbols).passed => symbols /\ metrics # NoMetrics
    BY DEF BacktestVerdict, Claims
  <2> QED
    BY <1>4, <2>1, AddedRunIsReal DEF CreateBacktest, Kinds
<1> QED
  BY <1>1, <1>2, <1>3, <1>4 DEF AddEvidence

\* Whatever clients claim and whenever Postgres is away, a run that a gate counts
\* stands on evidence (evaluate_metrics, evaluate_calibration and
\* create_model_backtest_request).
THEOREM EvidenceCounted == PromotionSpec => []CountedEvidenceIsReal
<1>1. Init => PromotionTypeOK /\ PassedRunsAreReal
  BY InitTyped, ProvenRunsAreReal
<1>2. PromotionTypeOK /\ PassedRunsAreReal /\ [Next]_vars
        => (PromotionTypeOK /\ PassedRunsAreReal)'
  <2> SUFFICES ASSUME PromotionTypeOK, PassedRunsAreReal, [Next]_vars
               PROVE  (PromotionTypeOK /\ PassedRunsAreReal)'
    OBVIOUS
  <2>1. ASSUME UNCHANGED runs PROVE PassedRunsAreReal'
    BY <2>1 DEF PassedRunsAreReal
  <2>2. ASSUME NEW t \in Workers, NEW m \in Models, AskOrDecide(t, m) PROVE UNCHANGED runs
    BY <2>2 DEF AskOrDecide, AskGate, tables
  <2>3. ASSUME NEW t \in Workers, GateStep(t) PROVE UNCHANGED runs
    BY <2>3 DEF GateStep, QueryArtifact, QueryRuns, QueryPromotion, AnswerStatus,
                AnswerRequest, tables
  <2> QED
    BY <2>1, <2>2, <2>3, EvidenceIsReal, NextTyped DEF Next, Decide, FlipDb, vars, tables
<1>3. PassedRunsAreReal => CountedEvidenceIsReal
  BY DEF PassedRunsAreReal, CountedEvidenceIsReal, Counted, Newest
<1> QED
  BY <1>1, <1>2, <1>3, PTL DEF PromotionSpec

----------------------------------------------------------------------------
(* Whose runs push a run out of the window *)

\* A run is named by a call that there was.
RunsNumbered == \A k \in Kinds : \A r \in runs[k] : r.n \in Nat /\ r.n <= added

LEMMA ProvenRunsNumbered ==
  ASSUME Init
  PROVE  RunsNumbered
<1> SUFFICES ASSUME NEW k \in Kinds, NEW m \in budget.proven, NEW r,
                    r = [n |-> Ages[k], model |-> m, metrics |-> CHOOSE x \in Best : TRUE,
                         symbols |-> TRUE, passed |-> TRUE, status |-> "passed"]
             PROVE  r.n \in Nat /\ r.n <= added
  BY DEF Init, RunsNumbered
<1>1. added = 4
  BY DEF Init
<1>2. Ages[k] \in {2, 3, 4}
  BY DEF Ages, Kinds
<1> QED
  BY <1>1, <1>2

\* Only AddRun touches the runs, and it adds one row at most, the newest.
LEMMA RunsGrow ==
  ASSUME PromotionTypeOK, [Next]_vars
  PROVE  \/ UNCHANGED runs /\ (UNCHANGED dbUp \/ dbUp' = ~dbUp) /\ added' \in {added, added + 1}
         \/ \E kind \in Kinds, m \in Models : \E metrics, symbols, passed, status :
              AddRun(kind, m, metrics, symbols, passed, status)
<1> DEFINE keeps == /\ UNCHANGED runs /\ (UNCHANGED dbUp \/ dbUp' = ~dbUp)
                    /\ added' \in {added, added + 1}
<1>1. ASSUME NEW m \in Models, AddEvidence(m)
      PROVE  \/ keeps
             \/ \E kind \in Kinds : \E metrics, symbols, passed, status :
                  AddRun(kind, m, metrics, symbols, passed, status)
  BY <1>1 DEF AddEvidence, RegisterArtifact, NewRow, CreateEvaluation, CreateCalibration,
              CreateBacktest, Kinds
<1>2. ASSUME NEW t \in Workers, NEW m \in Models, AskOrDecide(t, m) PROVE keeps
  BY <1>2 DEF AskOrDecide, AskGate, tables
<1>3. ASSUME NEW t \in Workers, GateStep(t) PROVE keeps
  BY <1>3 DEF GateStep, QueryArtifact, QueryRuns, QueryPromotion, AnswerStatus,
              AnswerRequest, NewRow, tables
<1>4. ASSUME NEW id \in ReviewIds, NEW decision \in {"approved", "rejected"},
             NEW owner \in BOOLEAN, NEW live \in BOOLEAN, Decide(id, decision, owner, live)
      PROVE  keeps
  BY <1>4 DEF Decide, NewRow
<1>5. CASE FlipDb
  BY <1>5 DEF FlipDb, tables
<1>6. CASE UNCHANGED vars
  BY <1>6 DEF vars, tables
<1> QED
  BY <1>1, <1>2, <1>3, <1>4, <1>5, <1>6 DEF Next

\* What AddRun leaves alone and what it may add.
LEMMA AddedRun ==
  ASSUME PromotionTypeOK, NEW kind \in Kinds, NEW m, NEW metrics, NEW symbols, NEW passed,
         NEW status, AddRun(kind, m, metrics, symbols, passed, status)
  PROVE  LET row == [n |-> added + 1, model |-> m, metrics |-> metrics,
                     symbols |-> symbols, passed |-> passed, status |-> status]
         IN /\ UNCHANGED dbUp /\ added' = added + 1
            /\ \A k \in Kinds \ {kind} : runs'[k] = runs[k]
            /\ runs'[kind] \subseteq runs[kind] \cup {row}
            /\ dbUp => runs'[kind] = runs[kind] \cup {row}
BY DEF AddRun, NewRow, Saved, PromotionTypeOK

LEMMA NumbersStay ==
  ASSUME PromotionTypeOK, RunsNumbered, [Next]_vars
  PROVE  RunsNumbered'
<1>0. added \in Nat
  BY DEF PromotionTypeOK
<1>1. CASE UNCHANGED runs /\ added' \in {added, added + 1}
  BY <1>0, <1>1 DEF RunsNumbered
<1>2. ASSUME NEW kind \in Kinds, NEW m \in Models, NEW metrics, NEW symbols, NEW passed,
             NEW status, AddRun(kind, m, metrics, symbols, passed, status)
      PROVE  RunsNumbered'
  <2> DEFINE row == [n |-> added + 1, model |-> m, metrics |-> metrics,
                     symbols |-> symbols, passed |-> passed, status |-> status]
  <2>1. added' = added + 1 /\ \A k \in Kinds : runs'[k] \subseteq runs[k] \cup {row}
    BY <1>2, AddedRun
  <2>2. row.n = added + 1
    OBVIOUS
  <2> HIDE DEF row
  <2> QED
    BY <1>0, <2>1, <2>2 DEF RunsNumbered
<1> QED
  BY <1>1, <1>2, RunsGrow

\* The evidence of a model survives the runs of the others: the window of a query is
\* taken of the model's own runs (list_records filters before it limits).
LEMMA EvidenceStays ==
  ASSUME PromotionTypeOK, RunsNumbered, [Next]_vars,
         NEW kind \in Kinds, NEW m \in Models,
         Counted(kind, m) # {}, Counted(kind, m)' = {}, dbUp'
  PROVE  \E r \in runs'[kind] \ runs[kind] :
           r.model = m /\ ~(r.passed /\ r.status = "passed")
<1>1. dbUp
  BY DEF Counted, Newest
<1>2. added \in Nat
  BY DEF PromotionTypeOK
<1>3. \E r \in runs[kind] : r.model = m
  BY DEF Counted, Newest
<1>4. ASSUME runs'[kind] = runs[kind], UNCHANGED dbUp PROVE FALSE
  <2>1. Counted(kind, m)' = Counted(kind, m)
    BY <1>4 DEF Counted, Newest
  <2> QED
    BY <2>1
<1>5a. PICK k \in Kinds, o \in Models :
         \E metrics, symbols, passed, status : AddRun(k, o, metrics, symbols, passed, status)
  BY <1>1, <1>4, RunsGrow DEF PromotionTypeOK
<1>5. PICK metrics, symbols, passed, status : AddRun(k, o, metrics, symbols, passed, status)
  BY <1>5a
<1> DEFINE row == [n |-> added + 1, model |-> o, metrics |-> metrics,
                   symbols |-> symbols, passed |-> passed, status |-> status]
<1>6. /\ UNCHANGED dbUp /\ \A i \in Kinds \ {k} : runs'[i] = runs[i]
      /\ runs'[k] = runs[k] \cup {row}
  BY <1>1, <1>5, AddedRun
<1>7. row.n = added + 1 /\ row.model = o /\ row.passed = passed /\ row.status = status
  OBVIOUS
<1> HIDE DEF row
<1>8. k = kind
  BY <1>4, <1>6
<1>9. o = m
  <2> SUFFICES ASSUME o # m PROVE FALSE
    OBVIOUS
  <2> DEFINE mine == {s \in runs[kind] : s.model = m}
  <2>1. {s \in runs'[kind] : s.model = m} = mine
    BY <1>6, <1>7, <1>8
  <2>2. Newest(runs[kind], m, Window)
          = {r \in mine : Cardinality({s \in mine : s.n > r.n}) < Window}
    BY <1>1 DEF Newest
  <2>3. Newest(runs[kind], m, Window)'
          = {r \in mine : Cardinality({s \in mine : s.n > r.n}) < Window}
    BY <1>1, <1>6, <2>1 DEF Newest
  <2> HIDE DEF mine
  <2>4. Counted(kind, m)' = Counted(kind, m)
    BY <2>2, <2>3 DEF Counted
  <2> QED
    BY <2>4
<1>10. row \in Newest(runs[kind], m, Window)'
  <2> DEFINE mine == {s \in runs'[kind] : s.model = m}
  <2>1. row \in mine /\ \A s \in mine : ~(s.n > row.n)
    BY <1>2, <1>6, <1>7, <1>8, <1>9 DEF RunsNumbered
  <2>2. {s \in mine : s.n > row.n} = {}
    BY <2>1
  <2>3. Cardinality({}) = 0 /\ Window \in Nat /\ 0 < Window
    BY FS_EmptySet, PromotionAssumption
  <2>4. Cardinality({s \in mine : s.n > row.n}) < Window
    BY <2>2, <2>3
  <2> QED
    BY <1>1, <1>6, <2>1, <2>4 DEF Newest
<1>11. ~(row.passed /\ row.status = "passed")
  BY <1>10 DEF Counted
<1>12. row \in runs'[kind] /\ row \notin runs[kind]
  BY <1>2, <1>6, <1>7, <1>8 DEF RunsNumbered
<1> QED
  BY <1>7, <1>9, <1>11, <1>12

\* Runs of another model never push what a model has proved out of what the gate counts
\* (list_records and the queries built on it), whatever the window.
THEOREM EvidenceIsOwned == PromotionSpec => EvidenceIsOwn
<1>1. Init => PromotionTypeOK /\ RunsNumbered
  BY InitTyped, ProvenRunsNumbered
<1>2. PromotionTypeOK /\ RunsNumbered /\ [Next]_vars => (PromotionTypeOK /\ RunsNumbered)'
  BY NextTyped, NumbersStay
<1> DEFINE Own == \A kind \in Kinds, m \in Models :
                    Counted(kind, m) # {} /\ Counted(kind, m)' = {} =>
                      \/ ~dbUp'
                      \/ \E r \in runs'[kind] \ runs[kind] :
                           r.model = m /\ ~(r.passed /\ r.status = "passed")
<1>3. PromotionTypeOK /\ RunsNumbered /\ [Next]_vars => [Own]_vars
  BY EvidenceStays
<1>4. PromotionSpec => [][Own]_vars
  <2> HIDE DEF Own
  <2> QED
    BY <1>1, <1>2, <1>3, PTL DEF PromotionSpec
<1> QED
  BY <1>4 DEF EvidenceIsOwn

=============================================================================
