-------------------------- MODULE ExecutionProofs ---------------------------
(***************************************************************************)
(* Safety of ExecutionService for any number of workers, requests, calls,  *)
(* windows and restarts.  The inductive invariant ties the local variables *)
(* of each worker to the place its handler has reached.                    *)
(***************************************************************************)
EXTENDS ExecutionService, TLAPS

\* The effective mode a worker may hold for a request.
ModeFollows(r, m) ==
  /\ m \in Modes
  /\ m = ModeOf[r] \/ (ModeOf[r] = "live" /\ m = "paper")
  /\ m = "live" => LiveConfigured

\* What is known of a worker's local variables, from where it stands.
WorkerBusy(t) ==
  pc[t] # "idle" =>
    /\ job[t].op # "none"
    /\ job[t].req \in Requests
    /\ job[t].call \in 1 .. calls
    /\ job[t].audit \in 1 .. calls

WorkerMode(t) ==
  /\ pc[t] \notin {"idle", "resolve"} => ModeFollows(job[t].req, job[t].mode)
  /\ pc[t] \in {"create", "branch"} /\ job[t].passed
       => job[t].mode # "live_disabled"
  /\ pc[t] \in {"route", "post"} => job[t].mode # "live_disabled"
  /\ pc[t] = "post" => job[t].mode # "simulated"

WorkerApproved(t) ==
  /\ pc[t] # "idle" /\ job[t].op = "approve" => confirmed[job[t].audit]
  /\ pc[t] \in {"route", "post"} /\ RequireApproval => confirmed[job[t].audit]

WorkerAnswer(t) == pc[t] = "record" => job[t].answer \in Placed \cup {"rejected"}

AuditInv == \A a \in present : a \in 1 .. calls /\ audits[a].req \in Requests

OrderInv ==
  \A o \in orders :
    /\ o.audit \in 1 .. calls
    /\ ModeFollows(o.req, o.mode)
    /\ ModeOf[o.req] \in {"paper", "live"}
    /\ RequireApproval => confirmed[o.audit]

WorkerInv ==
  \A t \in Workers :
    WorkerBusy(t) /\ WorkerMode(t) /\ WorkerApproved(t) /\ WorkerAnswer(t)

IInv == TypeOK /\ WorkerInv /\ AuditInv /\ OrderInv

----------------------------------------------------------------------------

\* compute_idempotency_key yields a key.
LEMMA KeyTyped ==
  ASSUME TypeOK, NEW r \in Requests
  PROVE  KeyOf(r) \in Keys
<1>1. NameOf(r) \in ClientIds \cup Terms
  BY RequestsAssumption DEF NameOf
<1>2. bucket \in Buckets /\ 0 \in Buckets
  BY ConfigAssumption DEF TypeOK, Buckets
<1> QED BY <1>1, <1>2 DEF KeyOf, Keys

\* resolve_effective_mode only ever downgrades.
LEMMA EffectiveModeFollows ==
  ASSUME NEW r \in Requests
  PROVE  ModeFollows(r, EffectiveMode(r))
BY RequestsAssumption DEF EffectiveMode, ModeFollows, Modes

\* Local updates keep the types of the local variables.
LEMMA BeginTyped ==
  ASSUME TypeOK, NEW t \in Workers, NEW op \in Ops, NEW r \in Requests,
         NEW a \in Calls, NEW k \in Keys \cup {NoKey}, Begin(t, op, r, a, k)
  PROVE  /\ calls' \in 0 .. MaxCalls
         /\ calls + 1 \in Calls
         /\ pc' \in [Workers -> PCs]
         /\ job' \in [Workers -> Job]
<1>1. calls + 1 \in Calls /\ calls' \in 0 .. MaxCalls
  BY ConfigAssumption DEF TypeOK, Begin, Calls
<1>2. pc' \in [Workers -> PCs]
  BY DEF TypeOK, Begin, Step, PCs
<1>3. [IdleJob EXCEPT !.op = op, !.req = r, !.call = calls + 1, !.audit = a,
                      !.key = k] \in Job
  BY <1>1 DEF IdleJob, Job, Answers
<1> QED BY <1>1, <1>2, <1>3 DEF TypeOK, Begin

\* An answer is all that changes of a worker's local variables.
LEMMA AnswerTyped ==
  ASSUME TypeOK, NEW t \in Workers, NEW s \in Answers, Answer(t, s)
  PROVE  job' \in [Workers -> Job]
BY SMTT(30) DEF TypeOK, Answer, Job

\* update_audit keeps every record a record.
LEMMA UpdateAuditTyped ==
  ASSUME TypeOK, NEW a \in Calls, NEW s \in Status, NEW o \in Calls \cup {0},
         UpdateAudit(a, s, o)
  PROVE  audits' \in [Calls -> AuditRecord]
<1>1. audits[a] \in AuditRecord
  BY DEF TypeOK
<1>2. /\ [audits[a] EXCEPT !.status = s] \in AuditRecord
      /\ [audits[a] EXCEPT !.status = s, !.order = o] \in AuditRecord
  BY <1>1 DEF AuditRecord
<1>3. audits' \in {audits,
        [audits EXCEPT ![a] = [audits[a] EXCEPT !.status = s]],
        [audits EXCEPT ![a] = [audits[a] EXCEPT !.status = s, !.order = o]]}
  BY <1>1 DEF TypeOK, UpdateAudit, AuditRecord
<1> QED BY <1>2, <1>3 DEF TypeOK

\* The invariant holds when the process starts.
LEMMA InitIInv == Init => IInv
<1> SUFFICES ASSUME Init PROVE IInv
  OBVIOUS
<1>1. TypeOK
  BY RequestsAssumption, ConfigAssumption
  DEF Init, TypeOK, Buckets, AuditRecord, NoAudit, Job, IdleJob, PCs, Ops,
      Answers, Status, Keys, Calls
<1>2. WorkerInv
  BY DEF Init, WorkerInv, WorkerBusy, WorkerMode, WorkerApproved, WorkerAnswer
<1>3. AuditInv /\ OrderInv
  BY DEF Init, AuditInv, OrderInv
<1> QED BY <1>1, <1>2, <1>3 DEF IInv

\* What the invariant says of the local variables of a busy worker.
LEMMA WorkerTyped ==
  ASSUME IInv, NEW t \in Workers, pc[t] # "idle"
  PROVE  /\ job[t] \in Job
         /\ job[t].req \in Requests
         /\ job[t].call \in Calls
         /\ job[t].audit \in Calls /\ job[t].audit \in 1 .. calls
BY ConfigAssumption DEF IInv, TypeOK, WorkerInv, WorkerBusy, Calls

\* A replayed submit changes nothing but the call count.
LEMMA SubmitReplayStep ==
  ASSUME IInv, NEW t \in Workers, NEW r \in Requests, SubmitReplay(t, r)
  PROVE  IInv'
<1>1. TypeOK'
  BY ConfigAssumption DEF IInv, TypeOK, SubmitReplay, shared
<1>2. WorkerInv'
  BY DEF IInv, TypeOK, WorkerInv, WorkerBusy, WorkerMode, WorkerApproved,
         WorkerAnswer, SubmitReplay, shared
<1>3. AuditInv'
  BY DEF IInv, TypeOK, AuditInv, SubmitReplay, shared
<1>4. OrderInv'
  BY DEF IInv, TypeOK, OrderInv, SubmitReplay, shared
<1> QED BY <1>1, <1>2, <1>3, <1>4 DEF IInv

\* An approve of an unknown id changes nothing but the call count.
LEMMA ApproveUnknownStep ==
  ASSUME IInv, NEW t \in Workers, NEW a \in Calls, ApproveUnknown(t, a)
  PROVE  IInv'
<1>1. TypeOK'
  BY ConfigAssumption DEF IInv, TypeOK, ApproveUnknown, shared
<1>2. WorkerInv'
  BY DEF IInv, TypeOK, WorkerInv, WorkerBusy, WorkerMode, WorkerApproved,
         WorkerAnswer, ApproveUnknown, shared
<1>3. AuditInv'
  BY DEF IInv, TypeOK, AuditInv, ApproveUnknown, shared
<1>4. OrderInv'
  BY DEF IInv, TypeOK, OrderInv, ApproveUnknown, shared
<1> QED BY <1>1, <1>2, <1>3, <1>4 DEF IInv

\* A fresh submit starts with an unapproved or self-asserted request.
LEMMA SubmitFreshStep ==
  ASSUME IInv, NEW t \in Workers, NEW r \in Requests,
         NEW asserted \in BOOLEAN, SubmitFresh(t, r, asserted)
  PROVE  IInv'
<1>1. TypeOK'
  <2>1. Begin(t, "submit", r, calls + 1, KeyOf(r))
    BY DEF SubmitFresh
  <2>2. "submit" \in Ops /\ r \in Requests /\ calls + 1 \in Calls /\
      KeyOf(r) \in Keys \cup {NoKey}
    BY <2>1, KeyTyped, ConfigAssumption
    DEF IInv, TypeOK, AuditInv, Begin, Calls, Ops, SubmitFresh
  <2>3. /\ calls' \in 0 .. MaxCalls /\ calls + 1 \in Calls
        /\ pc' \in [Workers -> PCs] /\ job' \in [Workers -> Job]
    BY <2>1, <2>2, BeginTyped DEF IInv
  <2> QED BY <2>3 DEF IInv, TypeOK, SubmitFresh, shared
<1>2. WorkerInv'
  BY DEF IInv, TypeOK, WorkerInv, WorkerBusy, WorkerMode, WorkerApproved,
         WorkerAnswer, AuditInv, SubmitFresh, Begin, Step, IdleJob, Job, Calls,
         shared
<1>3. AuditInv'
  BY DEF IInv, TypeOK, AuditInv, SubmitFresh, Begin, shared
<1>4. OrderInv'
  BY DEF IInv, TypeOK, OrderInv, SubmitFresh, Begin, Calls, shared
<1> QED BY <1>1, <1>2, <1>3, <1>4 DEF IInv

\* A precheck-only call starts like a submit.
LEMMA PrecheckOnlyStep ==
  ASSUME IInv, NEW t \in Workers, NEW r \in Requests, PrecheckOnly(t, r)
  PROVE  IInv'
<1>1. TypeOK'
  <2>1. Begin(t, "precheck", r, calls + 1, NoKey)
    BY DEF PrecheckOnly
  <2>2. "precheck" \in Ops /\ r \in Requests /\ calls + 1 \in Calls /\
      NoKey \in Keys \cup {NoKey}
    BY <2>1, KeyTyped, ConfigAssumption
    DEF IInv, TypeOK, AuditInv, Begin, Calls, Ops, PrecheckOnly
  <2>3. /\ calls' \in 0 .. MaxCalls /\ calls + 1 \in Calls
        /\ pc' \in [Workers -> PCs] /\ job' \in [Workers -> Job]
    BY <2>1, <2>2, BeginTyped DEF IInv
  <2> QED BY <2>3 DEF IInv, TypeOK, PrecheckOnly, shared
<1>2. WorkerInv'
  BY DEF IInv, TypeOK, WorkerInv, WorkerBusy, WorkerMode, WorkerApproved,
         WorkerAnswer, AuditInv, PrecheckOnly, Begin, Step, IdleJob, Job,
         Calls, shared
<1>3. AuditInv'
  BY DEF IInv, TypeOK, AuditInv, PrecheckOnly, Begin, shared
<1>4. OrderInv'
  BY DEF IInv, TypeOK, OrderInv, PrecheckOnly, Begin, Calls, shared
<1> QED BY <1>1, <1>2, <1>3, <1>4 DEF IInv

\* An approve marks its request before it goes on.
LEMMA ApproveStep ==
  ASSUME IInv, NEW t \in Workers, NEW a \in Calls, Approve(t, a)
  PROVE  IInv'
<1>1. TypeOK'
  <2>1. Begin(t, "approve", audits[a].req, a, KeyOf(audits[a].req))
    BY DEF Approve
  <2>2. "approve" \in Ops /\ audits[a].req \in Requests /\ a \in Calls /\
      KeyOf(audits[a].req) \in Keys \cup {NoKey}
    BY <2>1, KeyTyped, ConfigAssumption
    DEF IInv, TypeOK, AuditInv, Begin, Calls, Ops, Approve
  <2>3. /\ calls' \in 0 .. MaxCalls /\ calls + 1 \in Calls
        /\ pc' \in [Workers -> PCs] /\ job' \in [Workers -> Job]
    BY <2>1, <2>2, BeginTyped DEF IInv
  <2> QED BY <2>3 DEF IInv, TypeOK, Approve, shared
<1>2. WorkerInv'
  BY DEF IInv, TypeOK, WorkerInv, WorkerBusy, WorkerMode, WorkerApproved,
         WorkerAnswer, AuditInv, Approve, Begin, Step, IdleJob, Job, Calls,
         shared
<1>3. AuditInv'
  BY DEF IInv, TypeOK, AuditInv, Approve, Begin, shared
<1>4. OrderInv'
  BY DEF IInv, TypeOK, OrderInv, Approve, Begin, Calls, shared
<1> QED BY <1>1, <1>2, <1>3, <1>4 DEF IInv

\* The resolved mode follows the mode asked for.
LEMMA RunPrechecksStep ==
  ASSUME IInv, NEW t \in Workers, NEW verdict \in BOOLEAN, RunPrechecks(t,
         verdict)
  PROVE  IInv'
<1>1. TypeOK'
  <2>1. job[t] \in Job /\ EffectiveMode(job[t].req) \in Modes
    BY EffectiveModeFollows
    DEF IInv, TypeOK, WorkerInv, WorkerBusy, WorkerMode, WorkerApproved,
        WorkerAnswer, RunPrechecks, Step, ModeFollows
  <2>2. job' \in [Workers -> Job] /\ pc' \in [Workers -> PCs]
    BY ZenonT(60), <2>1 DEF IInv, TypeOK, RunPrechecks, Step, Job, PCs
  <2> QED BY <2>2 DEF IInv, TypeOK, RunPrechecks, shared
<1>2. WorkerInv'
  BY EffectiveModeFollows
  DEF IInv, TypeOK, WorkerInv, WorkerBusy, WorkerMode, WorkerApproved,
      WorkerAnswer, RunPrechecks, Step, Job, shared
<1>3. AuditInv'
  BY DEF IInv, AuditInv, RunPrechecks, shared
<1>4. OrderInv'
  BY DEF IInv, OrderInv, RunPrechecks, shared
<1> QED BY <1>1, <1>2, <1>3, <1>4 DEF IInv

\* A passed precheck excludes live_disabled.
LEMMA ExecutionPrecheckStep ==
  ASSUME IInv, NEW t \in Workers, ExecutionPrecheck(t)
  PROVE  IInv'
<1>1. TypeOK'
  <2>1. PrecheckVerdict(t) \in BOOLEAN
    BY ConfigAssumption DEF IInv, TypeOK, PrecheckVerdict, SwitchesAllow, Job
  <2>2. job' \in [Workers -> Job] /\ pc' \in [Workers -> PCs]
    BY SMTT(30), <2>1 DEF IInv, TypeOK, ExecutionPrecheck, Step, Job, PCs
  <2> QED BY <2>2 DEF IInv, TypeOK, ExecutionPrecheck, shared
<1>2. WorkerInv'
  <2>1. PrecheckVerdict(t) => job[t].mode # "live_disabled"
    BY DEF PrecheckVerdict
  <2>2. job' = [job EXCEPT ![t] = [job[t] EXCEPT !.passed = PrecheckVerdict(t)]]
    BY DEF ExecutionPrecheck
  <2> QED BY <2>1, <2>2
      DEF IInv, TypeOK, WorkerInv, WorkerBusy, WorkerMode, WorkerApproved,
          WorkerAnswer, ExecutionPrecheck, Step, Job, shared
<1>3. AuditInv'
  BY DEF IInv, AuditInv, ExecutionPrecheck, shared
<1>4. OrderInv'
  BY DEF IInv, OrderInv, ExecutionPrecheck, shared
<1> QED BY <1>1, <1>2, <1>3, <1>4 DEF IInv

\* A blocked approve returns.
LEMMA BlockApproveStep ==
  ASSUME IInv, NEW t \in Workers, BlockApprove(t)
  PROVE  IInv'
<1>1. TypeOK'
  <2>1. IdleJob \in Job
    BY DEF IdleJob, Job, Ops, Answers
  <2> QED BY <2>1 DEF IInv, TypeOK, BlockApprove, Return, Step, PCs, shared
<1>2. WorkerInv'
  BY DEF IInv, TypeOK, WorkerInv, WorkerBusy, WorkerMode, WorkerApproved,
         WorkerAnswer, BlockApprove, Step, Answer, Return, IdleJob, Job, shared
<1>3. AuditInv'
  BY DEF IInv, AuditInv, BlockApprove, shared
<1>4. OrderInv'
  BY DEF IInv, OrderInv, BlockApprove, shared
<1> QED BY <1>1, <1>2, <1>3, <1>4 DEF IInv

\* A precheck-only call returns.
LEMMA FinishPrecheckStep ==
  ASSUME IInv, NEW t \in Workers, FinishPrecheck(t)
  PROVE  IInv'
<1>1. TypeOK'
  <2>1. IdleJob \in Job
    BY DEF IdleJob, Job, Ops, Answers
  <2>2. job[t].audit \in Calls
    BY WorkerTyped DEF FinishPrecheck, Return, Step
  <2>3. audits' \in [Calls -> AuditRecord]
    BY <2>2, UpdateAuditTyped DEF IInv, FinishPrecheck, Status
  <2> QED BY <2>1, <2>3 DEF IInv, TypeOK, FinishPrecheck, Return, Step, PCs
<1>2. WorkerInv'
  BY DEF IInv, TypeOK, WorkerInv, WorkerBusy, WorkerMode, WorkerApproved,
         WorkerAnswer, FinishPrecheck, Step, Answer, Return, IdleJob, Job,
         shared
<1>3. AuditInv'
  BY DEF IInv, TypeOK, AuditInv, FinishPrecheck, UpdateAudit, AuditRecord
<1>4. OrderInv'
  BY DEF IInv, OrderInv, FinishPrecheck, shared
<1> QED BY <1>1, <1>2, <1>3, <1>4 DEF IInv

\* A blocked submit goes to register its answer.
LEMMA BlockSubmitStep ==
  ASSUME IInv, NEW t \in Workers, BlockSubmit(t)
  PROVE  IInv'
<1>1. TypeOK'
  <2>1. job' \in [Workers -> Job]
    BY AnswerTyped DEF IInv, BlockSubmit, Answers
  <2>2. job[t].audit \in Calls
    BY WorkerTyped DEF BlockSubmit, Step
  <2>3. audits' \in [Calls -> AuditRecord]
    BY <2>2, UpdateAuditTyped DEF IInv, BlockSubmit, Status
  <2> QED BY <2>1, <2>3 DEF IInv, TypeOK, BlockSubmit, Step, PCs
<1>2. WorkerInv'
  BY DEF IInv, TypeOK, WorkerInv, WorkerBusy, WorkerMode, WorkerApproved,
         WorkerAnswer, BlockSubmit, Step, Answer, Return, IdleJob, Job, shared
<1>3. AuditInv'
  BY DEF IInv, TypeOK, AuditInv, BlockSubmit, UpdateAudit, AuditRecord
<1>4. OrderInv'
  BY DEF IInv, OrderInv, BlockSubmit, shared
<1> QED BY <1>1, <1>2, <1>3, <1>4 DEF IInv

\* A held submit goes to register its answer.
LEMMA MarkPendingStep ==
  ASSUME IInv, NEW t \in Workers, MarkPending(t)
  PROVE  IInv'
<1>1. TypeOK'
  <2>1. job' \in [Workers -> Job]
    BY AnswerTyped DEF IInv, MarkPending, Answers
  <2>2. job[t].audit \in Calls
    BY WorkerTyped DEF MarkPending, Step
  <2>3. audits' \in [Calls -> AuditRecord]
    BY <2>2, UpdateAuditTyped DEF IInv, MarkPending, Status
  <2> QED BY <2>1, <2>3 DEF IInv, TypeOK, MarkPending, Step, PCs
<1>2. WorkerInv'
  BY DEF IInv, TypeOK, WorkerInv, WorkerBusy, WorkerMode, WorkerApproved,
         WorkerAnswer, MarkPending, Step, Answer, Return, IdleJob, Job, shared
<1>3. AuditInv'
  BY DEF IInv, TypeOK, AuditInv, MarkPending, UpdateAudit, AuditRecord
<1>4. OrderInv'
  BY DEF IInv, OrderInv, MarkPending, shared
<1> QED BY <1>1, <1>2, <1>3, <1>4 DEF IInv

\* A submit that awaits approval never reaches the router.
LEMMA HoldForApprovalStep ==
  ASSUME IInv, NEW t \in Workers, HoldForApproval(t)
  PROVE  IInv'
<1>1. TypeOK'
  BY DEF IInv, TypeOK, HoldForApproval, Step, PCs, shared
<1>2. WorkerInv'
  BY DEF IInv, TypeOK, WorkerInv, WorkerBusy, WorkerMode, WorkerApproved,
         WorkerAnswer, HoldForApproval, Step, Answer, Return, IdleJob, Job,
         shared, AwaitsApproval
<1>3. AuditInv'
  BY DEF IInv, AuditInv, HoldForApproval, shared
<1>4. OrderInv'
  BY DEF IInv, OrderInv, HoldForApproval, shared
<1> QED BY <1>1, <1>2, <1>3, <1>4 DEF IInv

\* A submit passes the approval gate only with a marked request.
LEMMA PassGatesStep ==
  ASSUME IInv, NEW t \in Workers, PassGates(t)
  PROVE  IInv'
<1>1. TypeOK'
  BY DEF IInv, TypeOK, PassGates, Step, PCs, shared
<1>2. WorkerInv'
  BY DEF IInv, TypeOK, WorkerInv, WorkerBusy, WorkerMode, WorkerApproved,
         WorkerAnswer, PassGates, Step, Answer, Return, IdleJob, Job, shared,
         AwaitsApproval
<1>3. AuditInv'
  BY DEF IInv, AuditInv, PassGates, shared
<1>4. OrderInv'
  BY DEF IInv, OrderInv, PassGates, shared
<1> QED BY <1>1, <1>2, <1>3, <1>4 DEF IInv

\* Only paper and live orders are posted.
LEMMA RouteToBrokerStep ==
  ASSUME IInv, NEW t \in Workers, RouteToBroker(t)
  PROVE  IInv'
<1>1. TypeOK'
  BY DEF IInv, TypeOK, RouteToBroker, Step, PCs, shared
<1>2. WorkerInv'
  BY DEF IInv, TypeOK, WorkerInv, WorkerBusy, WorkerMode, WorkerApproved,
         WorkerAnswer, RouteToBroker, Step, Answer, Return, IdleJob, Job,
         shared, AwaitsApproval
<1>3. AuditInv'
  BY DEF IInv, AuditInv, RouteToBroker, shared
<1>4. OrderInv'
  BY DEF IInv, OrderInv, RouteToBroker, shared
<1> QED BY <1>1, <1>2, <1>3, <1>4 DEF IInv

\* A simulated order is answered without the broker.
LEMMA RouteSimulatedStep ==
  ASSUME IInv, NEW t \in Workers, RouteSimulated(t)
  PROVE  IInv'
<1>1. TypeOK'
  <2>1. job' \in [Workers -> Job]
    BY AnswerTyped DEF IInv, RouteSimulated, Answers, Placed
  <2> QED BY <2>1 DEF IInv, TypeOK, RouteSimulated, Step, PCs, shared
<1>2. WorkerInv'
  BY DEF IInv, TypeOK, WorkerInv, WorkerBusy, WorkerMode, WorkerApproved,
         WorkerAnswer, RouteSimulated, Step, Answer, Return, IdleJob, Job,
         shared, Placed
<1>3. AuditInv'
  BY DEF IInv, AuditInv, RouteSimulated, shared
<1>4. OrderInv'
  BY DEF IInv, OrderInv, RouteSimulated, shared
<1> QED BY <1>1, <1>2, <1>3, <1>4 DEF IInv

\* A refused order is not posted.
LEMMA RouteRefusedStep ==
  ASSUME IInv, NEW t \in Workers, RouteRefused(t)
  PROVE  IInv'
<1>1. TypeOK'
  <2>1. job' \in [Workers -> Job]
    BY AnswerTyped DEF IInv, RouteRefused, Answers, Placed
  <2> QED BY <2>1 DEF IInv, TypeOK, RouteRefused, Step, PCs, shared
<1>2. WorkerInv'
  BY DEF IInv, TypeOK, WorkerInv, WorkerBusy, WorkerMode, WorkerApproved,
         WorkerAnswer, RouteRefused, Step, Answer, Return, IdleJob, Job,
         shared, Placed
<1>3. AuditInv'
  BY DEF IInv, AuditInv, RouteRefused, shared
<1>4. OrderInv'
  BY DEF IInv, OrderInv, RouteRefused, shared
<1> QED BY <1>1, <1>2, <1>3, <1>4 DEF IInv

\* A refused POST leaves no order.
LEMMA BrokerRefusesStep ==
  ASSUME IInv, NEW t \in Workers, BrokerRefuses(t)
  PROVE  IInv'
<1>1. TypeOK'
  <2>1. job' \in [Workers -> Job]
    BY AnswerTyped DEF IInv, BrokerRefuses, Answers, Placed
  <2> QED BY <2>1 DEF IInv, TypeOK, BrokerRefuses, Step, PCs, shared
<1>2. WorkerInv'
  BY DEF IInv, TypeOK, WorkerInv, WorkerBusy, WorkerMode, WorkerApproved,
         WorkerAnswer, BrokerRefuses, Step, Answer, Return, IdleJob, Job,
         shared, Placed
<1>3. AuditInv'
  BY DEF IInv, AuditInv, BrokerRefuses, shared
<1>4. OrderInv'
  BY DEF IInv, OrderInv, BrokerRefuses, shared
<1> QED BY <1>1, <1>2, <1>3, <1>4 DEF IInv

\* A reply that is no order leaves none, either.
LEMMA BrokerReplyHollowStep ==
  ASSUME IInv, NEW t \in Workers, BrokerReplyHollow(t)
  PROVE  IInv'
<1>1. TypeOK'
  <2>1. job' \in [Workers -> Job]
    BY AnswerTyped DEF IInv, BrokerReplyHollow, Answers, Placed
  <2> QED BY <2>1 DEF IInv, TypeOK, BrokerReplyHollow, Step, PCs, shared
<1>2. WorkerInv'
  BY DEF IInv, TypeOK, WorkerInv, WorkerBusy, WorkerMode, WorkerApproved,
         WorkerAnswer, BrokerReplyHollow, Step, Answer, Return, IdleJob, Job,
         shared, Placed
<1>3. AuditInv'
  BY DEF IInv, AuditInv, BrokerReplyHollow, shared
<1>4. OrderInv'
  BY DEF IInv, OrderInv, BrokerReplyHollow, shared
<1> QED BY <1>1, <1>2, <1>3, <1>4 DEF IInv

\* An accepted order carries the approval and the mode of its worker.
LEMMA BrokerAcceptsStep ==
  ASSUME IInv, NEW t \in Workers, NEW status \in OrderStatus,
         BrokerAccepts(t, status)
  PROVE  IInv'
<1>1. TypeOK'
  <2>1. job' \in [Workers -> Job]
    <3>1. AnswerOf(status) \in Answers /\ job[t].call \in Calls /\ job[t] \in Job
      BY WorkerTyped
      DEF BrokerAccepts, Step, AnswerOf, OrderStatus, Answers, Placed
    <3> QED BY <3>1 DEF IInv, TypeOK, BrokerAccepts, Job
  <2>2. /\ job[t].call \in Calls /\ job[t].audit \in Calls
        /\ job[t].req \in Requests
    BY WorkerTyped DEF BrokerAccepts, Step
  <2>3. job[t].mode \in {"paper", "live"}
    BY DEF IInv, WorkerInv, WorkerMode, ModeFollows, Modes, BrokerAccepts, Step
  <2>4. NewOrder(t, status) \in OrderRecord
    BY <2>2, <2>3 DEF NewOrder, OrderRecord, OrderStatus
  <2> QED BY <2>1, <2>4 DEF IInv, TypeOK, BrokerAccepts, Step, PCs, shared
<1>2. WorkerInv'
  BY DEF IInv, TypeOK, WorkerInv, WorkerBusy, WorkerMode, WorkerApproved,
         WorkerAnswer, BrokerAccepts, Step, Answer, Return, IdleJob, Job,
         shared, AnswerOf, OrderStatus, Placed
<1>3. AuditInv'
  BY DEF IInv, AuditInv, BrokerAccepts, shared
<1>4. OrderInv'
  BY DEF IInv, TypeOK, OrderInv, WorkerInv, WorkerBusy, WorkerMode,
         WorkerApproved, WorkerAnswer, BrokerAccepts, Step, NewOrder,
         ModeFollows, Modes, shared
<1> QED BY <1>1, <1>2, <1>3, <1>4 DEF IInv

\* An order whose reply is unreadable is still an order.
LEMMA BrokerReplyUnreadableStep ==
  ASSUME IInv, NEW t \in Workers, BrokerReplyUnreadable(t)
  PROVE  IInv'
<1>1. TypeOK'
  <2>1. job' \in [Workers -> Job]
    BY AnswerTyped DEF IInv, BrokerReplyUnreadable, Answers, Placed
  <2>2. /\ job[t].call \in Calls /\ job[t].audit \in Calls
        /\ job[t].req \in Requests
    BY WorkerTyped DEF BrokerReplyUnreadable, Step
  <2>3. job[t].mode \in {"paper", "live"}
    BY DEF IInv, WorkerInv, WorkerMode, ModeFollows, Modes,
           BrokerReplyUnreadable, Step
  <2>4. NewOrder(t, "new") \in OrderRecord
    BY <2>2, <2>3 DEF NewOrder, OrderRecord, OrderStatus
  <2> QED BY <2>1, <2>4 DEF IInv, TypeOK, BrokerReplyUnreadable, Step, PCs, shared
<1>2. WorkerInv'
  BY DEF IInv, TypeOK, WorkerInv, WorkerBusy, WorkerMode, WorkerApproved,
         WorkerAnswer, BrokerReplyUnreadable, Step, Answer, Return, IdleJob,
         Job, shared, AnswerOf, OrderStatus, Placed
<1>3. AuditInv'
  BY DEF IInv, AuditInv, BrokerReplyUnreadable, shared
<1>4. OrderInv'
  BY DEF IInv, TypeOK, OrderInv, WorkerInv, WorkerBusy, WorkerMode,
         WorkerApproved, WorkerAnswer, BrokerReplyUnreadable, Step, NewOrder,
         ModeFollows, Modes, shared
<1> QED BY <1>1, <1>2, <1>3, <1>4 DEF IInv

\* An order whose reply is lost is still an order.
LEMMA BrokerReplyLostStep ==
  ASSUME IInv, NEW t \in Workers, BrokerReplyLost(t)
  PROVE  IInv'
<1>1. TypeOK'
  <2>1. job' \in [Workers -> Job]
    BY AnswerTyped DEF IInv, BrokerReplyLost, Answers, Placed
  <2>2. /\ job[t].call \in Calls /\ job[t].audit \in Calls
        /\ job[t].req \in Requests
    BY WorkerTyped DEF BrokerReplyLost, Step
  <2>3. job[t].mode \in {"paper", "live"}
    BY DEF IInv, WorkerInv, WorkerMode, ModeFollows, Modes, BrokerReplyLost,
           Step
  <2>4. NewOrder(t, "new") \in OrderRecord
    BY <2>2, <2>3 DEF NewOrder, OrderRecord, OrderStatus
  <2> QED BY <2>1, <2>4 DEF IInv, TypeOK, BrokerReplyLost, Step, PCs, shared
<1>2. WorkerInv'
  BY DEF IInv, TypeOK, WorkerInv, WorkerBusy, WorkerMode, WorkerApproved,
         WorkerAnswer, BrokerReplyLost, Step, Answer, Return, IdleJob, Job,
         shared, AnswerOf, OrderStatus, Placed
<1>3. AuditInv'
  BY DEF IInv, AuditInv, BrokerReplyLost, shared
<1>4. OrderInv'
  BY DEF IInv, TypeOK, OrderInv, WorkerInv, WorkerBusy, WorkerMode,
         WorkerApproved, WorkerAnswer, BrokerReplyLost, Step, NewOrder,
         ModeFollows, Modes, shared
<1> QED BY <1>1, <1>2, <1>3, <1>4 DEF IInv

\* The recorded outcome is one of the adapter's answers.
LEMMA RecordOutcomeStep ==
  ASSUME IInv, NEW t \in Workers, RecordOutcome(t)
  PROVE  IInv'
<1>1. TypeOK'
  <2>1. job[t].audit \in Calls /\ job[t].order \in Calls \cup {0}
    BY WorkerTyped DEF RecordOutcome, Step, Job
  <2>2. job[t].answer \in Status
    BY DEF IInv, WorkerInv, WorkerAnswer, RecordOutcome, Step, Status
  <2>3. audits' \in [Calls -> AuditRecord]
    BY <2>1, <2>2, UpdateAuditTyped DEF IInv, RecordOutcome
  <2> QED BY <2>3 DEF IInv, TypeOK, RecordOutcome, Step, PCs
<1>2. WorkerInv'
  BY DEF IInv, TypeOK, WorkerInv, WorkerBusy, WorkerMode, WorkerApproved,
         WorkerAnswer, RecordOutcome, Step, Answer, Return, IdleJob, Job,
         shared
<1>3. AuditInv'
  BY DEF IInv, TypeOK, AuditInv, RecordOutcome, UpdateAudit, AuditRecord
<1>4. OrderInv'
  BY DEF IInv, OrderInv, RecordOutcome, shared
<1> QED BY <1>1, <1>2, <1>3, <1>4 DEF IInv

\* A registered call returns.
LEMMA RegisterStep ==
  ASSUME IInv, NEW t \in Workers, Register(t)
  PROVE  IInv'
<1>1. TypeOK'
  <2>1. IdleJob \in Job
    BY DEF IdleJob, Job, Ops, Answers
  <2>2. /\ idem' \in [Keys -> Calls \cup {0}]
        /\ last' \in [Calls -> Answers]
    BY DEF IInv, TypeOK, Register, Job, WorkerInv, WorkerBusy, Calls
  <2> QED BY <2>1, <2>2 DEF IInv, TypeOK, Register, Return, Step, PCs
<1>2. WorkerInv'
  BY DEF IInv, TypeOK, WorkerInv, WorkerBusy, WorkerMode, WorkerApproved,
         WorkerAnswer, Register, Step, Answer, Return, IdleJob, Job, shared
<1>3. AuditInv'
  BY DEF IInv, AuditInv, Register, shared
<1>4. OrderInv'
  BY DEF IInv, OrderInv, Register, shared
<1> QED BY <1>1, <1>2, <1>3, <1>4 DEF IInv

\* create_audit stores the request of its own call.
LEMMA CreateAuditStep ==
  ASSUME IInv, NEW t \in Workers, CreateAudit(t)
  PROVE  IInv'
<1>1. TypeOK'
  <2>1. job[t].audit \in Calls /\ job[t] \in Job
    BY WorkerTyped DEF CreateAudit, Step
  <2>2. KeepsRequest(t) \in BOOLEAN
    BY <2>1, ConfigAssumption DEF IInv, TypeOK, KeepsRequest, Job
  <2>3. audits' \in [Calls -> AuditRecord]
    BY <2>1, <2>2 DEF IInv, TypeOK, CreateAudit, AuditRecord, Status, Job
  <2>4. present' \subseteq Calls /\ tick' \in Nat
    BY <2>1 DEF IInv, TypeOK, CreateAudit
  <2>5. idem' \in [Keys -> Calls \cup {0}]
    BY DEF IInv, TypeOK, CreateAudit
  <2> QED BY <2>3, <2>4, <2>5 DEF IInv, TypeOK, CreateAudit, Step, PCs
<1>2. WorkerInv'
  BY DEF IInv, TypeOK, WorkerInv, WorkerBusy, WorkerMode, WorkerApproved,
         WorkerAnswer, CreateAudit, Step, Answer, Return, IdleJob, Job, shared
<1>3. AuditInv'
  <2>1. job[t].audit \in 1 .. calls /\ job[t].audit \in Calls /\
      job[t].req \in Requests
    BY WorkerTyped DEF CreateAudit, Step
  <2>2. /\ audits'[job[t].audit].req = job[t].req
        /\ \A a \in Calls \ {job[t].audit} : audits'[a] = audits[a]
    BY <2>1 DEF IInv, TypeOK, CreateAudit
  <2>3. present' \subseteq present \cup {job[t].audit} /\ calls' = calls
    BY DEF CreateAudit
  <2> QED BY <2>1, <2>2, <2>3 DEF IInv, TypeOK, AuditInv
<1>4. OrderInv'
  BY DEF IInv, OrderInv, CreateAudit, shared
<1> QED BY <1>1, <1>2, <1>3, <1>4 DEF IInv

\* reject_execution overwrites a status only.
LEMMA RejectStep ==
  ASSUME IInv, NEW a \in Calls, Reject(a)
  PROVE  IInv'
<1>1. TypeOK'
  <2>1. audits' \in [Calls -> AuditRecord]
    BY UpdateAuditTyped DEF IInv, Reject, Status
  <2> QED BY <2>1 DEF IInv, TypeOK, Reject
<1>2. WorkerInv'
  BY DEF IInv, WorkerInv, WorkerBusy, WorkerMode, WorkerApproved, WorkerAnswer,
         Reject, shared
<1>3. AuditInv'
  BY DEF IInv, TypeOK, AuditInv, Reject, UpdateAudit, AuditRecord
<1>4. OrderInv'
  BY DEF IInv, OrderInv, Reject, shared
<1> QED BY <1>1, <1>2, <1>3, <1>4 DEF IInv

\* A canceled order keeps its audit, request and mode.
LEMMA CancelOrderStep ==
  ASSUME IInv, NEW o \in orders, CancelOrder(o)
  PROVE  IInv'
<1>1. TypeOK'
  <2>1. [o EXCEPT !.status = "canceled"] \in OrderRecord
    BY DEF IInv, TypeOK, OrderRecord, OrderStatus
  <2> QED BY <2>1 DEF IInv, TypeOK, CancelOrder, SetOrderStatus, shared
<1>2. WorkerInv'
  BY DEF IInv, WorkerInv, WorkerBusy, WorkerMode, WorkerApproved, WorkerAnswer,
         CancelOrder, shared, SetOrderStatus
<1>3. AuditInv'
  BY DEF IInv, AuditInv, CancelOrder, SetOrderStatus, shared
<1>4. OrderInv'
  BY DEF IInv, TypeOK, OrderInv, OrderRecord, ModeFollows, CancelOrder,
         SetOrderStatus, shared
<1> QED BY <1>1, <1>2, <1>3, <1>4 DEF IInv

\* A filled order keeps its audit, request and mode.
LEMMA BrokerFillsStep ==
  ASSUME IInv, NEW o \in orders, BrokerFills(o)
  PROVE  IInv'
<1>1. TypeOK'
  <2>1. [o EXCEPT !.status = "filled"] \in OrderRecord
    BY DEF IInv, TypeOK, OrderRecord, OrderStatus
  <2> QED BY <2>1 DEF IInv, TypeOK, BrokerFills, SetOrderStatus, shared
<1>2. WorkerInv'
  BY DEF IInv, WorkerInv, WorkerBusy, WorkerMode, WorkerApproved, WorkerAnswer,
         BrokerFills, shared, SetOrderStatus
<1>3. AuditInv'
  BY DEF IInv, AuditInv, BrokerFills, SetOrderStatus, shared
<1>4. OrderInv'
  BY DEF IInv, TypeOK, OrderInv, OrderRecord, ModeFollows, BrokerFills,
         SetOrderStatus, shared
<1> QED BY <1>1, <1>2, <1>3, <1>4 DEF IInv

\* A switch takes back no approval and changes no order.
LEMMA FlipGateStep ==
  ASSUME IInv, NEW g \in OperatorGates, FlipGate(g)
  PROVE  IInv'
<1>1. TypeOK'
  BY ConfigAssumption DEF IInv, TypeOK, FlipGate, shared, Gates
<1>2. WorkerInv'
  BY DEF IInv, WorkerInv, WorkerBusy, WorkerMode, WorkerApproved, WorkerAnswer,
         FlipGate, shared
<1>3. AuditInv'
  BY DEF IInv, AuditInv, FlipGate, shared
<1>4. OrderInv'
  BY DEF IInv, OrderInv, FlipGate, shared
<1> QED BY <1>1, <1>2, <1>3, <1>4 DEF IInv

\* A new window changes no worker.
LEMMA NextBucketStep ==
  ASSUME IInv, NextBucket
  PROVE  IInv'
<1>1. TypeOK'
  BY ConfigAssumption DEF IInv, TypeOK, NextBucket, shared, Buckets
<1>2. WorkerInv'
  BY DEF IInv, WorkerInv, WorkerBusy, WorkerMode, WorkerApproved, WorkerAnswer,
         NextBucket, shared
<1>3. AuditInv'
  BY DEF IInv, AuditInv, NextBucket, shared
<1>4. OrderInv'
  BY DEF IInv, OrderInv, NextBucket, shared
<1> QED BY <1>1, <1>2, <1>3, <1>4 DEF IInv

\* A restart leaves only idle workers.
LEMMA RestartStep ==
  ASSUME IInv, Restart
  PROVE  IInv'
<1>1. TypeOK'
  <2>1. IdleJob \in Job
    BY DEF IdleJob, Job, Ops, Answers
  <2> QED BY <2>1, ConfigAssumption DEF IInv, TypeOK, Restart, PCs, Answers
<1>2. WorkerInv'
  BY DEF IInv, WorkerInv, WorkerBusy, WorkerMode, WorkerApproved, WorkerAnswer,
         Restart, shared
<1>3. AuditInv'
  BY DEF IInv, AuditInv, Restart, shared
<1>4. OrderInv'
  BY DEF IInv, OrderInv, Restart, shared
<1> QED BY <1>1, <1>2, <1>3, <1>4 DEF IInv

\* No step leaves the invariant.
LEMMA NextIInv == IInv /\ [Next]_vars => IInv'
<1> SUFFICES ASSUME IInv, [Next]_vars PROVE IInv'
  OBVIOUS
<1>1. ASSUME NEW t \in Workers, Arrive(t) PROVE IInv'
  BY <1>1, SubmitReplayStep, SubmitFreshStep, PrecheckOnlyStep, ApproveStep,
           ApproveUnknownStep
  DEF Arrive
<1>2. ASSUME NEW t \in Workers, Proceed(t) PROVE IInv'
  BY <1>2, RunPrechecksStep, ExecutionPrecheckStep, BlockApproveStep,
           CreateAuditStep, FinishPrecheckStep, BlockSubmitStep,
           HoldForApprovalStep, MarkPendingStep, PassGatesStep,
           RouteSimulatedStep, RouteToBrokerStep, RouteRefusedStep,
           BrokerAcceptsStep, BrokerReplyUnreadableStep, BrokerReplyLostStep,
           BrokerReplyHollowStep, BrokerRefusesStep, RecordOutcomeStep, RegisterStep
  DEF Proceed
<1>3. ASSUME NEW a \in Calls, Reject(a) PROVE IInv'
  BY <1>3, RejectStep
<1>4. ASSUME NEW o \in orders, CancelOrder(o) \/ BrokerFills(o) PROVE IInv'
  BY <1>4, CancelOrderStep, BrokerFillsStep
<1>5. ASSUME NEW g \in OperatorGates, FlipGate(g) PROVE IInv'
  BY <1>5, FlipGateStep
<1>6. CASE NextBucket \/ Restart
  BY <1>6, NextBucketStep, RestartStep
<1>7. CASE UNCHANGED vars
  BY <1>7
  DEF vars, shared, IInv, TypeOK, AuditInv, OrderInv, WorkerInv, WorkerBusy,
      WorkerMode, WorkerApproved, WorkerAnswer
<1> QED BY <1>1, <1>2, <1>3, <1>4, <1>5, <1>6, <1>7 DEF Next

\* Every reachable state satisfies the invariant.
THEOREM Inductive == Spec => []IInv
BY InitIInv, NextIInv, PTL DEF Spec

----------------------------------------------------------------------------

\* Every variable of the execution service keeps its type, however the calls
\* overlap and whatever the broker and the operator do.
THEOREM TypeCorrect == Spec => []TypeOK
<1>1. IInv => TypeOK
  BY DEF IInv
<1> QED BY <1>1, Inductive, PTL

\* With EDGESENSE_REQUIRE_HUMAN_APPROVAL set, no order reaches the broker for a
\* request that is not marked as approved (submit_execution, approve_execution).
THEOREM ApprovalSafety == Spec => []ApprovedBeforeBroker
<1>1. IInv => ApprovedBeforeBroker
  BY DEF IInv, OrderInv, ApprovedBeforeBroker
<1> QED BY <1>1, Inductive, PTL

\* No simulated or disabled intent becomes an order, and a live order is one the
\* client asked for in a process configured for live trading
\* (resolve_effective_mode, run_execution_precheck, route_order).
THEOREM ModeSafety == Spec => []ModeHonoured
<1>1. IInv => ModeHonoured
  BY DEF IInv, OrderInv, ModeFollows, ModeHonoured
<1> QED BY <1>1, Inductive, PTL

----------------------------------------------------------------------------

\* While the switches and the drain stay, only a worker that comes to the POST
\* can break StopDrains.
LEMMA NoNewPost ==
  ASSUME StopDrains, gates' = gates, drain' = drain,
         \A w \in Workers : pc'[w] = "post" => pc[w] = "post"
  PROVE  StopDrains'
BY DEF StopDrains

\* The same for a worker that leaves the POST, and with it the drain.
LEMMA PostDone ==
  ASSUME TypeOK, StopDrains, NEW t \in Workers, NEW to \in PCs, to # "post",
         Step(t, "post", to), gates' = gates, drain' = drain \ {t}
  PROVE  StopDrains'
BY DEF StopDrains, Step, TypeOK

\* Every step keeps StopDrains: the POST is only reached past a check that
\* finds the stop off, and FlipGate records who is already there.
LEMMA NextStopDrains == TypeOK /\ StopDrains /\ [Next]_vars => StopDrains'
<1> SUFFICES ASSUME TypeOK, StopDrains, [Next]_vars
             PROVE  StopDrains'
  OBVIOUS
<1>1. CASE \E t \in Workers : Arrive(t)
  <2>1. PICK t \in Workers : Arrive(t)
    BY <1>1
  <2>2. gates' = gates /\ drain' = drain
    BY <2>1 DEF Arrive, SubmitReplay, SubmitFresh, PrecheckOnly, Approve,
                ApproveUnknown
  <2>3. pc' = pc \/ Step(t, "idle", "resolve")
    <3>1. CASE \/ \E r \in Requests : SubmitReplay(t, r)
               \/ \E a \in Calls : ApproveUnknown(t, a)
      BY <3>1 DEF SubmitReplay, ApproveUnknown
    <3>2. CASE \/ \E r \in Requests, asserted \in BOOLEAN :
                    SubmitFresh(t, r, asserted)
               \/ \E r \in Requests : PrecheckOnly(t, r)
               \/ \E a \in Calls : Approve(t, a)
      BY <3>2, Zenon DEF SubmitFresh, PrecheckOnly, Approve, Begin
    <3> QED BY <2>1, <3>1, <3>2 DEF Arrive
  <2>4. \A w \in Workers : pc'[w] = "post" => pc[w] = "post"
    BY <2>3 DEF Step, TypeOK
  <2> QED BY <2>2, <2>4, NoNewPost
<1>2. ASSUME NEW t \in Workers, Proceed(t)
      PROVE  StopDrains'
  <2>1. CASE RouteToBroker(t)
    <3>1. "EMERGENCY_STOP" \notin gates'
      BY <2>1 DEF RouteToBroker, AdapterAllows, SwitchesAllow
    <3> QED BY <3>1 DEF StopDrains
  <2>2. CASE \/ \E status \in OrderStatus : BrokerAccepts(t, status)
             \/ BrokerReplyUnreadable(t) \/ BrokerReplyLost(t)
             \/ BrokerReplyHollow(t) \/ BrokerRefuses(t)
    <3>1. Step(t, "post", "record") /\ gates' = gates /\ drain' = drain \ {t}
      BY <2>2 DEF BrokerAccepts, BrokerReplyUnreadable, BrokerReplyLost,
                  BrokerReplyHollow, BrokerRefuses
    <3> QED BY <3>1, PostDone DEF PCs
  <2>3. CASE \/ \E verdict \in BOOLEAN : RunPrechecks(t, verdict)
             \/ ExecutionPrecheck(t) \/ BlockApprove(t) \/ CreateAudit(t)
    <3>1. gates' = gates /\ drain' = drain
      BY <2>3 DEF RunPrechecks, ExecutionPrecheck, BlockApprove, CreateAudit
    <3>2. \E from, to \in PCs \ {"post"} : Step(t, from, to)
      BY <2>3 DEF RunPrechecks, ExecutionPrecheck, BlockApprove, CreateAudit,
                  Return, PCs
    <3> QED BY <3>1, <3>2, NoNewPost DEF Step, TypeOK
  <2>4. CASE \/ FinishPrecheck(t) \/ BlockSubmit(t) \/ HoldForApproval(t)
             \/ MarkPending(t) \/ PassGates(t)
    <3>1. gates' = gates /\ drain' = drain
      BY <2>4 DEF FinishPrecheck, BlockSubmit, HoldForApproval, MarkPending,
                  PassGates
    <3>2. \E from, to \in PCs \ {"post"} : Step(t, from, to)
      BY <2>4 DEF FinishPrecheck, BlockSubmit, HoldForApproval, MarkPending,
                  PassGates, Return, PCs
    <3> QED BY <3>1, <3>2, NoNewPost DEF Step, TypeOK
  <2>5. CASE \/ RouteSimulated(t) \/ RouteRefused(t) \/ RecordOutcome(t)
             \/ Register(t)
    <3>1. gates' = gates /\ drain' = drain
      BY <2>5 DEF RouteSimulated, RouteRefused, RecordOutcome, Register
    <3>2. \E from, to \in PCs \ {"post"} : Step(t, from, to)
      BY <2>5 DEF RouteSimulated, RouteRefused, RecordOutcome, Register, Return,
                  PCs
    <3> QED BY <3>1, <3>2, NoNewPost DEF Step, TypeOK
  <2> QED BY <1>2, <2>1, <2>2, <2>3, <2>4, <2>5 DEF Proceed
<1>3. CASE \/ \E a \in Calls : Reject(a)
           \/ \E o \in orders : CancelOrder(o)
           \/ \E o \in orders : BrokerFills(o)
           \/ NextBucket
  <2>1. gates' = gates /\ drain' = drain /\ pc' = pc
    BY <1>3 DEF Reject, CancelOrder, BrokerFills, SetOrderStatus, NextBucket
  <2> QED BY <2>1, NoNewPost
<1>4. CASE \E g \in OperatorGates : FlipGate(g)
  BY <1>4 DEF FlipGate, StopDrains
<1>5. CASE Restart
  BY <1>5 DEF Restart, StopDrains
<1>6. CASE UNCHANGED vars
  BY <1>6 DEF vars, StopDrains
<1> QED BY <1>1, <1>2, <1>3, <1>4, <1>5, <1>6 DEF Next

\* Once the emergency stop is on, the only workers that can still POST an order
\* are those past the last check of submit_alpaca_order when it came on.
THEOREM DrainSafety == Spec => []StopDrains
<1>1. Init => StopDrains
  BY DEF Init, StopDrains
<1> QED BY <1>1, NextStopDrains, TypeCorrect, PTL DEF Spec

=============================================================================
