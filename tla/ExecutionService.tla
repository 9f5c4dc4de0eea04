-------------------------- MODULE ExecutionService --------------------------
(***************************************************************************)
(* The order path of the backend: app/execution/*.py behind                *)
(* app/api/routes/execution.py.                                            *)
(*                                                                         *)
(* The routes are plain "def" handlers, so FastAPI runs each call in a     *)
(* worker of its thread pool.  The state they share is four module-level   *)
(* dictionaries without a lock (execution_audit.py), the runtime switches  *)
(* (effective_bool) and the broker.  A worker is modelled by a program     *)
(* counter and the local variables of the handler it runs; one action is   *)
(* one stretch of a handler between two accesses to shared state.          *)
(*                                                                         *)
(* Abstractions.  A request is a model value: one trading intent.  What    *)
(* its idempotency key is made of is given by ClientIdOf and TermsOf, what *)
(* the key leaves out (mode, notional, prices, order type) may differ      *)
(* between intents of one key.  The checks on market data, strategy,       *)
(* account, portfolio and risk answer "pass" or "block", whichever: none   *)
(* of them holds state the service changes, and the position cap counts    *)
(* nothing when its snapshot of the account is not connected.  Blocker     *)
(* texts, warnings, the journal entry and the learning events are          *)
(* write-only and left out.  "partially_filled" is folded into "filled".   *)
(***************************************************************************)
EXTENDS Integers, FiniteSets

CONSTANTS
  Workers,          \* workers of the thread pool
  Requests,         \* the intents clients submit
  ClientIds,        \* values of client_request_id
  NoId,             \* client_request_id is None
  ClientIdOf,       \* the client_request_id of each intent
  Terms,            \* values of (recommendation, symbol, side, quantity)
  TermsOf,          \* those of each intent
  ModeOf,           \* the execution_mode each intent asks for
  RequireApproval,  \* EDGESENSE_REQUIRE_HUMAN_APPROVAL (read once: lru_cache)
  LiveConfigured,   \* EDGESENSE_LIVE_TRADING_ENABLED   (read once: lru_cache)
  SuccessMeansPlaced, \* the broker answers below 400 only for an order it took
  AuditCap,         \* _MAX_AUDITS
  OperatorGates,    \* the switches the operator flips in this instance
  InitialGates,     \* the switches that are on at the start
  MaxCalls,         \* bound: number of submit, precheck and approve calls
  MaxBucket,        \* bound: number of 300 s windows that go by
  MaxRestarts       \* bound: number of process restarts

Modes == {"paper", "simulated", "live_disabled", "live"}

Gates == {"EMERGENCY_STOP", "EXECUTION_ENABLED", "BROKER_EXECUTION_ENABLED",
          "PAPER_TRADING_ENABLED", "LIVE_TRADING_ENABLED"}

Calls   == 1 .. MaxCalls
Buckets == 0 .. MaxBucket

\* A key names its client id, or else the terms of the intent and the 300 s
\* window.
Keys    == (ClientIds \cup Terms) \X Buckets
NoKey   == <<NoId, 0>>

ASSUME RequestsAssumption ==
  /\ NoId \notin ClientIds \cup Terms \cup Requests
  /\ ClientIds \cap Terms = {}
  /\ ClientIdOf \in [Requests -> ClientIds \cup {NoId}]
  /\ TermsOf \in [Requests -> Terms]
  /\ ModeOf \in [Requests -> Modes]

ASSUME ConfigAssumption ==
  /\ RequireApproval \in BOOLEAN
  /\ LiveConfigured \in BOOLEAN
  /\ SuccessMeansPlaced \in BOOLEAN
  /\ AuditCap \in Nat \ {0}
  /\ OperatorGates \subseteq Gates
  /\ InitialGates \subseteq Gates
  /\ MaxCalls \in Nat
  /\ MaxBucket \in Nat
  /\ MaxRestarts \in Nat

VARIABLES
  gates,      \* switches that are on (runtime_settings.json, environment)
  bucket,     \* the current 300 s window
  calls,      \* calls made so far; a call's number also names the fresh
              \* uuids it draws (its audit id, its broker order id)
  restarts,   \* restarts so far
  audits,     \* _AUDITS: the record of each audit id ever handed out
  present,    \* _AUDITS: the ids that are in the dictionary
  tick,       \* source of created_at
  confirmed,  \* human_approval_confirmed of the request object of an audit
  approvals,  \* history: the accepted approve calls of each audit
  idem,       \* _IDEMPOTENCY, 0 when the key is absent
  last,       \* _LAST_RESPONSES, "none" when the audit id is absent
  orders,     \* the orders the broker has on record
  pc,         \* where each worker stands
  job,        \* the local variables of each worker's handler
  drain       \* history: workers past the last check when the stop came on

shared == <<audits, present, tick, confirmed, approvals, idem, last>>
vars   == <<gates, bucket, calls, restarts, shared, orders, pc, job, drain>>

----------------------------------------------------------------------------
(* Types *)

Ops         == {"none", "submit", "approve", "precheck"}
Placed      == {"submitted", "filled", "canceled"}
Status      == Placed \cup {"init", "precheck_complete", "blocked",
                            "pending_approval", "rejected"}
Answers     == Placed \cup {"none", "blocked", "pending_approval", "rejected"}
OrderStatus == {"new", "filled", "canceled", "rejected"}
PCs         == {"idle", "resolve", "gates", "create", "branch", "hold",
                "route", "post", "record", "register"}

AuditRecord == [req : Requests \cup {NoId}, key : Keys \cup {NoKey},
                pending : BOOLEAN, passed : BOOLEAN, status : Status,
                order : Calls \cup {0}, created : Nat]

OrderRecord == [id : Calls, audit : Calls, req : Requests,
                mode : {"paper", "live"}, status : OrderStatus]

Job == [op : Ops, req : Requests \cup {NoId}, call : Calls \cup {0},
        audit : Calls \cup {0}, key : Keys \cup {NoKey},
        mode : Modes \cup {"none"}, passed : BOOLEAN, answer : Answers,
        order : Calls \cup {0}]

NoAudit == [req |-> NoId, key |-> NoKey, pending |-> FALSE, passed |-> FALSE,
            status |-> "init", order |-> 0, created |-> 0]

IdleJob == [op |-> "none", req |-> NoId, call |-> 0, audit |-> 0,
            key |-> NoKey, mode |-> "none", passed |-> FALSE,
            answer |-> "none", order |-> 0]

TypeOK ==
  /\ gates \subseteq Gates
  /\ bucket \in Buckets
  /\ calls \in 0 .. MaxCalls
  /\ restarts \in 0 .. MaxRestarts
  /\ audits \in [Calls -> AuditRecord]
  /\ present \subseteq Calls
  /\ tick \in Nat
  /\ confirmed \in [Calls -> BOOLEAN]
  /\ approvals \in [Calls -> SUBSET Calls]
  /\ idem \in [Keys -> Calls \cup {0}]
  /\ last \in [Calls -> Answers]
  /\ orders \subseteq OrderRecord
  /\ pc \in [Workers -> PCs]
  /\ job \in [Workers -> Job]
  /\ drain \subseteq Workers

Init ==
  /\ gates = InitialGates
  /\ bucket = 0
  /\ calls = 0
  /\ restarts = 0
  /\ audits = [a \in Calls |-> NoAudit]
  /\ present = {}
  /\ tick = 0
  /\ confirmed = [a \in Calls |-> FALSE]
  /\ approvals = [a \in Calls |-> {}]
  /\ idem = [k \in Keys |-> 0]
  /\ last = [a \in Calls |-> "none"]
  /\ orders = {}
  /\ pc = [t \in Workers |-> "idle"]
  /\ job = [t \in Workers |-> IdleJob]
  /\ drain = {}

----------------------------------------------------------------------------
(* Helpers *)

\* What the key says of the intent: the client id alone when there is one.
NameOf(r) == IF ClientIdOf[r] = NoId THEN TermsOf[r] ELSE ClientIdOf[r]

\* compute_idempotency_key at the current time.
KeyOf(r) == <<NameOf(r), IF ClientIdOf[r] = NoId THEN bucket ELSE 0>>

\* get_idempotent_response finds an answer: both lookups succeed.
Cached(k) == idem[k] # 0 /\ last[idem[k]] # "none"

\* Fault: simulated is missing from the list of valid modes and becomes paper.
SimulatedDefaultsToPaper(r) ==
  IF ModeOf[r] \in {"live", "simulated"} THEN "paper" ELSE ModeOf[r]

\* resolve_effective_mode: a live request is downgraded unless both the
\* environment and the runtime switch allow it.
EffectiveMode(r) ==
  IF ModeOf[r] = "live" /\ ~(LiveConfigured /\ "LIVE_TRADING_ENABLED" \in gates)
  THEN "paper"
  ELSE ModeOf[r]

\* The switches both run_execution_precheck and submit_alpaca_order consult.
SwitchesAllow(mode) ==
  /\ "EMERGENCY_STOP" \notin gates
  /\ "EXECUTION_ENABLED" \in gates
  /\ mode = "paper" => "PAPER_TRADING_ENABLED" \in gates
  /\ mode = "live" => LiveConfigured /\ "LIVE_TRADING_ENABLED" \in gates

\* Fault: the adapter relies on the prechecks for the other switches.
AdapterTrustsPrechecks(mode) == "BROKER_EXECUTION_ENABLED" \in gates

\* submit_alpaca_order asks for one more.
AdapterAllows(mode) == SwitchesAllow(mode) /\ "BROKER_EXECUTION_ENABLED" \in gates

\* _trim: all but the AuditCap youngest records.
Overflow(ids, created) ==
  {a \in ids : Cardinality({b \in ids : created[b] > created[a]}) >= AuditCap}

\* Fault: the broker order id is assigned even when it is None.
UpdateAuditUnguarded(a, status, order) ==
  audits' = IF a \in present
            THEN [audits EXCEPT ![a].status = status, ![a].order = order]
            ELSE audits

\* update_audit: does nothing once the record has been trimmed.
UpdateAudit(a, status, order) ==
  audits' = IF a \in present
            THEN [audits EXCEPT ![a].status = status,
                                ![a].order = IF order = 0 THEN @ ELSE order]
            ELSE audits

\* The broker refuses a client_order_id it has already seen on the account.
KnownToBroker(r, mode) ==
  /\ ClientIdOf[r] # NoId
  /\ \E o \in orders : o.mode = mode /\ ClientIdOf[o.req] = ClientIdOf[r]

Step(t, from, to) == pc[t] = from /\ pc' = [pc EXCEPT ![t] = to]

Answer(t, status) == job' = [job EXCEPT ![t].answer = status]

\* The handler returns and its worker is free again.
Return(t, from) == Step(t, from, "idle") /\ job' = [job EXCEPT ![t] = IdleJob]

----------------------------------------------------------------------------
(* submit_execution, run_precheck_only and approve_execution *)

\* A handler starts on audit a, with the key it computed.
Begin(t, op, r, a, key) ==
  /\ calls < MaxCalls
  /\ calls' = calls + 1
  /\ Step(t, "idle", "resolve")
  /\ job' = [job EXCEPT ![t] = [IdleJob EXCEPT !.op = op, !.req = r,
               !.call = calls + 1, !.audit = a, !.key = key]]

\* Fault: a repeated submit continues the audit it finds.
SubmitReplayContinues(t, r) ==
  /\ calls < MaxCalls
  /\ Cached(KeyOf(r))
  /\ Step(t, "idle", "route")
  /\ calls' = calls + 1
  /\ job' = [job EXCEPT ![t] = [IdleJob EXCEPT
               !.op = "submit", !.req = r, !.call = calls + 1,
               !.key = KeyOf(r), !.audit = idem[KeyOf(r)], !.mode = "paper"]]
  /\ UNCHANGED <<gates, bucket, restarts, shared, orders, drain>>

\* submit_execution, lines 66-69: the key has an answer, which is returned.
SubmitReplay(t, r) ==
  /\ calls < MaxCalls
  /\ pc[t] = "idle"
  /\ Cached(KeyOf(r))
  /\ calls' = calls + 1
  /\ UNCHANGED <<gates, bucket, restarts, shared, orders, pc, job, drain>>

\* submit_execution: a key without an answer; the client may assert
\* human_approval_confirmed itself.
SubmitFresh(t, r, asserted) ==
  /\ ~Cached(KeyOf(r))
  /\ Begin(t, "submit", r, calls + 1, KeyOf(r))
  /\ confirmed' = [confirmed EXCEPT ![calls + 1] = asserted]
  /\ UNCHANGED <<gates, bucket, restarts, audits, present, tick, approvals,
                 idem, last, orders, drain>>

\* run_precheck_only: the same checks, an audit without a key.
PrecheckOnly(t, r) ==
  /\ Begin(t, "precheck", r, calls + 1, NoKey)
  /\ UNCHANGED <<gates, bucket, restarts, shared, orders, drain>>

\* approve_execution, lines 257-273: the stored request is marked approved in
\* place, is never removed, and the key is that of the current window.
Approve(t, a) ==
  /\ a \in present /\ audits[a].pending
  /\ Begin(t, "approve", audits[a].req, a, KeyOf(audits[a].req))
  /\ confirmed' = [confirmed EXCEPT ![a] = TRUE]
  /\ approvals' = [approvals EXCEPT ![a] = @ \cup {calls + 1}]
  /\ UNCHANGED <<gates, bucket, restarts, audits, present, tick, idem, last,
                 orders, drain>>

\* approve_execution, lines 258-269: pending_request_not_found.
ApproveUnknown(t, a) ==
  /\ calls < MaxCalls
  /\ ~(a \in present /\ audits[a].pending)
  /\ pc[t] = "idle"
  /\ calls' = calls + 1
  /\ UNCHANGED <<gates, bucket, restarts, shared, orders, pc, job, drain>>

\* run_all_prechecks up to the risk step: the mode is resolved and the checks of
\* data, strategy, account, portfolio and risk give their verdict.
RunPrechecks(t, verdict) ==
  /\ Step(t, "resolve", "gates")
  /\ job' = [job EXCEPT ![t].mode = EffectiveMode(job[t].req), ![t].passed = verdict]
  /\ UNCHANGED <<gates, bucket, calls, restarts, shared, orders, drain>>

\* run_execution_precheck and combine_prechecks.  A submit goes on to write its
\* audit in either case; a failed approve answers "blocked" and leaves the
\* audit as it is.
PrecheckVerdict(t) ==
  job[t].passed /\ SwitchesAllow(job[t].mode) /\ job[t].mode # "live_disabled"

ExecutionPrecheck(t) ==
  /\ Step(t, "gates", IF job[t].op = "approve" THEN "route" ELSE "create")
  /\ job[t].op = "approve" => PrecheckVerdict(t)
  /\ job' = [job EXCEPT ![t].passed = PrecheckVerdict(t)]
  /\ UNCHANGED <<gates, bucket, calls, restarts, shared, orders, drain>>

\* Fault: approve waits for the prechecks to pass.
ApproveRetries(t) ==
  /\ job[t].op = "approve" /\ ~PrecheckVerdict(t)
  /\ Step(t, "gates", "resolve")
  /\ UNCHANGED <<gates, bucket, calls, restarts, shared, orders, job, drain>>

BlockApprove(t) ==
  /\ job[t].op = "approve" /\ ~PrecheckVerdict(t)
  /\ Return(t, "gates")
  /\ UNCHANGED <<gates, bucket, calls, restarts, shared, orders, drain>>

\* Fault: the request is kept although its prechecks failed.
KeepsAnyRequest(t) ==
  /\ job[t].op = "submit"
  /\ RequireApproval /\ ~confirmed[job[t].audit]

\* submit_execution, lines 72-76: the request is kept for a later approve.
KeepsRequest(t) ==
  /\ job[t].op = "submit" /\ job[t].passed
  /\ RequireApproval /\ ~confirmed[job[t].audit]

\* create_audit with its _trim: a record that leaves takes the entry of its
\* key along, whichever audit that entry names; _LAST_RESPONSES is not trimmed.
CreateAudit(t) ==
  LET a       == job[t].audit
      rec     == [req |-> job[t].req, key |-> job[t].key,
                  pending |-> KeepsRequest(t), passed |-> job[t].passed,
                  status |-> "init", order |-> 0, created |-> tick + 1]
      born    == [audits EXCEPT ![a] = rec]
      dropped == Overflow(present \cup {a}, [b \in Calls |-> born[b].created])
  IN
  /\ Step(t, "create", "branch")
  /\ tick' = tick + 1
  /\ audits' = born
  /\ present' = (present \cup {a}) \ dropped
  /\ idem' = [k \in Keys |-> IF \E d \in dropped : born[d].key = k
                             THEN 0 ELSE idem[k]]
  /\ UNCHANGED <<gates, bucket, calls, restarts, confirmed, approvals, last,
                 orders, job, drain>>

\* run_precheck_only, lines 60-61.
FinishPrecheck(t) ==
  /\ job[t].op = "precheck"
  /\ Return(t, "branch")
  /\ UpdateAudit(job[t].audit, "precheck_complete", 0)
  /\ UNCHANGED <<gates, bucket, calls, restarts, present, tick, confirmed,
                 approvals, idem, last, orders, drain>>

\* submit_execution, lines 79-97.
BlockSubmit(t) ==
  /\ job[t].op = "submit" /\ ~job[t].passed
  /\ Step(t, "branch", "register")
  /\ UpdateAudit(job[t].audit, "blocked", 0)
  /\ Answer(t, "blocked")
  /\ UNCHANGED <<gates, bucket, calls, restarts, present, tick, confirmed,
                 approvals, idem, last, orders, drain>>

\* Fault: only live orders wait for approval.
OnlyLiveAwaits(t) ==
  RequireApproval /\ ~confirmed[job[t].audit] /\ job[t].mode = "live"

\* Line 99 reads the flag of the request object again, after create_audit has
\* published that object.
AwaitsApproval(t) == RequireApproval /\ ~confirmed[job[t].audit]

HoldForApproval(t) ==
  /\ job[t].op = "submit" /\ job[t].passed
  /\ AwaitsApproval(t)
  /\ Step(t, "branch", "hold")
  /\ UNCHANGED <<gates, bucket, calls, restarts, shared, orders, job, drain>>

\* submit_execution, lines 100-116.  An approve of this audit may have run, in
\* part or in full, since the flag was read.
MarkPending(t) ==
  /\ Step(t, "hold", "register")
  /\ UpdateAudit(job[t].audit, "pending_approval", 0)
  /\ Answer(t, "pending_approval")
  /\ UNCHANGED <<gates, bucket, calls, restarts, present, tick, confirmed,
                 approvals, idem, last, orders, drain>>

\* submit_execution, line 118.
PassGates(t) ==
  /\ job[t].op = "submit" /\ job[t].passed
  /\ ~AwaitsApproval(t)
  /\ Step(t, "branch", "route")
  /\ UNCHANGED <<gates, bucket, calls, restarts, shared, orders, job, drain>>

----------------------------------------------------------------------------
(* _execute_after_gates and the routers *)

\* route_order in simulated mode: no broker call, no further check.
RouteSimulated(t) ==
  /\ job[t].mode = "simulated"
  /\ Step(t, "route", "record")
  /\ Answer(t, "submitted")
  /\ UNCHANGED <<gates, bucket, calls, restarts, shared, orders, drain>>

\* submit_alpaca_order passes its checks and is about to POST.
RouteToBroker(t) ==
  /\ job[t].mode # "simulated"
  /\ AdapterAllows(job[t].mode)
  /\ Step(t, "route", "post")
  /\ UNCHANGED <<gates, bucket, calls, restarts, shared, orders, job, drain>>

\* A switch is off, the keys are missing, or the payload is refused by
\* submit_paper_order.
RouteRefused(t) ==
  /\ job[t].mode # "simulated"
  /\ Step(t, "route", "record")
  /\ Answer(t, "rejected")
  /\ UNCHANGED <<gates, bucket, calls, restarts, shared, orders, drain>>

NewOrder(t, status) ==
  [id |-> job[t].call, audit |-> job[t].audit, req |-> job[t].req,
   mode |-> job[t].mode, status |-> status]

\* Fault: the broker's word is passed on.
AnswerVerbatim(status) == status

\* The status of the broker's reply, "submitted" unless it is one of two.
AnswerOf(status) == IF status \in {"filled", "canceled"} THEN status ELSE "submitted"

\* The broker takes the POST and its reply arrives; it may report the order as
\* filled, canceled or rejected at once.
BrokerAccepts(t, status) ==
  /\ Step(t, "post", "record")
  /\ ~KnownToBroker(job[t].req, job[t].mode)
  /\ orders' = orders \cup {NewOrder(t, status)}
  /\ job' = [job EXCEPT ![t].answer = AnswerOf(status), ![t].order = job[t].call]
  /\ drain' = drain \ {t}
  /\ UNCHANGED <<gates, bucket, calls, restarts, shared>>

\* The reply is a success without a readable body: no order id is known.
BrokerReplyUnreadable(t) ==
  /\ Step(t, "post", "record")
  /\ ~KnownToBroker(job[t].req, job[t].mode)
  /\ orders' = orders \cup {NewOrder(t, "new")}
  /\ Answer(t, "submitted")
  /\ drain' = drain \ {t}
  /\ UNCHANGED <<gates, bucket, calls, restarts, shared>>

\* The POST is accepted and the reply is lost: requests raises, the adapter
\* answers code 0 and the router "failed".
BrokerReplyLost(t) ==
  /\ Step(t, "post", "record")
  /\ ~KnownToBroker(job[t].req, job[t].mode)
  /\ orders' = orders \cup {NewOrder(t, "new")}
  /\ Answer(t, "rejected")
  /\ drain' = drain \ {t}
  /\ UNCHANGED <<gates, bucket, calls, restarts, shared>>

\* Fault: an order that was not accepted is reported as submitted.
RefusalIgnored(t) ==
  /\ Step(t, "post", "record")
  /\ Answer(t, "submitted")
  /\ drain' = drain \ {t}
  /\ UNCHANGED <<gates, bucket, calls, restarts, shared, orders>>

\* A reply below 400 that is no order (a redirect, say) counts as accepted:
\* submit_paper_order looks at nothing but the status code.
BrokerReplyHollow(t) ==
  /\ ~SuccessMeansPlaced
  /\ Step(t, "post", "record")
  /\ Answer(t, "submitted")
  /\ drain' = drain \ {t}
  /\ UNCHANGED <<gates, bucket, calls, restarts, shared, orders>>

\* The POST is refused, or never reaches the broker.
BrokerRefuses(t) ==
  /\ Step(t, "post", "record")
  /\ Answer(t, "rejected")
  /\ drain' = drain \ {t}
  /\ UNCHANGED <<gates, bucket, calls, restarts, shared, orders>>

\* The update_audit of each of the three outcomes.
RecordOutcome(t) ==
  /\ Step(t, "record", "register")
  /\ UpdateAudit(job[t].audit, job[t].answer, job[t].order)
  /\ UNCHANGED <<gates, bucket, calls, restarts, present, tick, confirmed,
                 approvals, idem, last, orders, job, drain>>

\* Fault: the key is registered without the response.
RegisterKeyOnly(t) ==
  /\ Return(t, "register")
  /\ idem' = [idem EXCEPT ![job[t].key] = job[t].audit]
  /\ UNCHANGED <<gates, bucket, calls, restarts, audits, present, tick,
                 confirmed, approvals, last, orders, drain>>

\* register_idempotency, with the key computed when the call came in; the
\* handler then returns.
Register(t) ==
  /\ Return(t, "register")
  /\ idem' = [idem EXCEPT ![job[t].key] = job[t].audit]
  /\ last' = [last EXCEPT ![job[t].audit] = job[t].answer]
  /\ UNCHANGED <<gates, bucket, calls, restarts, audits, present, tick,
                 confirmed, approvals, orders, drain>>

----------------------------------------------------------------------------
(* The other entry points and the environment *)

\* reject_execution: overwrites the status whatever it was, and leaves the
\* stored request and the cached answer alone.
Reject(a) ==
  /\ a \in present
  /\ UpdateAudit(a, "rejected", 0)
  /\ UNCHANGED <<gates, bucket, calls, restarts, present, tick, confirmed,
                 approvals, idem, last, orders, pc, job, drain>>

SetOrderStatus(o, status) ==
  /\ orders' = (orders \ {o}) \cup {[o EXCEPT !.status = status]}
  /\ UNCHANGED <<gates, bucket, calls, restarts, shared, pc, job, drain>>

\* cancel_execution_order talks to the paper account only; no audit changes.
CancelOrder(o) ==
  /\ o.mode = "paper" /\ o.status = "new"
  /\ SetOrderStatus(o, "canceled")

\* The broker fills a resting order.
BrokerFills(o) ==
  /\ o.status = "new"
  /\ SetOrderStatus(o, "filled")

\* The operator flips a switch.
FlipGate(g) ==
  /\ gates' = IF g \in gates THEN gates \ {g} ELSE gates \cup {g}
  /\ drain' = IF g = "EMERGENCY_STOP" /\ g \notin gates
              THEN {t \in Workers : pc[t] = "post"} ELSE drain
  /\ UNCHANGED <<bucket, calls, restarts, shared, orders, pc, job>>

\* A new 300 s window begins.
NextBucket ==
  /\ bucket < MaxBucket
  /\ bucket' = bucket + 1
  /\ UNCHANGED <<gates, calls, restarts, shared, orders, pc, job, drain>>

\* The process stops and starts again: every dictionary is empty, the calls in
\* progress are gone; the switches and the broker stay as they are.
Restart ==
  /\ restarts < MaxRestarts
  /\ restarts' = restarts + 1
  /\ present' = {}
  /\ idem' = [k \in Keys |-> 0]
  /\ last' = [a \in Calls |-> "none"]
  /\ pc' = [t \in Workers |-> "idle"]
  /\ job' = [t \in Workers |-> IdleJob]
  /\ drain' = {}
  /\ UNCHANGED <<gates, bucket, calls, audits, tick, confirmed, approvals, orders>>

----------------------------------------------------------------------------

\* A call comes in.
Arrive(t) ==
  \/ \E r \in Requests : SubmitReplay(t, r)
  \/ \E r \in Requests, asserted \in BOOLEAN : SubmitFresh(t, r, asserted)
  \/ \E r \in Requests : PrecheckOnly(t, r)
  \/ \E a \in Calls : Approve(t, a)
  \/ \E a \in Calls : ApproveUnknown(t, a)

\* A handler takes its next step.
Proceed(t) ==
  \/ \E verdict \in BOOLEAN : RunPrechecks(t, verdict)
  \/ ExecutionPrecheck(t)
  \/ BlockApprove(t)
  \/ CreateAudit(t)
  \/ FinishPrecheck(t)
  \/ BlockSubmit(t)
  \/ HoldForApproval(t)
  \/ MarkPending(t)
  \/ PassGates(t)
  \/ RouteSimulated(t)
  \/ RouteToBroker(t)
  \/ RouteRefused(t)
  \/ \E status \in OrderStatus : BrokerAccepts(t, status)
  \/ BrokerReplyUnreadable(t)
  \/ BrokerReplyLost(t)
  \/ BrokerReplyHollow(t)
  \/ BrokerRefuses(t)
  \/ RecordOutcome(t)
  \/ Register(t)

Next ==
  \/ \E t \in Workers : Arrive(t)
  \/ \E t \in Workers : Proceed(t)
  \/ \E a \in Calls : Reject(a)
  \/ \E o \in orders : CancelOrder(o)
  \/ \E o \in orders : BrokerFills(o)
  \/ \E g \in OperatorGates : FlipGate(g)
  \/ NextBucket
  \/ Restart

Spec == Init /\ [][Next]_vars

\* A worker whose handler can take a step takes one: CPython schedules every
\* runnable thread, and each blocking call of a handler has a timeout.
FairSpec == Spec /\ \A t \in Workers : WF_vars(Proceed(t))

----------------------------------------------------------------------------
(* Properties *)

\* When approval is required, the broker holds no order whose request was not
\* marked as approved, by the client itself or by an operator: whichever way
\* submit_execution and approve_execution overlap.
ApprovedBeforeBroker ==
  RequireApproval => \A o \in orders : confirmed[o.audit]

\* An intent submitted in simulated or live_disabled mode never becomes an order,
\* and a live order exists only for an intent that asked for live trading in a
\* process configured for it (resolve_effective_mode and route_order together).
ModeHonoured ==
  \A o \in orders :
    /\ ModeOf[o.req] \in {"paper", "live"}
    /\ o.mode = "live" => LiveConfigured /\ ModeOf[o.req] = "live"

\* An audit whose prechecks failed, or that was made by the precheck-only route,
\* is never executed, not even through a later approve of its id.
BlockedNeverOrdered ==
  \A o \in orders : o.audit \in present =>
    /\ audits[o.audit].passed
    /\ audits[o.audit].status \notin {"blocked", "precheck_complete"}

\* What the service reports as placed was placed, if the broker answers below 400
\* only for orders it takes: an audit status or a cached answer that says
\* submitted, filled or canceled belongs to a simulated intent or to an order the
\* broker really has on record.  A recorded broker order id is always that of an
\* order of this audit.
Backed(a, r) ==
  \/ ModeOf[r] = "simulated"
  \/ ~SuccessMeansPlaced
  \/ \E o \in orders : o.audit = a

PlacedIsBacked ==
  /\ \A a \in present :
       /\ audits[a].status \in Placed => Backed(a, audits[a].req)
       /\ audits[a].order # 0 =>
            \E o \in orders : o.id = audits[a].order /\ o.audit = a
  /\ \A a \in Calls : last[a] \in Placed => Backed(a, audits[a].req)

\* What a replay may tell a client.  An entry of _IDEMPOTENCY names an answered
\* audit of a request with that key, although trimming and registering are not
\* atomic and approve registers the audit under a second key; and when the answer
\* says placed, an order under this very key is at the broker, or that audit is a
\* simulated one.  It need not be the order of the intent that is repeated:
\* compute_idempotency_key tells two intents of one client_request_id, or of one
\* symbol, side and quantity, not apart, whatever their mode and prices.
ReplayMatchesKey ==
  \A k \in Keys : idem[k] # 0 =>
    LET a == idem[k] IN
    /\ last[a] # "none"
    /\ NameOf(audits[a].req) = k[1]
    /\ last[a] \in Placed =>
         \/ ModeOf[audits[a].req] = "simulated"
         \/ ~SuccessMeansPlaced
         \/ \E o \in orders : o.audit = a /\ NameOf(o.req) = k[1]

\* pending_request is never cleared, so each approve may send one more order;
\* and one more than that may be sent when the operator approves the audit
\* between the two places where submit_execution reads human_approval_confirmed.
\* There are never more.
OrdersBoundedByApprovals ==
  \A a \in Calls : Cardinality({o \in orders : o.audit = a}) <= Cardinality(approvals[a]) + 1

\* The order path keeps the promise of ApprovalGate: every order is owed to a
\* call of its own, the submit of its audit or one approve of it, and is placed
\* only once the request is approved.  Retries, replays, overlapping approves,
\* eviction and restarts of submit_execution and approve_execution add nothing.
Gate == INSTANCE ApprovalGate WITH placed <- {<<o.id, o.audit>> : o \in orders}

ImplementsGate == Gate!GateSpec

\* While the emergency stop is on, the only workers that can still reach the
\* broker are those that had passed the adapter's last check when it came on.
StopDrains ==
  "EMERGENCY_STOP" \in gates => {t \in Workers : pc[t] = "post"} \subseteq drain

\* The audit log keeps one record per idempotency key.
OneAuditPerKey ==
  \A a, b \in present :
    audits[a].key # NoKey /\ audits[a].key = audits[b].key => a = b

\* Once an audit names its broker order it always names one of its orders: the
\* status may be overwritten by a reject, by the answer of a second approve or by
\* a late pending_approval, the trace to the broker is not lost.
OrderTraceKept ==
  [][\A a \in present : audits[a].order # 0 =>
       \E o \in orders' : o.audit = a /\ o.id = audits'[a].order]_vars

\* Every call that came in is answered, whatever the broker does.
EveryCallAnswered ==
  \A t \in Workers : (pc[t] # "idle") ~> (pc[t] = "idle")

=============================================================================
