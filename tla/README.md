# A TLA+ specification of EdgeSenseAI: orders, switches, agent runs, paper trading, stages, promotion

EdgeSenseAI is a trading recommendation platform for small accounts: a FastAPI
backend (`backend/app`), a Next.js frontend, Postgres and Redis. Nearly every
route is a plain `def` handler, so FastAPI runs each call in a worker of its
thread pool; the state the handlers share is module-level objects, one JSON
file and best-effort Postgres, almost always without a lock. This directory
specifies the two paths by which an order reaches a broker (the execution service, with its
audits and adapter, and TradeNow, which has neither), the settings both read, how agent
runs and workflows are recorded, how approval items and paper trades are kept, what a trade may
do on its way from a market session to a lesson, and which models may score.

The models are of a deployment that is not production. With `APP_ENV=production` the
allowlist of `main.py` (134-167) serves neither `/api/execution/*` nor the TradeNow routes, and
`effective_bool` reads the environment before the file.

All paths below are relative to `backend/app/`.

## Inventory

| Component | State | Operations | What is hard | What makes it correct |
|---|---|---|---|---|
| Execution service (`execution/execution_service.py`, `execution_audit.py`, `api/routes/execution.py`) | audits, idempotency keys, cached responses (process memory, 500 audits) | submit, precheck-only, approve, reject, cancel, list | handlers overlap; a shared mutable request object; eviction; restart | approval before order, a bound on orders, no false "placed", a replay belongs to its key |
| Prechecks (`execution/execution_prechecks.py`, `risk/`, `portfolio_manager/`) | none of their own | seven checks, the effective mode | checks precede the act by seconds | a mode is never escalated |
| Routers and broker adapter (`execution/*_router.py`) | none; the broker account | route, POST, cancel | lost, refused and unreadable replies; switches flipped before the POST | the stop drains; the audit traces the order |
| TradeNow orders (`services/alpaca_execution_service.py`, `api/routes/tradenow.py`, `POST /paper-trading/order`, the `paper_order` check of `services/platform_integration_checks_service.py`) | one module-level `_CONFIG` | get and set the configuration, manual and autonomous orders, the integration check | every call rewrites `_CONFIG`, orders read it field by field up to the POST; no audit, no idempotency key; the emergency stop is not read | the process and the request grant what an order needs, the switches allowed its account |
| Runtime settings store (`core/runtime_settings_store.py`, `core/effective_runtime.py`) | `runtime_settings.json` | load, save, delete, look up a switch | truncate-then-write, lost updates, unparsable files read as defaults | rules between switches survive |
| Settings and gate endpoints (`api/routes/settings.py`, `services/runtime_gate_config.py`, `services/auto_run_control_service.py`) | the same file | POST /settings, PUT /settings/gates, PUT /auto-run/status, POST /settings/reset | three writers with three sets of rules | live trading needs the broker and approval; the stop holds |
| Risk state store (`execution/risk_state_store.py`) | daily loss, lockout | record, read | nothing in production writes it | - |
| Approval queue (`services/approval_queue`) | items in memory and Postgres | create, list, get, approve, reject, cancel | no guard on the status; two stores, lists copied over memory | the stores agree about what nobody has in hand |
| Agent runtime (`services/agent_runtime`) | workflow and agent runs, fingerprints in three places, a Redis lock | create a workflow record, run an agent | the lock is advisory and has no owner; ids have the resolution of a second; every store may be away | an indexed request never runs again; only overlapping runs lose each other; no lock is left |
| Workflow orchestrator (`services/workflow_orchestrator`, `services/workflow_governance`) | responses in memory and Postgres | run, list, get | a limit counted when runs end; blocked agents do not stop a run, exceptions do | the boundary holds; the daily limit has a bound; a response can be traced |
| Paper autonomy (`services/paper_autonomy` and the agents that drive it) | paper orders, positions, outcomes | place, mark, close, evaluate | read and written back in two steps, mark racing close | a closed position stays closed; excursions are those of the prices seen |
| Trade stages (`services/session_router` ... `services/learning_loop`) | the latest answer of each stage | session, route, eligibility, trigger, plan, handoff, position, review, evaluation, lesson | each stage trusts what its caller carries, in a world that has moved | a handoff is backed, a plan has the largest stake the limits allow, an exit is final, a worse record is not judged better |
| Model promotion (`services/model_promotion_service.py`, `model_gate_policy.py`, the evidence services) | rows of artifacts, runs, reviews | register, evaluate, calibrate, backtest, request, approve, reject, status | five queries that are not a snapshot; decisions that name nothing | what counts as evidence is evidence, and only of its own model; an approved model is eligible (it is not) |
| Promotion center, proof and model registries | status records | create, attach, retire | one writer each | - |
| LLM gateway and budget gate | the day's cost | estimate, call | the cost is compared before a call and recorded after it | - |
| Recommendation lifecycle, trigger rules, watchlists | status records in memory | create, expire | nothing modelled reads them | - |
| Schedulers (`orchestration/schedulers`, `services/workflow_scheduler`) | schedules with a flag | create, enable, disable, run once | nothing ticks: a run is started by hand | - |
| Scanner and strategy workflow runs | cooldowns, run records | scan, run | the cooldown is read before a run and set after it | - |
| Earlier decision pipeline, risk manager, rankings | the latest answer of each | compute | nothing modelled reads them | - |
| Journal, outcomes, memory, performance updates | records, weights | append | single calls | - |
| Evidence, audit log, runbook, readiness | append-only records | record, report | - | - |
| Owner policy, feasibility, alpha engine, agent reasoning | none | compute | blocked or failed answers | a free verdict of the agents that wrap them |
| Workers, broker account reader | feature and scan stores | fill, read | provider I/O | - |
| Persistence (`db/`) | Postgres | open a session, create tables | silently absent | - |
| Market data, features, models, research labs | mostly none | pure computations and provider I/O | numeric | - |

How they interact: the frontend and the orchestrator's agents call the routes;
the execution service calls the prechecks, which read the runtime settings, the
risk state and a snapshot of the broker account; then the router, whose adapter
reads the runtime settings again and calls the broker. TradeNow goes past all of it: it reads two
switches of the file and its own configuration and posts. Operators flip the
switches through the settings endpoints while all of that is going on. The
orchestrator runs the agents of a plan one after the other through the agent
runtime, in the thread of its own call; the agent at the execution boundary
either asks the approval queue or simulates a paper order, the later agents mark,
close and evaluate the position. Each stage of a trade is also an endpoint that a
caller can call by itself, with whatever it carries.

`PROJECT.json` lists the components of this table with their status, and under `hazards` the
places where this code is hard to test.

## Modules

| Module | What it is |
|---|---|
| `ApprovalGate` | abstract specification: what the order path promises, without workers, audits or prechecks |
| `ExecutionService` | the order path: handlers as workers with a program counter and local variables, the broker, the operator's switches, restarts; implements `ApprovalGate` |
| `ExecutionProofs`, `ApprovalProofs`, `AuditProofs` | its theorems: types, modes and approval; the refinement and the bound on orders; what the audit log can be trusted for, its traces and its keys |
| `TradeNow` | the second order path: threads on one shared configuration, an operator, the broker |
| `RuntimeSettings` | the settings file, its writers, and the adapter's checks that load it |
| `RuntimeSettingsProofs` | its theorems |
| `AgentRuntime` | create_agent_run over memory, Postgres and Redis |
| `WorkflowOrchestrator` | extends `AgentRuntime`: run_workflow on top of it, beside clients that run single agents |
| `WorkflowProofs` | theorems about both: types, the lock, the index, the execution boundary, the records, the daily limit, the responses |
| `ApprovalQueue` | the queue over memory and Postgres |
| `PaperAutonomy` | extends `ApprovalQueue`: the paper account and the agents that drive it |
| `PaperProofs` | theorems about both: types, the two stores of the queue, the records of positions, the history of outcomes |
| `StageRules` | the rules of the stages as operators on the world |
| `TradeStages` | extends `StageRules`: one trade through the stages, in a world that moves |
| `StageProofs` | theorems about both: types, the chain behind a handoff, the size of a plan, the route, exits, lessons |
| `ModelPromotion` | evidence, promotion reviews and the gate of a model |
| `PromotionProofs` | its theorems: types, the baseline, what counts as evidence and that it stays |
| `MC...` | instances for TLC |

A definition whose comment starts with "Fault:" is not part of the
specification: it is the form a plausible bug would give to the definition after
it, and a property that does not notice the exchange says nothing about the code.

### ExecutionService

| Variable | In the code |
|---|---|
| `audits`, `present` | `_AUDITS`: the records, and the ids that are in the dictionary now (an evicted record is kept in `audits` so that properties can speak of it) |
| `idem`, `last` | `_IDEMPOTENCY`, `_LAST_RESPONSES` |
| `confirmed` | `human_approval_confirmed` of the request object an audit stores. The object is shared: submit reads it twice, approve writes it |
| `gates` | the switches that are on |
| `bucket` | the 300 s window in `compute_idempotency_key` |
| `calls` | counts the calls; a call's number doubles as the fresh uuids it draws |
| `tick` | `created_at` of the next audit |
| `orders` | what the broker has on record |
| `pc`, `job` | where each worker stands, and the local variables of its handler |
| `approvals`, `drain` | history variables of two properties |

One action is one stretch of a handler between two accesses to shared state:

    idle -> resolve -> gates -> create -> branch -> hold ----------------> register -> idle
                         |                  |                                 ^
                         |                  +-> route -> post -> record ------+
                         +-> route (approve: no new audit)

`resolve` is `run_all_prechecks` up to the risk step, `gates` is
`run_execution_precheck`, `create` is `create_audit` with its trim, `branch` are
lines 79, 99 and 118 of `submit_execution`, `route` is the router up to the
adapter's last check, `post` is `requests.post`, `record` is `update_audit` and
`register` is `register_idempotency` and the return.

Abstractions:

* A request is a model value: one trading intent, with its execution mode. What
  `compute_idempotency_key` keeps of it is all its key has: the `client_request_id` (`ClientIdOf`) when
  there is one, and otherwise recommendation, symbol, side and quantity (`TermsOf`) with the 300 s
  window. Mode, notional, limit price and order type are not in it, so two intents may share
  a key, and a replay may answer the one with what was done for the other; `ReplayMatchesKey` says
  what such an answer can be trusted for all the same.
* The data, strategy, account, portfolio and risk checks give a free verdict.
  They change no state; the cap on positions is a check of a snapshot that
  counts nothing when the snapshot is not connected, so the code does not
  promise it.
* The switches of one round of checks are read in one step, at the read of the
  emergency stop, which comes first. `RuntimeSettings` models the separate reads.
* Two adjacent lines of one handler that touch different dictionaries
  (`register_idempotency`, `create_audit` and its trim) are one step.
* The broker answers a POST with success, with an error status, or with a reply below 400 that is
  no order at all (1xx, 3xx), which the adapter takes for a success (`BrokerReplyHollow`). Nothing that
  says "placed" can be trusted then, so `PlacedIsBacked` and the last part of `ReplayMatchesKey` suppose
  that the broker sends none (`SuccessMeansPlaced`); the other properties suppose nothing, and
  `exec_progress` runs with such replies. `partially_filled` is `filled`.
* Left out as write-only: blocker texts, warnings, the journal entry, learning
  events. `sync` and `list` only read.

`StopDrains` is a statement about this path's adapter. TradeNow never reads the stop.

### TradeNow

| Variable | In the code |
|---|---|
| `env` | the process environment: broker switch, autonomous switch, keys. Fixed |
| `switches` | `LIVE_TRADING_ENABLED`, `PAPER_TRADING_ENABLED` and the stop in the settings file. The stop is here because POST /settings turns live trading off with it |
| `config` | `_CONFIG`: toggles, mode, live flag, and whether each list of blockers is empty |
| `pc`, `job` | where each call stands, and its local variables |
| `orders` | what the broker took |
| `view` | history: what held while the call ran |

    load_live -> load_paper -> assess -> store -> answer             (_refresh_config)
                                              -> validate -> branch -> blockers
                                                 -> live_check -> endpoint -> post

PUT /tradenow/config writes the toggles, then the mode, then refreshes. The integration check borrows the
configuration (toggle on), places an order and restores; what it calls the previous configuration is
`_CONFIG` itself, so it restores what it finds. `/paper-trading/order` hands its request to the function of
`/tradenow/orders` without a mode, so the two are one route here (`manual`).

What the code does not do is not in the model, and no property claims it:

* No step reads `EMERGENCY_STOP` or `EXECUTION_ENABLED`. `core/runtime_settings_store.py:19-21` says that they
  block "all order submission paths" and that the stop "overrides everything else"; on this path they do not.
* An order of `/paper-trading/order` ("Place a paper trading order with Alpaca.", `paper_trading_lifecycle.py:128`)
  goes to the live account while the shared mode is live.
* The toggle need not have been turned on by a user: the integration check does it itself, and vouches for the
  approval.
* With the paper switch off from beginning to end, an order assessed while the mode was `dry_run` becomes a paper
  order when an overlapping PUT has set the mode: `AccountWasAllowed` says exactly how far this goes.
* A repeated order is a second order.

Left out: the answers kept for two GET routes, and the truncated settings file (`RuntimeSettings` has it).

### RuntimeSettings

A configuration is the set of the safety switches that are on. A writer is
load-merge-validate (`LoadAndMerge` or `RefuseUpdate`), `OpenFile` (`open("w")`
empties the file), `WriteFile` or `SaveFails`. The dump is about 2 kB, less than
the buffer of a text file, so it reaches the disk in one write at offset 0 when
the file is closed; if another writer has put a longer text there since, a tail
of it stays and the file no longer parses. `Reset` unlinks the file, and a writer
that still has it open writes to the deleted one (`attached` says whose handle
is on the file of that name). A checker is the sequence of `effective_bool` calls of
`submit_alpaca_order`, each of which loads the file again.

Left out: budgets, providers, audit stamps, `WORKFLOW_*`, `EXECUTION_AGENT_ENABLED`,
the auto-run flag in memory, and the production environment, in which environment
variables come before the file.

### ApprovalGate

Somebody asks, the request may be approved any number of times, and each of these
calls places at most one order, none before the request is approved. The
refinement mapping of `ExecutionService` (`Gate`) takes `calls`, `confirmed` and
`approvals` as they are and maps `placed` to the pairs of call and audit of the
broker's orders: an accepted submit is `Ask`, an accepted approve `Consent`, any other
call `Look`, a POST the broker accepts `Place`, everything else stutters.

### AgentRuntime and WorkflowOrchestrator

| Variable | In the code |
|---|---|
| `memWf`, `objects`, `dbWf` | `_WORKFLOW_RUNS`, the record objects it points to, rows of `agent_workflow_runs`. Objects have identity: without Postgres two runs share one, with Postgres each loads its own |
| `memRuns`, `dbRuns` | `_AGENT_RUNS`, rows of `agent_runs` |
| `memIndex`, `redisIndex`, `dbIndex` | the three fingerprint indexes, looked up Redis first |
| `locks` | the lock keys in Redis |
| `rpc`, `job` | where a worker stands in `create_agent_run`, and its locals |
| `flow`, `memFlows`, `dbFlows`, `items` | the locals of `run_workflow`, `_MEMORY`, rows of `workflow_orchestrator_runs`, approval items |

`create_agent_run` is cut where it touches a store: lookup, `_ensure_workflow_run`
with the lock, the wrapper with the release and `store_agent_run`,
`index_idempotency`, and the append to the workflow record. `run_workflow` is
governance, the record, one call of the runtime per stage, and `_persist_run`.
Postgres and Redis come and go, a lock expires, the process restarts, switches are
turned: `mishaps` counts them, and the properties name the ones they except.

### ApprovalQueue and PaperAutonomy

`task[t]` is what a worker is about to do: a row it has read and will copy over
memory, a decision it has put in memory and will save, a copy of a position it
will write back, a surplus it has counted and will delete. `contested` and `crossed`
remember the items and positions that two workers had in hand at one time, which
the code does not protect. `unsaved` remembers the items whose latest row was not written: a call may
find no session although Postgres is up (`service.py:12-20`), and a commit that fails is swallowed
(90-94, 189-193) after memory was written. A list then brings the old status back, in one thread and without a
word. The properties speak of all the others.

### StageRules and TradeStages

A stage is an operator from what the caller carries (`file`) and the world to an
answer, in the order the code's rules are tried: `FirstOf` for rules that return,
`LastOf` for rules that overwrite. The world holds what the rules compare: the
minute and the day, quality, liquidity, volatility, proof, price, average true range,
and the signals and gates that are on. `judged` remembers the world each stage saw.
The strategy is regime-aware momentum, the one whose requirements the code spells
out, and positions are long, as in the code.

Prices and shares are whole numbers. R is rounded to hundredths, ties up, before it is compared, as
`position_monitoring/rules.py:46-50` does (`Rounded`), and the returns behind a
lesson are kept in hundredths of R, rates in 1/10000. A plan is sized at the reference price and carries its limit beside
it, any ask of the request or none. A position is opened from a flat plan, with neither a handoff nor an
order among its levels required: that is all `paper_simulator.py` (160-243) looks at, and
`execution_planner_adapter.py` (73-227) makes such plans without a sizing check. So the way to a handoff and the way from
a position to a lesson are two ways in the model, as they are in the code. The sample size of a record may be the
caller's claim (`learning_loop/rules.py:62`).

### ModelPromotion

Rows are only ever added and are named by the call that added them; without Postgres a call
answers and saves nothing. A gate is six steps of a worker, one per query and the
answer: `at` is the query it has come to, `gate` the local variables it has filled, in which
an approval is none, a plain one or one for live trading (`approval`). `eligible` remembers which models were ever answered to be eligible. Review
ids hold no ":" in the code, and `approve_model_promotion` reads the model off the part before
one: a client that coins such an id is in the model (`Coined`, `KeyOf`).

## Runs

`tlc -config <run>.cfg <module>`, each within a few minutes with two workers.

| Run | Module | Instance | Shows |
|---|---|---|---|
| `exec_overlap` | MCExecutionService | 2 workers, 1 intent, 3 calls, 2 audits kept, one preview at a time | `TypeOK`, `ApprovedBeforeBroker`, `PlacedIsBacked`, `OrdersBoundedByApprovals` under every overlap of submit, approve, reject, precheck |
| `exec_environment` | MCExecutionService | 2 workers, a simulated and a live intent of one key, 2 calls, 1 audit kept; the emergency stop, the live switch, a new window or a restart | `ModeHonoured`, `BlockedNeverOrdered`, `PlacedIsBacked`, `ReplayMatchesKey`, `StopDrains`, and the refinement `ImplementsGate` |
| `exec_progress` | MCExecutionService | 2 fair workers, 2 intents of one client id, 2 calls; replies below 400 that are no order | `EveryCallAnswered`, `OrderTraceKept` |
| `exec_duplicate` | MCExecutionService | 2 workers, 1 intent | violation of `OneAuditPerKey` |
| `tradenow` | MCTradeNow | 2 workers, 3 calls, everything granted or one grant missing, 3 configurations, 5 kinds of order, the integration check, one turn of the stop or the paper switch | `TypeOK`, `OrdersAreGranted`, `AccountWasAllowed` |
| `settings_overlap` | MCRuntimeSettings | 2 workers, 12 updates, 4 calls, 1 fault | `TypeOK`, `SafeConfig`, `StopKeepsBrokerOff`, `PostsOnWholeFile` |
| `settings_stop_lost` | MCRuntimeSettings | 2 workers, nobody lifts the stop | violation of `StopHolds` |
| `workflow_runs` | MCWorkflowOrchestrator | 2 workers, 2 agents, ten demands of up to 3 flows, 3 clients, 2 seconds, 1 mishap | `WorkflowTypeOK`, `LostOnlyToRivals`, `LockExclusive`, `LockNotLeaked`, `DailyLimitBound`, `ResponseTraceable`, `RepeatRunsNothing` |
| `paper_trading` | MCPaperAutonomy | 2 workers, 2 orders, 2 prices, 2 items, 2 workflows, five demands, 1 restart | `PaperTypeOK`, `QueueAgrees`, `ExcursionsExact`, `ClosedStaysClosed`, `HistoryBounded` |
| `trade_stages` | MCTradeStages | 7 worlds, 2 moves, 10 minutes, 7 prices, an ask, 7 records; 5 flat plans in the good world | `StagesTypeOK`, `HandoffIsBacked`, `StakeIsLargest`, `PlanFollowsRoute`, `ExitsAreFinal`, `WorseIsNeverBetter` |
| `model_promotion` | MCModelPromotion | 2 workers, 3 models, windows of 2 and 1, eight demands, outages | `PromotionTypeOK`, `CountedEvidenceIsReal`, `EvidenceIsOwn` |
| `promotion_refused` | MCModelPromotion | the same | violation of `PromotedIsEligible` |

What the three violations say:

* `exec_duplicate`: the idempotency key is looked up when a call comes in and
  registered when it returns. Two submits of one intent that overlap both miss.
* `settings_stop_lost`: a writer that loaded the file before the emergency stop
  was stored writes its older configuration back, and between `open("w")` and
  the write the file is empty and read as the defaults, in which the stop is off.
* `promotion_refused`: a model with an artifact, every kind of run passed, a review
  and the owner's approval of it for live use is not eligible. The gate wants an approval that
  names the present artifact (`model_promotion_service.py:50`), a request is approved only past the gate (105), and a
  decision names no artifact and as a rule no model (118-121). `docs/MODEL_REGISTRY_AND_ELIGIBILITY.md:52-59` lists what a model
  needs to be promoted, and `tests/service/test_model_promotion_service_fast.py:28` asserts it of a model that has
  all of it, with the promotion query replaced. `OnlyBaselineEligible`, a theorem, says how far this goes: no
  model but the baseline is ever eligible.

Also seen while modelling, and one call long: POST /settings turns live trading on without the
confirmation that PUT /settings/gates demands and `runtime_gate_config.py:99-100` promises.

What holds is as telling. `pending_request` is never cleared, so a
rejected audit can still be approved and each approve sends one more order;
`OrdersBoundedByApprovals` states what is left: at most one order per accepted
approve plus one, the one being the submit itself, either because the client
asserted its approval or because an operator approved between the two reads of
the flag. Statuses are overwritten freely, but `OrderTraceKept`: no step
of any handler takes the broker order id away again. The settings file is lost
and garbled, but `SafeConfig`: every configuration anyone can load obeys
the rules about live trading, because the defaults do and every writer keeps
them, one of them (PUT /auto-run/status) only thanks to its environment.

The lock of the agent runtime is advisory, and still: two runs that both believe they hold
it never overlap unless a lock outlived its 60 seconds, and none is left behind by a run
that raised. A run is missing from its workflow's record only if it shared the record
with another run or the record's id, a second, was given out twice. The daily limit is
counted from rows written at the end, so it is exceeded by up to the number of workers that
run in parallel, and by as many again after a restart: `DailyLimitBound` is that number.

Two threads of TradeNow overwrite each other's mode and blockers, so an order validated as a paper
order may go to the live account. `AccountWasAllowed` is what is left of the two switches: it went to an account that the switches
and the mode allowed at some moment of its own call or of one it overlapped. The grants of the process survive
because every writer computes them from the same environment, and the toggle is read once more by the validation itself
(`OrdersAreGranted`; without that read the run finds an order whose toggle was never on).

### Bounds

* Workers: two. The races are between two handlers; a third one
  repeats the role of one of them. Workers are symmetric in the runs without liveness.
* Calls: three about one intent (submit, approve, approve; or two submits and an
  approve), two when the environment acts as well. A restart, a second window and
  a flip of a switch each come at every possible point, one of them per behaviour
  (`OneDisturbance`; a window or a restart may follow a switch that was turned back). Of the
  calls that only preview, one is running or on record (`OnePreview`). The theorems have
  neither bound.
* `AuditCap` is 1 or 2 in place of 500, so that eviction happens.
* `MaxBucket`, `MaxRestarts`, `MaxFaults` are 1 where they are not 0.
* Updates of the settings: each safety switch on its own and the combinations the
  rules accept in one request. `EnvLive` is FALSE and `EnvApproval` TRUE, the
  values the settings ship with.
* A demand (`Loads`) is what one behaviour asks for: so many flows, clients, orders, quotes,
  decisions, outages. Each puts one kind of overlap within reach without paying for
  all of them at once; TLC explores every demand.
* The history of outcomes is 2 in place of 200, the windows of queries 2 and 1 in place of
  50 and 25, the daily limit 1: one less than what the demands reach.
* Stages: minutes on both sides of the open, of a trigger's window, of the 45 minutes of the
  time stop and of the close; prices at and on both sides of entry, stop and target, one of them an R of 0.495 that is rounded
  up; plans of the planner's levels, of one share, with the target at the stop, with the stop above the entry; nineteen trades
  in the record, one less than the sample a promotion needs, or twenty that are only claimed. The world moves twice, anywhere;
  positions are opened in the good world only (`OpenedInGood`).
* TradeNow: three calls, so that an order meets both a PUT and a GET or a check; the switches are turned once.
* `HistoryBounded` is an upper bound only. An append and its count are one step, so that two threads
  both delete too much is not in the model.
* Deadlock is not checked: a service with no call left to handle stops in the model.

### Fairness

`FairSpec` assumes weak fairness of `Proceed(t)` for each worker: CPython
schedules every runnable thread, and every blocking call of a handler has a
timeout (the POST uses `order_timeout_seconds`). Nothing is assumed of clients,
operators or the broker: a call may never come, an order may never fill.

## Proofs

`tlapm <module>.tla`; every statement holds for all values of the constants that
satisfy the modules' assumptions.

| Theorem | Statement |
|---|---|
| `ExecutionProofs!TypeCorrect` | `Spec => []TypeOK` |
| `ExecutionProofs!ApprovalSafety` | `Spec => []ApprovedBeforeBroker` |
| `ExecutionProofs!ModeSafety` | `Spec => []ModeHonoured` |
| `ExecutionProofs!DrainSafety` | `Spec => []StopDrains` |
| `ApprovalProofs!GateImplemented` | `Spec => ImplementsGate` |
| `ApprovalProofs!OrdersBounded` | `Spec => []OrdersBoundedByApprovals` |
| `AuditProofs!BlockedSafety` | `Spec => []BlockedNeverOrdered` |
| `AuditProofs!PlacedSafety` | `Spec => []PlacedIsBacked` |
| `AuditProofs!ReplaySafety` | `Spec => []ReplayMatchesKey` |
| `AuditProofs!TraceSafety` | `Spec => OrderTraceKept` |
| `AuditProofs!OneAuditSafety` | `Spec /\ []NoOverlap => []OneAuditPerKey` |
| `RuntimeSettingsProofs!TypeCorrect` | `Spec => []TypeOK` |
| `RuntimeSettingsProofs!ConfigSafety` | `Spec => []SafeConfig`, as shipped |
| `RuntimeSettingsProofs!StopSafety` | `Spec => []StopKeepsBrokerOff`, as shipped |
| `RuntimeSettingsProofs!PostSafety` | `Spec => PostsOnWholeFile`, as shipped |
| `WorkflowProofs!WorkflowTypes` | `WorkflowSpec => []WorkflowTypeOK` |
| `WorkflowProofs!LockExcludes` | `WorkflowSpec => []LockExclusive` |
| `WorkflowProofs!LockIsReleased` | `WorkflowSpec => []LockNotLeaked` |
| `WorkflowProofs!BoundaryIsFinal` | `WorkflowSpec => []BoundaryHolds` |
| `WorkflowProofs!RepeatsAreAnswered` | `WorkflowSpec => RepeatRunsNothing` |
| `WorkflowProofs!RecordsKeepRuns` | `WorkflowSpec => []LostOnlyToRivals` |
| `WorkflowProofs!LimitNearlyKept` | `WorkflowSpec => []DailyLimitBound` |
| `WorkflowProofs!ResponsesLeadToRuns` | `WorkflowSpec => []ResponseTraceable` |
| `PaperProofs!PaperTypes` | `PaperSpec => []PaperTypeOK` |
| `PaperProofs!QueueConsistent` | `PaperSpec => []QueueAgrees` |
| `PaperProofs!NoPriceLost` | `PaperSpec => []ExcursionsExact` |
| `PaperProofs!LearnsFromClosed` | `PaperSpec => []OutcomesClosed` |
| `PaperProofs!ClosesFinal` | `PaperSpec => ClosedStaysClosed` |
| `PaperProofs!HistoryIsBounded` | `PaperSpec => []HistoryBounded` |
| `StageProofs!StageTypes` | `StagesSpec => []StagesTypeOK` |
| `StageProofs!HandoffBacked` | `StagesSpec => []HandoffIsBacked` |
| `StageProofs!StakeLimited` | `StagesSpec => []StakeIsLargest` |
| `StageProofs!RouteFollowed` | `StagesSpec => []PlanFollowsRoute` |
| `StageProofs!ExitsFinal` | `StagesSpec => []ExitsAreFinal` |
| `StageProofs!NeverBetter` | `StagesSpec => []WorseIsNeverBetter` |
| `PromotionProofs!PromotionTypes` | `PromotionSpec => []PromotionTypeOK` |
| `PromotionProofs!OnlyTheBaseline` | `PromotionSpec => []OnlyBaselineEligible` |
| `PromotionProofs!EvidenceCounted` | `PromotionSpec => []CountedEvidenceIsReal` |
| `PromotionProofs!EvidenceIsOwned` | `PromotionSpec => EvidenceIsOwn` |

*The order path.* `ApprovedBeforeBroker` is not inductive: it says
nothing of a worker that has left the check of the flag behind and has not yet
reached the broker. `IInv` adds, for each worker, which operation its program
counter belongs to (`WorkerBusy`), that its mode is one
`resolve_effective_mode` can give for its request (`WorkerMode`), that past the
check its audit is confirmed (`WorkerApproved`) and that its answer is one an
audit can record (`WorkerAnswer`); `AuditInv` says the same of what an approve
picks up from a stored audit, and `OrderInv` of the orders. The argument
for approval is that `confirmed` of an audit is set before a worker passes the
check and is only ever reset for an audit id nobody has yet. One lemma per
action shows that it preserves `IInv`; `NextIInv` collects them. `StopDrains` is
inductive given the types (`NextStopDrains`): the POST is reached only past a check that
finds the stop off, and the step that turns the stop on records who is already there.

*The refinement.* `CallsInv` numbers things: an order's id is the call that placed it, a
worker's call has no order yet while it is still on its way, and an audit is owed orders only by the call that made it and
its approvals. With it every step maps to a step of `ApprovalGate` or to a stutter, and the orders of an audit
inject into its approvals and its submit, which bounds their number.

*The audit log.* `AuditsInv` ties each worker to the record it writes (`OwnRecord`, `KeptRecord`),
says of each record and cached answer that what it claims is true (`RecordSound`, `EntriesSound`), and
of the orders that their audit had passed (`OrdersPassed`). Handlers overlap on one record, so
each action has to keep these facts for the records and workers of others, too. The keys in `EntriesSound` are those of
`compute_idempotency_key`, shared by any intents that it does not tell apart. `OrderTraceKept` follows
for steps: no step empties the order of a record (`ProceedKeepsOrder`), and after the step `RecordSound` says
that what stands there is one of its orders.

`OneAuditPerKey` is false when submits overlap (`exec_duplicate`), so its theorem supposes that no two handlers
are at work at one time (`NoOverlap`) and nothing else: any number of workers, windows, evictions and restarts. `KeysInv` says
that the key of a record on file has an answer or its submit is still at work (`KeysRegistered`), and that a submit on its way to
`create_audit` finds no record with its key (`KeysAwaited`). An approve may put its audit under
another audit's key; the key still has an answer, so nothing is submitted twice.

*The settings.* `IInv` says that the configuration on disk (`FileInv`) and the
one each writer is about to write (`CarriedInv`) obey the rules; the lemmas
`SettingsKeepsRules`, `GatesKeepsRules` and `AutoRunKeepsRules` show that each
endpoint's merge keeps them. `AsShipped`, `~EnvLive /\ EnvApproval`, is an
assumption of these theorems and they are false without it: PUT /auto-run/status
validates nothing.

*Agent runs and workflows.* `Typed` adds to the types what the place of a worker tells
about its variables (`Busy`: a run past its record has an object and an id; `Started`: a
run of a workflow has its request and a stage of the plan). `RuntimeSteps` then says what a
step of the workflow is to the runtime below, so that the arguments about the runtime
split over the steps of `create_agent_run` alone. Each property has its own invariant on top of it:

* `LockInv`: the lock of a run that believes it holds one is in Redis. A lock in Redis is not
  given out again, hence exclusion; a run deletes no lock but its own, which by exclusion is
  nobody else's. Expiry breaks the first part, and it is the only step that does.
* `LeakInv`: every lock in Redis is that of a run inside its wrapper, and none is there while
  Redis is away (a release would not reach it).
* `BoundaryInv`: a run past the boundary that needs a human is idle and about to persist. `BoundaryHolds`
  alone is not inductive: it does not say that no stage is left to begin.
* `IndexInv`: under a stable Postgres every entry of the three indexes names a run that has a row
  (`IndexNamesRun`), and a run about to be indexed has one. So a lookup that finds anything
  finds a run that can be retrieved, and one that finds nothing has asked Postgres.
* `RecordInv`: a record is one object in memory while Postgres is down (`MemoryInv`), or a row and copies that differ from it by
  runs of rivals only while it is up (`RowsInv`). Both rest on the identity of objects: the object a run
  is about to create is nobody's (`ObjectsInv`), a run's number is its own (`CallsInv`), ids in use were given
  out (`BirthsInv`), and two runs on one record know of each other (`SharersInv`). The step from one to the other
  is the failure of Postgres, which the property excepts.
* `LimitInv`: a run that was let through is in progress, has its row, or was killed by a restart; a worker has
  one run in progress (`OneEach`, a surjection from the workers), and a restart kills no more than were in progress. Hence the
  number in `DailyLimitBound`, and the assumption `ThreadsAssumption` that the thread pool is finite, without which the
  bound would count nothing.
* `TraceInv`: a run is stored before it is indexed and appended before it is answered (`RunTraced`), to the record of
  the workflow run that asked for it (`OnOwnRecord`); so what a workflow run has collected, and what a stored response names, is
  stored and appended (`FlowTraced`, `ResponsesTraced`). Rows and links only ever grow (`TrailsOnlyGrow`), and `RecordInv` says where
  an appended run is found.

*Paper trading.* `Typed` adds what is left of a demand. Each property is inductive only with what the
workers are about to do with what they have read:

* `QueueInv`: an item in memory has a row unless its write was lost (`RowsInv`); of an item no two workers had in hand together, who has it is alone with it, what a list has
  read is still the row, and memory differs from the row only by a decision that is being saved, or by one whose row
  was lost (`HandInv`, `unsaved`). A save that fails, at any moment and for one call, is one of the steps.
* `TradeInv`: order numbers are not used twice and nobody works on a position before it is opened (`FreshInv`); of
  a position whose copies never crossed, a copy about to be written back is the only one, is
  made from an open record and holds all the record holds (`CopyInv`), and the excursions are exact (`Exact`). `OutcomesClosed`
  and the action property `ClosedStaysClosed` follow: nobody has a copy of a closed position.
* `HistoryInv`: an append makes its own worker one of those that trim, and a worker that trims deletes at least one outcome
  as long as there are too many, so the surplus is never more than the trims to come.

The proof of the types found an error of the model: the surplus a worker has counted was typed
as at most `MaxOrders + MaxHistory`, which is true of the two workers of the instance and false of many. It is any
positive number now.

*The stages.* The rules come first, each a lemma about one operator: the answer of a list of rules
is that of a rule that applies and of none before it (`FirstApplies`; `LastApplies` for the risk
monitor, whose rules overwrite), so a route that is blocked has a cause (`PathRule`), an eligible
strategy met its requirements, a trigger fires in time, and a touched stop is not overridden (`RiskRule`,
`TimeRule`, `AdviceRule`, `ReviewRule`). `SharesRule` and `PlanRule` say of the size of a plan that it is within both limits and
that one share more is not: two integer divisions, of which the smaller counts. `RRule` says what rounding R to
hundredths does to a comparison with a threshold; both rest on lemmas about quotients. `StageInv` then carries what each
answer said over the calls
that follow, about the world its stage judged, though the world has moved since (`Chained`, `Reviewed`). Of a
position it knows that it has shares and positive levels, in any order (`Opened`); what a stage needs beyond it is that the file holds no
answer of a stage still to come (`InOrder`). The theorems hold for any quotes, average true ranges, asks, flat plans, minutes, limits of
the account, records and number of moves, given only that quotes and ranges are natural numbers: in the code they are
floats. `RatesGrow`, `MeansGrow` and `WorseRanks` compare two records field by field, rounding included: a record that is nowhere
better is `often` wherever the other is, and `good` only where the other is.

*Promotion.* `OnlyBaselineEligible` becomes inductive with two facts: an approval of another model
is a decision and so names no artifact (`ApprovalsAreDecisions`), and a gate of another model that has
found an artifact finds no approval of it (`GateFindsNoApproval`). `CountedEvidenceIsReal`
follows from the same statement about every run that passed, whatever window it is in (`PassedRunsAreReal`).
`EvidenceIsOwn` is about steps: rows are numbered by the calls that add them, later calls later (`RunsNumbered`), so a row of another
model, which is newer than all, changes nothing in a window of this one (`EvidenceStays`).

*Assumptions.* The theorems rest on the named `ASSUME`s of the modules, which TLC evaluates in each run: the
bounds are natural numbers, intents, modes, plans, prices and demands have their types, there is an agent and a workflow to
run (`Agents # {}`, `Workflows # {}`), and the handlers of the agent runtime run in a finite pool. Four
theorems suppose more, and say so in their statements: those of the settings `AsShipped`, and `OneAuditSafety` `NoOverlap`.

*Only model-checked.* `EveryCallAnswered`: it is liveness under fairness, fairness is about ENABLED, and the prover
has no rule for that. The properties of `TradeNow` have no proofs yet. Every other property of the passing runs is a theorem.
*Only proved.* `BoundaryHolds`, `OutcomesClosed` and `OnlyBaselineEligible` are theorems that no run repeats, and
`OneAuditPerKey` for calls that do not overlap. What a recursion over data computes for every input
is out of reach, too; the modules with theorems have no such operator.

## Not modelled

* Market data, features, models, signals and the research labs: numeric pipelines and provider I/O with no
  shared control state; what the modelled parts need of them is a free choice.
* LLM gateway and budget gate: the gateway compares the cost recorded for the day with a budget before a call and records
  the cost after it (`llm_gateway_service.py:502`, 537), so calls that overlap may exceed it together. It takes no part in orders,
  runs or stages.
* The scanner reads the cooldown of a signal before it runs its workflow and sets it after (`market_condition_scanner_service.py:404`), so two
  scans may both run it; the run records a recommendation and places nothing.
* The earlier decision pipeline, journal and memory, evidence and audit log, workers and the broker account reader: single calls that append or
  compute; the prechecks see the account as part of their free verdict.
* A production deployment (see the introduction), and the answers of TradeNow.
* Sample sizes that are no numbers: `float("nan")` passes the minimum of the calibration; a sample is a natural number here.
* Recommendation lifecycle, trigger rules, watchlists, promotion center, proof and model registries: single-step updates
  of records that no modelled part reads.
* Schedulers: nothing starts a run from a schedule by itself; `run_once` calls `run_workflow`.
* Persistence on its own: each module has its database that may be away. A failure between two statements of one
  session is not modelled, since each store writes one row per session.
* A handler that dies of an exception inside `_trim` (two threads trimming at once), the carry-forward defaults of the
  orchestrator, advisory warnings, traces and events.
* The frontend.
