------------------------ MODULE WorkflowOrchestrator ------------------------
(***************************************************************************)
(* app/services/workflow_orchestrator/service.py: run_workflow on top of   *)
(* the agent runtime.                                                      *)
(*                                                                         *)
(* A worker that runs a workflow asks workflow_governance, creates a       *)
(* workflow record, then calls create_agent_run once per agent of the      *)
(* plan, in the same thread.  A blocked agent does not stop the run, an    *)
(* exception does.  The response is kept in _MEMORY and merged into        *)
(* Postgres only at the end.  Other workers serve clients that run one     *)
(* agent.                                                                  *)
(*                                                                         *)
(* The carry-forward state, the recommendation, the events, the check rows *)
(* and the advisory warnings are write-only here and left out.             *)
(***************************************************************************)
EXTENDS AgentRuntime, Sequences

CONSTANTS
  Plan,           \* the agents of the pipeline, in order
  ApprovalAgent,  \* the one at the execution boundary
  DailyLimit,     \* max_daily_workflow_runs
  Options,        \* the requests clients make: dry_run, require_human_approval
                  \* and stop_at_stage
  ClientAgents    \* the agents clients run by themselves

ASSUME PlanAssumption ==
  /\ Plan \in Seq(Agents)
  /\ \A i, j \in 1 .. Len(Plan) : Plan[i] = Plan[j] => i = j
  /\ DailyLimit \in Nat \ {0}
  /\ Options \subseteq [dry : BOOLEAN, human : BOOLEAN, cap : 1 .. Len(Plan)]
  /\ ClientAgents \subseteq Agents

Flows == 1 .. MaxFlows

VARIABLES
  switches,   \* the runtime switches let a workflow run
  flows,      \* workflow runs asked for
  flow,       \* the local variables of each worker's run_workflow
  memFlows,   \* _MEMORY: the response of each run
  dbFlows,    \* rows of workflow_orchestrator_runs
  items,      \* approval items that were created, named by the agent run
  admitted,   \* history: runs governance let through that are not dry runs
  clients,    \* agent runs clients asked for
  booked      \* calls promised to whoever has started (keeps MaxCalls from
              \* stopping a run halfway)

flowVars == <<switches, flows, flow, memFlows, dbFlows, items, admitted, clients, booked>>
workflowVars == <<runtimeVars, flowVars>>

Places   == {"idle", "govern", "create", "stage", "persist"}
Statuses == {"none", "blocked", "paused_for_approval", "completed_preview"}

NoOption == [dry |-> TRUE, human |-> TRUE, cap |-> 0]

Flow == [at : Places, id : {0} \cup Flows, opt : Options \cup {NoOption},
         wr : 0 .. MaxSecond, stage : 0 .. Len(Plan), blocked : BOOLEAN,
         rejected : BOOLEAN, boundary : BOOLEAN, approval : 0 .. MaxCalls,
         runs : SUBSET Calls]

IdleFlow == [at |-> "idle", id |-> 0, opt |-> NoOption, wr |-> 0, stage |-> 0,
             blocked |-> FALSE, rejected |-> FALSE, boundary |-> FALSE,
             approval |-> 0, runs |-> {}]

Response == [status : Statuses, wr : 0 .. MaxSecond, approval : 0 .. MaxCalls,
             runs : SUBSET Calls]

NoResponse == [status |-> "none", wr |-> 0, approval |-> 0, runs |-> {}]

WorkflowTypeOK ==
  /\ RuntimeTypeOK
  /\ switches \in BOOLEAN
  /\ flows \in 0 .. MaxFlows
  /\ flow \in [Workers -> Flow]
  /\ memFlows \in [Flows -> Response] /\ dbFlows \in [Flows -> Response]
  /\ items \subseteq Calls /\ admitted \subseteq Flows
  /\ clients \in Nat /\ booked \in 0 .. MaxCalls

WorkflowInit ==
  /\ RuntimeInit
  /\ switches = TRUE
  /\ flows = 0
  /\ flow = [t \in Workers |-> IdleFlow]
  /\ memFlows = [f \in Flows |-> NoResponse]
  /\ dbFlows = [f \in Flows |-> NoResponse]
  /\ items = {} /\ admitted = {}
  /\ clients = 0 /\ booked = 0

----------------------------------------------------------------------------
(* run_workflow *)

Book(n) == booked + n <= MaxCalls /\ booked' = booked + n

At(t, place) == flow[t].at = place /\ rpc[t] = "idle"

\* Lines 281-294: the production database and the safety policy may reject the
\* request, which is the reject of governance without asking it.
StartFlow(t, opt, rejected) ==
  /\ flows < load.flows
  /\ opt.cap = load.stages
  /\ Book(IF rejected THEN 1 ELSE 1 + opt.cap)
  /\ At(t, "idle")
  /\ flows' = flows + 1
  /\ flow' = [flow EXCEPT ![t] = [IdleFlow EXCEPT
               !.at = IF rejected THEN "create" ELSE "govern",
               !.id = flows + 1, !.opt = opt,
               !.rejected = rejected, !.blocked = rejected]]
  /\ UNCHANGED <<runtimeVars, switches, memFlows, dbFlows, items, admitted, clients>>

\* _count_today_runs: rows of any outcome, none without Postgres.
TodayRuns == IF dbUp THEN Cardinality({f \in Flows : dbFlows[f] # NoResponse}) ELSE 0

\* Fault: the limit is compared after the run.
GovernanceOffByOne == ~switches \/ TodayRuns > DailyLimit

\* check_governance finds a blocker.
GovernanceBlocks == ~switches \/ TodayRuns >= DailyLimit

\* Governance is asked once, and binds only runs that are not dry.
Govern(t) ==
  LET rejected == GovernanceBlocks /\ ~flow[t].opt.dry IN
  /\ At(t, "govern")
  /\ flow' = [flow EXCEPT ![t].at = "create", ![t].blocked = GovernanceBlocks,
                          ![t].rejected = rejected]
  /\ admitted' = IF rejected \/ flow[t].opt.dry THEN admitted
                 ELSE admitted \cup {flow[t].id}
  /\ UNCHANGED <<runtimeVars, switches, flows, memFlows, dbFlows, items, clients, booked>>

\* create_workflow_run; a rejected run has its response at once.
CreateFlowRecord(t) ==
  /\ At(t, "create")
  /\ calls < MaxCalls
  /\ calls' = calls + 1
  /\ CreateRecord(calls + 1)
  /\ flow' = [flow EXCEPT ![t].wr = clock,
                          ![t].at = IF flow[t].rejected THEN "persist" ELSE "stage",
                          ![t].stage = IF flow[t].rejected THEN 0 ELSE 1]
  /\ UNCHANGED <<load, clock, faults, memRuns, dbRuns, memIndex, redisIndex, dbIndex,
                 locks, rpc, job, linked, rivals,
                 switches, flows, memFlows, dbFlows, items, admitted, clients, booked>>

\* The next agent of the plan is run under a key of its own, so that it is never
\* a duplicate.
StageRequest(t) ==
  [agent |-> Plan[flow[t].stage], wf |-> flow[t].wr, key |-> flow[t].id]

BeginStage(t) ==
  /\ At(t, "stage")
  /\ BeginRun(t, StageRequest(t))
  /\ UNCHANGED flowVars

\* Fault: the stage the client asked to stop at is exceeded by one.
AfterOffByOne(opt, k) == k <= opt.cap

\* Stage k is not the last one the client asked for.
After(opt, k) == k + 1 <= opt.cap

\* The agent run is over, and may have found blockers.  The workflow stops at the
\* execution boundary if a human is required and it is not a dry run.
StageReturns(t, found) ==
  LET f == flow[t]
      atBoundary == Plan[f.stage] = ApprovalAgent
      goesOn == /\ After(f.opt, f.stage)
                /\ ~(atBoundary /\ f.opt.human /\ ~f.opt.dry)
  IN
  /\ f.at = "stage"
  /\ job[t].answer = "returned"
  /\ Reply(t)
  /\ flow' = [flow EXCEPT ![t] = [f EXCEPT
               !.runs = f.runs \cup {job[t].call},
               !.blocked = f.blocked \/ found,
               !.boundary = f.boundary \/ atBoundary,
               !.approval = IF atBoundary /\ f.opt.human /\ job[t].call \in items
                            THEN job[t].call ELSE f.approval,
               !.at = IF goesOn THEN "stage" ELSE "persist",
               !.stage = IF goesOn THEN f.stage + 1 ELSE f.stage]]
  /\ UNCHANGED <<switches, flows, memFlows, dbFlows, items, admitted, clients, booked>>

\* create_agent_run raised: the run is over.
StageRaises(t) ==
  /\ flow[t].at = "stage"
  /\ job[t].answer = "failed"
  /\ Reply(t)
  /\ flow' = [flow EXCEPT ![t].at = "persist", ![t].blocked = TRUE]
  /\ UNCHANGED <<switches, flows, memFlows, dbFlows, items, admitted, clients, booked>>

FinalStatus(f) ==
  IF f.blocked THEN "blocked"
  ELSE IF f.approval # 0 THEN "paused_for_approval"
  ELSE "completed_preview"

\* _persist_run: memory, then Postgres; the row has no approval_id.
PersistFlow(t) ==
  LET f == flow[t]
      response == [status |-> FinalStatus(f), wr |-> f.wr, approval |-> f.approval,
                   runs |-> f.runs]
  IN
  /\ At(t, "persist")
  /\ memFlows' = [memFlows EXCEPT ![f.id] = response]
  /\ dbFlows' = IF dbUp THEN [dbFlows EXCEPT ![f.id] = [response EXCEPT !.approval = 0]]
                ELSE dbFlows
  /\ flow' = [flow EXCEPT ![t] = IdleFlow]
  /\ UNCHANGED <<runtimeVars, switches, flows, items, admitted, clients, booked>>

----------------------------------------------------------------------------
(* The wrappers, and the other entry points *)

\* execution_approval_agent without an execution plan creates an approval item.
ApprovalItemCreated(t) ==
  /\ job[t].req.agent = ApprovalAgent
  /\ flow[t].at = "stage"
  /\ WrapperReturns(t)
  /\ items' = items \cup {job[t].call}
  /\ UNCHANGED <<switches, flows, flow, memFlows, dbFlows, admitted, clients, booked>>

\* Every other step of create_agent_run leaves the workflow's own state alone.
RunAgentStep(t) == RunAgent(t) /\ UNCHANGED flowVars

\* A client runs an agent outside of any run_workflow.
ClientAsks(t, agent, wf) ==
  /\ flow[t].at = "idle"
  /\ clients < load.clients /\ clients' = clients + 1
  /\ Book(1)
  /\ LET r == [agent |-> agent, wf |-> wf, key |-> 0] IN Duplicate(t, r) \/ BeginRun(t, r)
  /\ UNCHANGED <<switches, flows, flow, memFlows, dbFlows, items, admitted>>

ClientReply(t) ==
  /\ flow[t].at = "idle"
  /\ Reply(t)
  /\ UNCHANGED flowVars

\* list_orchestrator_runs: the rows replace the responses in memory, which
\* thereby lose their approval_id.
ListFlows ==
  /\ dbUp
  /\ memFlows' = [f \in Flows |-> IF dbFlows[f] # NoResponse THEN dbFlows[f]
                                  ELSE memFlows[f]]
  /\ UNCHANGED <<runtimeVars, switches, flows, flow, dbFlows, items, admitted, clients, booked>>

\* The operator turns a switch that governance consults.
TurnSwitches ==
  /\ Mishap("switches")
  /\ switches' = ~switches
  /\ UNCHANGED <<load, clock, calls, dbUp, redisUp, stores, locks, rpc, job, trails,
                 flows, flow, memFlows, dbFlows, items, admitted, clients, booked>>

RestartFlows ==
  /\ RestartRuntime
  /\ flow' = [t \in Workers |-> IdleFlow]
  /\ memFlows' = [f \in Flows |-> NoResponse]
  /\ UNCHANGED <<switches, flows, dbFlows, items, admitted, clients, booked>>

FlowStep(t) ==
  \/ Govern(t) \/ CreateFlowRecord(t)
  \/ BeginStage(t)
  \/ \E found \in BOOLEAN : StageReturns(t, found)
  \/ StageRaises(t)
  \/ PersistFlow(t)
  \/ ApprovalItemCreated(t)
  \/ RunAgentStep(t)

WorkflowNext ==
  \/ \E t \in Workers, opt \in Options, rejected \in BOOLEAN : StartFlow(t, opt, rejected)
  \/ \E t \in Workers : FlowStep(t)
  \/ \E t \in Workers, agent \in ClientAgents, wf \in 0 .. clock : ClientAsks(t, agent, wf)
  \/ \E t \in Workers : ClientReply(t)
  \/ Environment /\ UNCHANGED flowVars
  \/ ListFlows
  \/ TurnSwitches
  \/ RestartFlows

WorkflowSpec == WorkflowInit /\ [][WorkflowNext]_workflowVars

----------------------------------------------------------------------------
(* Properties *)

\* The daily limit is checked against rows that are written when a run ends, so
\* runs in progress are not counted.  With Postgres up, the runs let through
\* exceed max_daily_workflow_runs by no more than the other workers, plus the
\* runs a restart of the process kills before their row is written.
DailyLimitBound ==
  DbStable =>
    Cardinality(admitted) <=
      DailyLimit - 1 + Cardinality(Workers)
      + (IF "restart" \in mishaps THEN Cardinality(Workers) ELSE 0)

\* Past the execution boundary, a run that requires a human and is not a dry run
\* runs no agent.
BoundaryHolds ==
  \A t \in Workers :
    flow[t].boundary /\ flow[t].opt.human /\ ~flow[t].opt.dry => rpc[t] = "idle"

\* With Postgres up, whoever reads a workflow run's response finds the agent runs it
\* names, and finds them in its workflow record too, unless they shared the record
\* with another run or its id was given out twice; after restarts as well.
ResponseTraceable ==
  DbStable =>
    \A f \in Flows : \A response \in {memFlows[f], dbFlows[f]} :
      \A c \in response.runs :
        /\ c \in dbRuns
        /\ births[response.wr] <= 1 /\ c \notin rivals => c \in dbWf[response.wr]

=============================================================================
