--------------------------- MODULE WorkflowProofs ---------------------------
(***************************************************************************)
(* Theorems of AgentRuntime and WorkflowOrchestrator, for every plan, any  *)
(* number of workers and every demand.                                     *)
(***************************************************************************)
EXTENDS WorkflowOrchestrator, FiniteSetTheorems, TLAPS

LEMMA Bounds == MaxCalls \in Nat /\ MaxFlows \in Nat /\ MaxSecond \in Nat \ {0}
BY BoundsAssumption

LEMMA IdleJobTyped == IdleJob \in Job
<1>1. (CHOOSE a \in Agents : TRUE) \in Agents
  BY BoundsAssumption
<1>2. 0 \in 0 .. MaxSecond /\ 0 \in 0 .. MaxFlows /\ 0 \in 0 .. MaxCalls
  BY BoundsAssumption
<1> QED
  BY <1>1, <1>2 DEF IdleJob, NoRequest, Job, Requests, Answers

\* The three ways in which a step of create_agent_run changes a worker's variables.
LEMMA JobBegins ==
  ASSUME job \in [Workers -> Job], NEW t \in Workers, NEW r \in Requests,
         NEW c \in 0 .. MaxCalls, NEW a \in Answers,
         job' = [job EXCEPT ![t] = [IdleJob EXCEPT !.req = r, !.call = c, !.answer = a]]
  PROVE  /\ job' \in [Workers -> Job]
         /\ job'[t].req = r /\ job'[t].call = c /\ job'[t].answer = a /\ job'[t].locked = FALSE
         /\ \A u \in Workers \ {t} : job'[u] = job[u]
BY IdleJobTyped DEF Job, IdleJob

LEMMA JobBeginsAnew ==
  ASSUME job \in [Workers -> Job], NEW t \in Workers, NEW r \in Requests,
         NEW c \in 0 .. MaxCalls,
         job' = [job EXCEPT ![t] = [IdleJob EXCEPT !.req = r, !.call = c]]
  PROVE  /\ job' \in [Workers -> Job]
         /\ job'[t].req = r /\ job'[t].call = c /\ job'[t].answer = "none" /\ job'[t].locked = FALSE
         /\ \A u \in Workers \ {t} : job'[u] = job[u]
BY IdleJobTyped DEF Job, IdleJob

LEMMA JobEnds ==
  ASSUME job \in [Workers -> Job], NEW t \in Workers, NEW a \in Answers,
         job' = [job EXCEPT ![t].answer = a, ![t].locked = FALSE]
  PROVE  /\ job' \in [Workers -> Job]
         /\ job'[t].req = job[t].req /\ job'[t].call = job[t].call /\ job'[t].wf = job[t].wf
         /\ job'[t].obj = job[t].obj /\ job'[t].answer = a /\ job'[t].locked = FALSE
         /\ \A u \in Workers \ {t} : job'[u] = job[u]
BY DEF Job

\* The same for the variables of run_workflow.
LEMMA IdleFlowTyped == IdleFlow \in Flow
BY BoundsAssumption, PlanAssumption DEF IdleFlow, Flow, Places, Flows

LEMMA FlowGoverned ==
  ASSUME flow \in [Workers -> Flow], NEW t \in Workers, NEW p \in Places,
         NEW b \in BOOLEAN, NEW c \in BOOLEAN,
         flow' = [flow EXCEPT ![t].at = p, ![t].blocked = b, ![t].rejected = c]
  PROVE  /\ flow' \in [Workers -> Flow]
         /\ flow'[t].at = p /\ flow'[t].id = flow[t].id /\ flow'[t].opt = flow[t].opt
         /\ flow'[t].boundary = flow[t].boundary
         /\ flow'[t].wr = flow[t].wr /\ flow'[t].runs = flow[t].runs
         /\ \A u \in Workers \ {t} : flow'[u] = flow[u]
<1> DEFINE r == [flow[t] EXCEPT !.at = p, !.blocked = b, !.rejected = c]
<1>1. r \in Flow
  BY ZenonT(60) DEF Flow
<1>2. /\ r.at = p /\ r.id = flow[t].id /\ r.opt = flow[t].opt /\ r.boundary = flow[t].boundary
      /\ r.wr = flow[t].wr /\ r.runs = flow[t].runs
  BY DEF Flow
<1>3. flow' = [flow EXCEPT ![t] = r]
  OBVIOUS
<1> HIDE DEF r
<1>4. flow' \in [Workers -> Flow] /\ flow'[t] = r
  BY ZenonT(60), <1>1, <1>3
<1>5. \A u \in Workers \ {t} : flow'[u] = flow[u]
  BY <1>3
<1> QED
  BY <1>2, <1>4, <1>5

LEMMA FlowFails ==
  ASSUME flow \in [Workers -> Flow], NEW t \in Workers, NEW p \in Places,
         flow' = [flow EXCEPT ![t].at = p, ![t].blocked = TRUE]
  PROVE  /\ flow' \in [Workers -> Flow]
         /\ flow'[t].at = p /\ flow'[t].id = flow[t].id /\ flow'[t].opt = flow[t].opt
         /\ flow'[t].boundary = flow[t].boundary
         /\ flow'[t].wr = flow[t].wr /\ flow'[t].runs = flow[t].runs
         /\ \A u \in Workers \ {t} : flow'[u] = flow[u]
<1> DEFINE r == [flow[t] EXCEPT !.at = p, !.blocked = TRUE]
<1>1. r \in Flow
  BY ZenonT(60) DEF Flow
<1>2. /\ r.at = p /\ r.id = flow[t].id /\ r.opt = flow[t].opt /\ r.boundary = flow[t].boundary
      /\ r.wr = flow[t].wr /\ r.runs = flow[t].runs
  BY DEF Flow
<1>3. flow' = [flow EXCEPT ![t] = r]
  OBVIOUS
<1> HIDE DEF r
<1>4. flow' \in [Workers -> Flow] /\ flow'[t] = r
  BY <1>1, <1>3
<1>5. \A u \in Workers \ {t} : flow'[u] = flow[u]
  BY <1>3
<1> QED
  BY <1>2, <1>4, <1>5

----------------------------------------------------------------------------
(* Types of the agent runtime *)

\* What the place of a worker tells about its variables.
Busy(t) ==
  /\ rpc[t] # "idle" => job[t].call \in Calls
  /\ rpc[t] \in {"work", "index", "link"} => job[t].obj \in Calls /\ job[t].wf \in WfIds

RuntimeTyped == RuntimeTypeOK /\ \A t \in Workers : Busy(t)

LEMMA LookupTyped ==
  ASSUME RuntimeTypeOK, NEW r \in Requests
  PROVE  Lookup(r) \in 0 .. MaxCalls
BY DEF RuntimeTypeOK, Lookup

\* One worker goes on.
LEMMA WorkerMoves ==
  ASSUME RuntimeTypeOK, NEW t \in Workers, NEW from, NEW to \in RPCs, Goes(t, from, to)
  PROVE  /\ rpc' \in [Workers -> RPCs] /\ rpc[t] = from /\ rpc'[t] = to
         /\ \A u \in Workers \ {t} : rpc'[u] = rpc[u]
BY DEF Goes, RuntimeTypeOK

\* One worker moves, what the others know stays true.
LEMMA OthersStay ==
  ASSUME RuntimeTyped, NEW t \in Workers, Busy(t)',
         \A u \in Workers \ {t} : rpc'[u] = rpc[u] /\ job'[u] = job[u]
  PROVE  \A u \in Workers : Busy(u)'
BY DEF RuntimeTyped, Busy

LEMMA DuplicateTyped ==
  ASSUME RuntimeTyped, NEW t \in Workers, NEW r \in Requests, Duplicate(t, r)
  PROVE  RuntimeTyped'
<1>1. RuntimeTypeOK /\ Lookup(r) \in Calls
  BY LookupTyped, BoundsAssumption DEF RuntimeTyped, Duplicate, Calls
<1>2. /\ rpc' \in [Workers -> RPCs] /\ rpc'[t] = "answered"
      /\ \A u \in Workers \ {t} : rpc'[u] = rpc[u]
  BY <1>1, WorkerMoves DEF Duplicate, RPCs
<1>3. /\ job' \in [Workers -> Job] /\ job'[t].call = Lookup(r)
      /\ \A u \in Workers \ {t} : job'[u] = job[u]
  <2>1. Lookup(r) \in 0 .. MaxCalls /\ "duplicate" \in Answers /\ job \in [Workers -> Job]
    BY <1>1 DEF Calls, Answers, RuntimeTypeOK
  <2>2. job' = [job EXCEPT ![t] = [IdleJob EXCEPT
                  !.req = r, !.call = Lookup(r), !.answer = "duplicate"]]
    BY DEF Duplicate
  <2> HIDE DEF Answers
  <2> QED
    BY ZenonT(60), <2>1, <2>2, JobBegins
<1>4. calls' \in 0 .. MaxCalls /\ memRuns' \subseteq Calls
  BY <1>1, BoundsAssumption DEF Duplicate, RuntimeTypeOK
<1>5. memIndex' \in [Requests -> 0 .. MaxCalls]
  BY <1>1 DEF Duplicate, WarmIndex, RuntimeTypeOK, Calls
<1>6. RuntimeTypeOK'
  BY <1>1, <1>2, <1>3, <1>4, <1>5 DEF Duplicate, RuntimeTypeOK, faults, trails
<1> QED
  BY <1>1, <1>2, <1>3, <1>6, OthersStay DEF RuntimeTyped, Busy

LEMMA BeginTyped ==
  ASSUME RuntimeTyped, NEW t \in Workers, NEW r \in Requests, BeginRun(t, r)
  PROVE  RuntimeTyped'
<1>1. RuntimeTypeOK /\ calls + 1 \in Calls
  <2>1. calls < MaxCalls /\ calls \in 0 .. MaxCalls
    BY DEF BeginRun, RuntimeTyped, RuntimeTypeOK
  <2> QED
    BY <2>1, Bounds DEF RuntimeTyped, Calls
<1>2. /\ rpc' \in [Workers -> RPCs] /\ rpc'[t] = "ensure"
      /\ \A u \in Workers \ {t} : rpc'[u] = rpc[u]
  BY <1>1, WorkerMoves DEF BeginRun, RPCs
<1>3. /\ job' \in [Workers -> Job] /\ job'[t].call = calls + 1
      /\ \A u \in Workers \ {t} : job'[u] = job[u]
  <2>1. calls + 1 \in 0 .. MaxCalls /\ job \in [Workers -> Job]
    BY <1>1 DEF Calls, RuntimeTypeOK
  <2>2. job' = [job EXCEPT ![t] = [IdleJob EXCEPT !.req = r, !.call = calls + 1]]
    BY DEF BeginRun
  <2> QED
    BY ZenonT(60), <2>1, <2>2, JobBeginsAnew
<1>4. calls' \in 0 .. MaxCalls
  BY <1>1 DEF BeginRun, Calls
<1>5. memIndex' \in [Requests -> 0 .. MaxCalls]
  BY <1>1, LookupTyped DEF BeginRun, WarmIndex, RuntimeTypeOK
<1>6. RuntimeTypeOK'
  BY <1>1, <1>2, <1>3, <1>4, <1>5 DEF BeginRun, RuntimeTypeOK, faults, trails
<1> QED
  BY <1>1, <1>2, <1>3, <1>6, OthersStay DEF RuntimeTyped, Busy

\* The lock and the record, taken together.
LEMMA HoldsTyped ==
  ASSUME RuntimeTyped, NEW t \in Workers, rpc[t] = "ensure",
         NEW w \in WfIds, NEW o \in Calls, Holds(t, w, o)
  PROVE  /\ job' \in [Workers -> Job]
         /\ job'[t].req = job[t].req /\ job'[t].call = job[t].call
         /\ job'[t].wf = w /\ job'[t].obj = o
         /\ job'[t].locked = (redisUp /\ <<w, job[t].req.agent>> \notin locks)
         /\ \A u \in Workers \ {t} : job'[u] = job[u]
         /\ locks' \subseteq WfIds \X Agents
         /\ rivals' \subseteq Calls
<1>1. w \in 0 .. MaxSecond /\ o \in 0 .. MaxCalls /\ job \in [Workers -> Job]
  BY DEF WfIds, Calls, RuntimeTyped, RuntimeTypeOK
<1>2. PICK b \in BOOLEAN : b = (redisUp /\ <<w, job[t].req.agent>> \notin locks)
  OBVIOUS
<1>3. job' = [job EXCEPT ![t].wf = w, ![t].obj = o, ![t].locked = b]
  BY <1>2 DEF Holds
<1>4. /\ job' \in [Workers -> Job]
      /\ job'[t].req = job[t].req /\ job'[t].call = job[t].call
      /\ job'[t].wf = w /\ job'[t].obj = o /\ job'[t].locked = b
      /\ \A u \in Workers \ {t} : job'[u] = job[u]
  BY ZenonT(60), <1>1, <1>3 DEF Job
<1>5. job[t].req.agent \in Agents /\ job[t].call \in Calls
  BY <1>1 DEF Job, Requests, RuntimeTyped, Busy
<1>6. locks' \subseteq WfIds \X Agents
  BY <1>5 DEF Holds, RuntimeTyped, RuntimeTypeOK
<1>7. \A u \in OnRecord(w) : job[u].call \in Calls
  BY DEF OnRecord, RuntimeTyped, Busy
<1>8. rivals' \subseteq Calls
  BY <1>5, <1>7 DEF Holds, RuntimeTyped, RuntimeTypeOK
<1> QED
  BY <1>2, <1>4, <1>6, <1>8

LEMMA CreateRecordTyped ==
  ASSUME RuntimeTypeOK, NEW c \in Calls, CreateRecord(c)
  PROVE  /\ objects' \in [Calls -> SUBSET Calls] /\ memWf' \in [WfIds -> 0 .. MaxCalls]
         /\ dbWf' \in [WfIds -> (SUBSET Calls) \cup {NoRow}] /\ births' \in [WfIds -> Nat]
<1>1. c \in 0 .. MaxCalls /\ clock \in WfIds
  BY DEF Calls, RuntimeTypeOK
<1>2. objects' \in [Calls -> SUBSET Calls] /\ memWf' \in [WfIds -> 0 .. MaxCalls]
  BY <1>1 DEF CreateRecord, RuntimeTypeOK
<1>3. dbWf' \in [WfIds -> (SUBSET Calls) \cup {NoRow}]
  BY <1>1 DEF CreateRecord, RuntimeTypeOK
<1>4. births' \in [WfIds -> Nat]
  BY <1>1 DEF CreateRecord, RuntimeTypeOK
<1> QED
  BY <1>2, <1>3, <1>4

LEMMA EnsureTyped ==
  ASSUME RuntimeTyped, NEW t \in Workers, LoadRow(t) \/ ShareObject(t) \/ NewRecord(t)
  PROVE  RuntimeTyped'
<1>1. /\ RuntimeTypeOK /\ job[t] \in Job /\ rpc[t] = "ensure"
      /\ job[t].call \in Calls /\ clock \in WfIds
  BY DEF RuntimeTyped, RuntimeTypeOK, Busy, LoadRow, ShareObject, NewRecord, Goes
<1>2. /\ rpc' \in [Workers -> RPCs] /\ rpc'[t] = "work"
      /\ \A u \in Workers \ {t} : rpc'[u] = rpc[u]
  BY <1>1, WorkerMoves DEF LoadRow, ShareObject, NewRecord, RPCs
<1>3. ASSUME NEW w \in WfIds, NEW o \in Calls, Holds(t, w, o),
             objects' \in [Calls -> SUBSET Calls], memWf' \in [WfIds -> 0 .. MaxCalls],
             dbWf' \in [WfIds -> (SUBSET Calls) \cup {NoRow}], births' \in [WfIds -> Nat],
             UNCHANGED <<load, clock, calls, faults, memRuns, dbRuns, memIndex,
                         redisIndex, dbIndex, linked>>
      PROVE  RuntimeTyped'
  <2>1. /\ job' \in [Workers -> Job]
        /\ job'[t].call = job[t].call /\ job'[t].wf = w /\ job'[t].obj = o
        /\ \A u \in Workers \ {t} : job'[u] = job[u]
        /\ locks' \subseteq WfIds \X Agents /\ rivals' \subseteq Calls
    BY ZenonT(60), <1>1, <1>3, HoldsTyped
  <2>2. RuntimeTypeOK'
    BY <1>1, <1>2, <1>3, <2>1 DEF RuntimeTypeOK, faults
  <2> QED
    BY <1>1, <1>2, <1>3, <2>1, <2>2, OthersStay DEF RuntimeTyped, Busy
<1>4. CASE LoadRow(t)
  <2>1. job[t].req.wf \in WfIds
    BY <1>1, <1>4, BoundsAssumption DEF LoadRow, HasRow, Job, Requests, WfIds
  <2>2. dbWf[job[t].req.wf] \in SUBSET Calls
    BY <1>1, <1>4, <2>1 DEF LoadRow, HasRow, RuntimeTypeOK
  <2>3. objects' \in [Calls -> SUBSET Calls] /\ memWf' \in [WfIds -> 0 .. MaxCalls]
    BY SMTT(30), <1>1, <1>4, <2>1, <2>2, BoundsAssumption DEF LoadRow, RuntimeTypeOK, Calls
  <2>4. PICK w \in WfIds, o \in Calls : Holds(t, w, o)
    BY <1>1, <1>4, <2>1 DEF LoadRow
  <2>5. UNCHANGED <<load, clock, calls, faults, dbWf, memRuns, dbRuns, memIndex, redisIndex,
                    dbIndex, linked, births>>
    BY <1>4 DEF LoadRow
  <2>6. dbWf' \in [WfIds -> (SUBSET Calls) \cup {NoRow}] /\ births' \in [WfIds -> Nat]
    BY <1>1, <2>5 DEF RuntimeTypeOK
  <2> QED
    BY <1>3, <2>3, <2>4, <2>5, <2>6
<1>5. CASE ShareObject(t)
  <2>1. job[t].req.wf \in WfIds
    BY <1>1, <1>5, BoundsAssumption DEF ShareObject, HasObject, Job, Requests, WfIds
  <2>2. memWf[job[t].req.wf] \in Calls
    BY <1>1, <1>5, <2>1, BoundsAssumption DEF ShareObject, HasObject, RuntimeTypeOK, Calls
  <2>3. PICK w \in WfIds, o \in Calls : Holds(t, w, o)
    BY <1>5, <2>1, <2>2 DEF ShareObject
  <2>4. UNCHANGED <<load, clock, calls, faults, objects, memWf, dbWf, births, memRuns, dbRuns,
                    memIndex, redisIndex, dbIndex, linked>>
    BY <1>5 DEF ShareObject, stores
  <2>5. /\ objects' \in [Calls -> SUBSET Calls] /\ memWf' \in [WfIds -> 0 .. MaxCalls]
        /\ dbWf' \in [WfIds -> (SUBSET Calls) \cup {NoRow}] /\ births' \in [WfIds -> Nat]
    BY <1>1, <2>4 DEF RuntimeTypeOK
  <2> QED
    BY <1>3, <2>3, <2>4, <2>5
<1>6. CASE NewRecord(t)
  <2>1. /\ objects' \in [Calls -> SUBSET Calls] /\ memWf' \in [WfIds -> 0 .. MaxCalls]
        /\ dbWf' \in [WfIds -> (SUBSET Calls) \cup {NoRow}] /\ births' \in [WfIds -> Nat]
    BY <1>1, <1>6, CreateRecordTyped DEF NewRecord
  <2> QED
    BY <1>1, <1>3, <1>6, <2>1 DEF NewRecord, RuntimeTypeOK
<1> QED
  BY <1>4, <1>5, <1>6

LEMMA WrapperTyped ==
  ASSUME RuntimeTyped, NEW t \in Workers, WrapperReturns(t) \/ WrapperRaises(t)
  PROVE  /\ RuntimeTyped'
         /\ job'[t].call = job[t].call /\ job'[t].locked = FALSE
         /\ rpc[t] = "work" /\ rpc'[t] # "work"
         /\ \A u \in Workers \ {t} : rpc'[u] = rpc[u] /\ job'[u] = job[u]
<1>1. RuntimeTypeOK /\ job[t] \in Job /\ job \in [Workers -> Job] /\ rpc[t] = "work"
      /\ job[t].call \in Calls /\ job[t].obj \in Calls /\ job[t].wf \in WfIds
  BY DEF RuntimeTyped, RuntimeTypeOK, Busy, WrapperReturns, WrapperRaises, Goes
<1>2. PICK to \in {"index", "answered"} : Goes(t, "work", to)
  BY DEF WrapperReturns, WrapperRaises
<1>3. /\ rpc' \in [Workers -> RPCs] /\ rpc'[t] = to
      /\ \A u \in Workers \ {t} : rpc'[u] = rpc[u]
  BY <1>1, <1>2, WorkerMoves DEF RPCs
<1>4. PICK a \in {"returned", "failed"} :
        job' = [job EXCEPT ![t].answer = a, ![t].locked = FALSE]
  BY DEF WrapperReturns, WrapperRaises
<1>5. a \in Answers
  BY DEF Answers
<1>6. /\ job' \in [Workers -> Job]
      /\ job'[t].call = job[t].call /\ job'[t].wf = job[t].wf /\ job'[t].obj = job[t].obj
      /\ job'[t].locked = FALSE
      /\ \A u \in Workers \ {t} : job'[u] = job[u]
  BY <1>1, <1>4, <1>5, JobEnds
<1>7. locks' \subseteq locks /\ memRuns' \subseteq memRuns \cup {job[t].call}
      /\ dbRuns' \subseteq dbRuns \cup {job[t].call}
  BY DEF WrapperReturns, WrapperRaises, ReleaseLock, stores
<1>8. UNCHANGED <<load, clock, calls, dbUp, redisUp, mishaps, memWf, objects, dbWf,
                  memIndex, redisIndex, dbIndex, linked, rivals, births>>
  BY DEF WrapperReturns, WrapperRaises, faults, stores, trails
<1>9. RuntimeTypeOK'
  BY <1>1, <1>3, <1>6, <1>7, <1>8 DEF RuntimeTypeOK
<1>10. Busy(t)'
  BY <1>1, <1>2, <1>3, <1>6, <1>8 DEF Busy, Calls, WfIds
<1> QED
  BY <1>1, <1>2, <1>3, <1>6, <1>9, <1>10, OthersStay DEF RuntimeTyped

LEMMA FinishTyped ==
  ASSUME RuntimeTyped, NEW t \in Workers, IndexRun(t) \/ LinkRun(t)
  PROVE  RuntimeTyped'
<1>1. RuntimeTypeOK /\ rpc[t] \in {"index", "link"} /\ job[t] \in Job
      /\ job[t].call \in Calls /\ job[t].obj \in Calls /\ job[t].wf \in WfIds
  BY DEF RuntimeTyped, RuntimeTypeOK, Busy, IndexRun, LinkRun, Goes
<1>2. PICK to \in {"link", "answered"} : Goes(t, rpc[t], to)
  BY <1>1 DEF IndexRun, LinkRun, Goes
<1>3. /\ rpc' \in [Workers -> RPCs] /\ rpc'[t] = to
      /\ \A u \in Workers \ {t} : rpc'[u] = rpc[u]
  BY <1>1, <1>2, WorkerMoves DEF RPCs
<1>4. UNCHANGED <<load, clock, calls, dbUp, redisUp, mishaps, memRuns, dbRuns, locks, job,
                  rivals, births>>
  BY DEF IndexRun, LinkRun, faults, trails
<1>5. /\ memIndex' \in [Requests -> 0 .. MaxCalls]
      /\ redisIndex' \in [Requests -> 0 .. MaxCalls]
      /\ dbIndex' \in [Requests -> 0 .. MaxCalls]
  <2>1. job[t].req \in Requests /\ job[t].call \in 0 .. MaxCalls
    BY <1>1 DEF Job, Calls
  <2> QED
    BY <1>1, <2>1 DEF IndexRun, LinkRun, RuntimeTypeOK
<1>6. /\ objects' \in [Calls -> SUBSET Calls] /\ memWf' \in [WfIds -> 0 .. MaxCalls]
      /\ dbWf' \in [WfIds -> (SUBSET Calls) \cup {NoRow}]
  <2>1. CASE IndexRun(t)
    BY <1>1, <2>1 DEF IndexRun, RuntimeTypeOK
  <2>2. CASE LinkRun(t)
    <3>1. objects[job[t].obj] \cup {job[t].call} \in SUBSET Calls
      BY <1>1 DEF RuntimeTypeOK
    <3>2. job[t].obj \in 0 .. MaxCalls
      BY <1>1 DEF Calls
    <3> QED
      BY <1>1, <2>2, <3>1, <3>2 DEF LinkRun, RuntimeTypeOK
  <2> QED
    BY <2>1, <2>2
<1>7. linked' \in [Calls -> 0 .. MaxSecond]
  <2>1. job[t].wf \in 0 .. MaxSecond
    BY <1>1 DEF WfIds
  <2> QED
    BY <1>1, <2>1 DEF IndexRun, LinkRun, RuntimeTypeOK, trails
<1>8. RuntimeTypeOK'
  BY <1>1, <1>3, <1>4, <1>5, <1>6, <1>7 DEF RuntimeTypeOK
<1>9. Busy(t)'
  BY <1>1, <1>3, <1>4 DEF Busy, Calls, WfIds
<1> QED
  BY <1>3, <1>4, <1>8, <1>9, OthersStay DEF RuntimeTyped

LEMMA ReplyTyped ==
  ASSUME RuntimeTyped, NEW t \in Workers, Reply(t)
  PROVE  RuntimeTyped'
<1>1. /\ rpc' \in [Workers -> RPCs] /\ rpc'[t] = "idle"
      /\ \A u \in Workers \ {t} : rpc'[u] = rpc[u]
  BY WorkerMoves DEF Reply, RPCs, RuntimeTyped
<1>2. job' \in [Workers -> Job] /\ \A u \in Workers \ {t} : job'[u] = job[u]
  BY IdleJobTyped DEF Reply, RuntimeTyped, RuntimeTypeOK
<1>3. RuntimeTypeOK'
  BY <1>1, <1>2 DEF Reply, RuntimeTyped, RuntimeTypeOK, faults, stores, trails
<1> QED
  BY <1>1, <1>2, <1>3, OthersStay DEF RuntimeTyped, Busy

LEMMA EnvironmentTyped ==
  ASSUME RuntimeTyped, Environment
  PROVE  RuntimeTyped'
<1>1. CASE NextSecond
  <2>1. clock' \in WfIds
    BY SMTT(30), <1>1, BoundsAssumption DEF NextSecond, RuntimeTyped, RuntimeTypeOK, WfIds
  <2> QED
    BY <1>1, <2>1 DEF NextSecond, RuntimeTyped, RuntimeTypeOK, Busy, faults, stores, trails
<1>2. CASE LockExpires
  BY <1>2 DEF LockExpires, Mishap, Mishaps, RuntimeTyped, RuntimeTypeOK, Busy, stores, trails
<1>3. CASE FlipRedis
  BY <1>3 DEF FlipRedis, Mishap, Mishaps, RuntimeTyped, RuntimeTypeOK, Busy, stores, trails
<1>4. CASE FlipDb
  BY <1>4 DEF FlipDb, Mishap, Mishaps, RuntimeTyped, RuntimeTypeOK, Busy, stores, trails
<1> QED
  BY <1>1, <1>2, <1>3, <1>4 DEF Environment

LEMMA RestartTyped ==
  ASSUME RuntimeTyped, RestartRuntime
  PROVE  RuntimeTyped'
<1>1. 0 \in 0 .. MaxCalls /\ IdleJob \in Job
  BY IdleJobTyped, BoundsAssumption
<1>2. RuntimeTypeOK'
  BY <1>1 DEF RestartRuntime, Mishap, Mishaps, RuntimeTyped, RuntimeTypeOK, RPCs, trails
<1>3. \A t \in Workers : Busy(t)'
  BY DEF RestartRuntime, Busy
<1> QED
  BY <1>2, <1>3 DEF RuntimeTyped

----------------------------------------------------------------------------
(* Types of the orchestrator *)

FlowsTyped ==
  /\ switches \in BOOLEAN
  /\ flows \in 0 .. MaxFlows
  /\ flow \in [Workers -> Flow]
  /\ memFlows \in [Flows -> Response] /\ dbFlows \in [Flows -> Response]
  /\ items \subseteq Calls /\ admitted \subseteq Flows
  /\ clients \in Nat /\ booked \in 0 .. MaxCalls

\* What the place of a workflow run tells about its variables.
Started(t) ==
  /\ flow[t].at # "idle" => flow[t].id \in Flows /\ flow[t].opt \in Options
  /\ flow[t].at = "stage" => flow[t].stage \in 1 .. Len(Plan)

Typed == RuntimeTyped /\ FlowsTyped /\ \A t \in Workers : Started(t)

LEMMA PlanBounds ==
  /\ Len(Plan) \in Nat
  /\ \A k \in 1 .. Len(Plan) : Plan[k] \in Agents
  /\ \A opt \in Options : opt.cap \in 1 .. Len(Plan) /\ opt.human \in BOOLEAN /\ opt.dry \in BOOLEAN
BY PlanAssumption

LEMMA StageRequestTyped ==
  ASSUME Typed, NEW t \in Workers, flow[t].at = "stage"
  PROVE  StageRequest(t) \in Requests
<1>1. flow[t] \in Flow /\ flow[t].stage \in 1 .. Len(Plan) /\ flow[t].id \in Flows
  BY DEF Typed, FlowsTyped, Started
<1>2. /\ Plan[flow[t].stage] \in Agents /\ flow[t].wr \in 0 .. MaxSecond
      /\ flow[t].id \in 0 .. MaxFlows
  BY <1>1, PlanBounds DEF Flow, Flows
<1> QED
  BY <1>2 DEF StageRequest, Requests

LEMMA RunAgentTyped ==
  ASSUME RuntimeTyped, NEW t \in Workers, RunAgent(t)
  PROVE  RuntimeTyped'
BY EnsureTyped, WrapperTyped, FinishTyped DEF RunAgent

\* create_workflow_run of the orchestrator, as a step of the runtime.
LEMMA FlowRecordTyped ==
  ASSUME RuntimeTyped, NEW t \in Workers, CreateFlowRecord(t)
  PROVE  RuntimeTyped'
<1>1. RuntimeTypeOK /\ calls + 1 \in Calls /\ calls' \in 0 .. MaxCalls
  <2>1. calls < MaxCalls /\ calls \in 0 .. MaxCalls /\ calls' = calls + 1
    BY DEF CreateFlowRecord, RuntimeTyped, RuntimeTypeOK
  <2> QED
    BY <2>1, Bounds DEF RuntimeTyped, Calls
<1>2. CreateRecord(calls + 1)
  BY DEF CreateFlowRecord
<1>3. /\ objects' \in [Calls -> SUBSET Calls] /\ memWf' \in [WfIds -> 0 .. MaxCalls]
      /\ dbWf' \in [WfIds -> (SUBSET Calls) \cup {NoRow}] /\ births' \in [WfIds -> Nat]
  BY <1>1, <1>2, CreateRecordTyped
<1>4. UNCHANGED <<load, clock, faults, memRuns, dbRuns, memIndex, redisIndex, dbIndex,
                  locks, rpc, job, linked, rivals>>
  BY DEF CreateFlowRecord
<1> QED
  BY <1>1, <1>3, <1>4 DEF RuntimeTyped, RuntimeTypeOK, Busy, faults

LEMMA SwitchesTyped ==
  ASSUME RuntimeTyped, TurnSwitches
  PROVE  RuntimeTyped'
<1>1. mishaps' \subseteq Mishaps
  BY DEF TurnSwitches, Mishap, Mishaps, RuntimeTyped, RuntimeTypeOK
<1>2. UNCHANGED <<load, clock, calls, dbUp, redisUp, stores, locks, rpc, job, trails>>
  BY DEF TurnSwitches
<1> QED
  BY <1>1, <1>2 DEF RuntimeTyped, RuntimeTypeOK, Busy, stores, trails

\* What a step of the workflow is to the runtime.
LEMMA RuntimeSteps ==
  ASSUME Typed, [WorkflowNext]_workflowVars
  PROVE  \/ UNCHANGED runtimeVars
         \/ \E t \in Workers, r \in Requests : Duplicate(t, r) \/ BeginRun(t, r)
         \/ \E t \in Workers : RunAgent(t)
         \/ \E t \in Workers : Reply(t)
         \/ Environment
         \/ RestartRuntime
         \/ \E t \in Workers : CreateFlowRecord(t)
         \/ TurnSwitches
<1>1. ASSUME NEW t \in Workers, FlowStep(t)
      PROVE  \/ UNCHANGED runtimeVars
             \/ \E r \in Requests : BeginRun(t, r)
             \/ RunAgent(t)
             \/ Reply(t)
             \/ CreateFlowRecord(t)
  <2>1. CASE BeginStage(t)
    BY <2>1, StageRequestTyped DEF BeginStage, At
  <2>2. CASE ApprovalItemCreated(t)
    BY <2>2 DEF ApprovalItemCreated, RunAgent
  <2> QED
    BY ZenonT(60), <1>1, <2>1, <2>2 DEF FlowStep, Govern, StageReturns, StageRaises, PersistFlow, RunAgentStep
<1>2. ASSUME NEW t \in Workers, NEW agent \in ClientAgents, NEW wf \in 0 .. clock,
             ClientAsks(t, agent, wf)
      PROVE  \E r \in Requests : Duplicate(t, r) \/ BeginRun(t, r)
  <2>1. agent \in Agents /\ wf \in 0 .. MaxSecond /\ 0 \in 0 .. MaxFlows
    BY PlanAssumption, Bounds DEF Typed, RuntimeTyped, RuntimeTypeOK, WfIds
  <2>2. [agent |-> agent, wf |-> wf, key |-> 0] \in Requests
    BY <2>1 DEF Requests
  <2> QED
    BY <1>2, <2>2 DEF ClientAsks
<1>3. CASE UNCHANGED workflowVars
  BY <1>3 DEF workflowVars
<1> QED
  BY ZenonT(60), <1>1, <1>2, <1>3
  DEF WorkflowNext, StartFlow, ClientReply, ListFlows, RestartFlows

LEMMA RuntimeStepTyped ==
  ASSUME Typed, [WorkflowNext]_workflowVars
  PROVE  RuntimeTyped'
<1>1. CASE UNCHANGED runtimeVars
  BY <1>1 DEF Typed, RuntimeTyped, RuntimeTypeOK, Busy, runtimeVars, faults, stores, trails
<1> QED
  BY <1>1, RuntimeSteps, DuplicateTyped, BeginTyped, RunAgentTyped, ReplyTyped,
     EnvironmentTyped, RestartTyped, FlowRecordTyped, SwitchesTyped DEF Typed

\* One run moves, what the others know stays true.
LEMMA OtherFlowsStay ==
  ASSUME Typed, NEW t \in Workers, Started(t)', \A u \in Workers \ {t} : flow'[u] = flow[u]
  PROVE  \A u \in Workers : Started(u)'
BY DEF Typed, Started

LEMMA StartTyped ==
  ASSUME Typed, NEW t \in Workers, NEW opt \in Options, NEW rejected \in BOOLEAN,
         StartFlow(t, opt, rejected)
  PROVE  /\ FlowsTyped' /\ \A u \in Workers : Started(u)'
         /\ flow'[t].boundary = FALSE /\ \A u \in Workers \ {t} : flow'[u] = flow[u]
         /\ flow'[t].at \in {"govern", "create"} /\ flow'[t].runs = {}
<1>1. flows + 1 \in Flows /\ flows' \in 0 .. MaxFlows /\ booked' \in 0 .. MaxCalls
  <2>1. load.flows \in 0 .. MaxFlows
    BY BoundsAssumption DEF Typed, RuntimeTyped, RuntimeTypeOK
  <2>2. flows < load.flows /\ flows \in 0 .. MaxFlows /\ flows' = flows + 1
    BY DEF StartFlow, Typed, FlowsTyped
  <2>3. opt.cap \in Nat
    BY PlanBounds
  <2>4. booked \in 0 .. MaxCalls
    BY DEF Typed, FlowsTyped
  <2>5. booked' \in 0 .. MaxCalls
    BY <2>3, <2>4, Bounds DEF StartFlow, Book
  <2> QED
    BY <2>1, <2>2, <2>5, Bounds DEF Flows
<1>2. PICK p \in {"create", "govern"} :
        flow' = [flow EXCEPT ![t] = [IdleFlow EXCEPT
                  !.at = p, !.id = flows + 1, !.opt = opt,
                  !.rejected = rejected, !.blocked = rejected]]
  BY DEF StartFlow
<1>3. flow \in [Workers -> Flow] /\ p \in Places
  BY DEF Typed, FlowsTyped, Places
<1>4. /\ flow' \in [Workers -> Flow]
      /\ flow'[t].at = p /\ flow'[t].id = flows + 1 /\ flow'[t].opt = opt
      /\ flow'[t].boundary = FALSE /\ flow'[t].runs = {}
      /\ \A u \in Workers \ {t} : flow'[u] = flow[u]
  BY <1>1, <1>2, <1>3, IdleFlowTyped DEF Flow, IdleFlow
<1>5. FlowsTyped'
  BY <1>1, <1>4 DEF StartFlow, Typed, FlowsTyped
<1> QED
  BY <1>1, <1>4, <1>5, OtherFlowsStay DEF Started

LEMMA GovernTyped ==
  ASSUME Typed, NEW t \in Workers, Govern(t)
  PROVE  /\ FlowsTyped' /\ \A u \in Workers : Started(u)'
         /\ flow'[t].boundary = flow[t].boundary /\ flow'[t].opt = flow[t].opt
         /\ flow'[t].at = "create" /\ flow'[t].id = flow[t].id
         /\ flow'[t].wr = flow[t].wr /\ flow'[t].runs = flow[t].runs
         /\ \A u \in Workers \ {t} : flow'[u] = flow[u]
<1>1. flow \in [Workers -> Flow] /\ "create" \in Places
      /\ flow[t].id \in Flows /\ flow[t].opt \in Options
  BY DEF Govern, At, Typed, FlowsTyped, Started, Places
<1>2. PICK b \in BOOLEAN, c \in BOOLEAN :
        flow' = [flow EXCEPT ![t].at = "create", ![t].blocked = b, ![t].rejected = c]
  BY DEF Govern, GovernanceBlocks
<1>3. /\ flow' \in [Workers -> Flow]
      /\ flow'[t].at = "create" /\ flow'[t].id = flow[t].id /\ flow'[t].opt = flow[t].opt
      /\ flow'[t].boundary = flow[t].boundary
      /\ flow'[t].wr = flow[t].wr /\ flow'[t].runs = flow[t].runs
      /\ \A u \in Workers \ {t} : flow'[u] = flow[u]
  BY <1>1, <1>2, FlowGoverned
<1>4. admitted' \subseteq Flows
  BY <1>1 DEF Govern, Typed, FlowsTyped
<1>5. FlowsTyped'
  BY <1>3, <1>4 DEF Govern, Typed, FlowsTyped
<1> QED
  BY <1>1, <1>3, <1>5, OtherFlowsStay DEF Started

LEMMA CreateTyped ==
  ASSUME Typed, NEW t \in Workers, CreateFlowRecord(t)
  PROVE  /\ FlowsTyped' /\ \A u \in Workers : Started(u)'
         /\ flow'[t].boundary = flow[t].boundary /\ flow'[t].opt = flow[t].opt
         /\ flow'[t].at \in {"stage", "persist"} /\ flow'[t].id = flow[t].id
         /\ flow'[t].wr = clock /\ flow'[t].runs = flow[t].runs
         /\ \A u \in Workers \ {t} : flow'[u] = flow[u]
<1>1. flow \in [Workers -> Flow] /\ clock \in 0 .. MaxSecond
      /\ flow[t].id \in Flows /\ flow[t].opt \in Options /\ flow[t] \in Flow
  BY DEF CreateFlowRecord, At, Typed, FlowsTyped, Started, RuntimeTyped, RuntimeTypeOK, WfIds
<1>2. 1 \in 1 .. Len(Plan) /\ 0 \in 0 .. Len(Plan)
  BY <1>1, PlanBounds
<1>3. PICK p \in {"persist", "stage"}, k \in {0, 1} :
        /\ flow' = [flow EXCEPT ![t].wr = clock, ![t].at = p, ![t].stage = k]
        /\ p = "stage" => k = 1
  BY DEF CreateFlowRecord
<1>4. p \in Places /\ k \in 0 .. Len(Plan) /\ (p = "stage" => k \in 1 .. Len(Plan))
  BY <1>2, <1>3 DEF Places
<1>5. /\ flow' \in [Workers -> Flow]
      /\ flow'[t].at = p /\ flow'[t].id = flow[t].id /\ flow'[t].opt = flow[t].opt
      /\ flow'[t].stage = k /\ flow'[t].boundary = flow[t].boundary
      /\ flow'[t].wr = clock /\ flow'[t].runs = flow[t].runs
      /\ \A u \in Workers \ {t} : flow'[u] = flow[u]
  <2> DEFINE r == [flow[t] EXCEPT !.wr = clock, !.at = p, !.stage = k]
  <2>1. r \in Flow
    BY <1>1, <1>4 DEF Flow
  <2>2. /\ r.at = p /\ r.id = flow[t].id /\ r.opt = flow[t].opt
        /\ r.stage = k /\ r.boundary = flow[t].boundary
        /\ r.wr = clock /\ r.runs = flow[t].runs
    BY <1>1 DEF Flow
  <2>3. flow' = [flow EXCEPT ![t] = r]
    BY <1>3
  <2> HIDE DEF r
  <2>4. flow' \in [Workers -> Flow] /\ flow'[t] = r
    BY <1>1, <2>1, <2>3
  <2>5. \A u \in Workers \ {t} : flow'[u] = flow[u]
    BY <1>1, <2>3
  <2> QED
    BY <2>2, <2>4, <2>5
<1>6. FlowsTyped'
  BY <1>5 DEF CreateFlowRecord, Typed, FlowsTyped
<1> QED
  BY <1>1, <1>4, <1>5, <1>6, OtherFlowsStay DEF Started

LEMMA ReturnTyped ==
  ASSUME Typed, NEW t \in Workers, NEW found \in BOOLEAN, StageReturns(t, found)
  PROVE  /\ FlowsTyped' /\ \A u \in Workers : Started(u)'
         /\ flow'[t].opt = flow[t].opt
         /\ flow'[t].at \in {"stage", "persist"} /\ flow'[t].id = flow[t].id
         /\ flow'[t].wr = flow[t].wr /\ flow'[t].runs = flow[t].runs \cup {job[t].call}
         /\ flow'[t].boundary = (flow[t].boundary \/ Plan[flow[t].stage] = ApprovalAgent)
         /\ Plan[flow[t].stage] = ApprovalAgent /\ flow[t].opt.human /\ ~flow[t].opt.dry
              => flow'[t].at = "persist"
         /\ \A u \in Workers \ {t} : flow'[u] = flow[u]
<1>1. flow \in [Workers -> Flow] /\ flow[t] \in Flow /\ job[t].call \in Calls
      /\ flow[t].id \in Flows /\ flow[t].opt \in Options /\ flow[t].stage \in 1 .. Len(Plan)
  BY DEF StageReturns, Reply, Goes, Typed, FlowsTyped, Started, RuntimeTyped, Busy
<1> DEFINE k == flow[t].stage
           atBoundary == Plan[k] = ApprovalAgent
           goesOn == /\ After(flow[t].opt, k)
                     /\ ~(atBoundary /\ flow[t].opt.human /\ ~flow[t].opt.dry)
           runs == flow[t].runs \cup {job[t].call}
           approval == IF atBoundary /\ flow[t].opt.human /\ job[t].call \in items
                       THEN job[t].call ELSE flow[t].approval
           next == IF goesOn THEN k + 1 ELSE k
           place == IF goesOn THEN "stage" ELSE "persist"
<1>2. flow' = [flow EXCEPT ![t] = [flow[t] EXCEPT
                 !.runs = runs, !.blocked = flow[t].blocked \/ found,
                 !.boundary = flow[t].boundary \/ atBoundary,
                 !.approval = approval, !.at = place, !.stage = next]]
  BY DEF StageReturns
<1>3. runs \in SUBSET Calls /\ approval \in 0 .. MaxCalls /\ place \in Places
  BY <1>1 DEF Flow, Calls, Places
<1>4. next \in 1 .. Len(Plan)
  <2>1. flow[t].opt.cap \in 1 .. Len(Plan)
    BY <1>1, PlanBounds
  <2> QED
    BY <1>1, <2>1, PlanBounds DEF After
<1>5. (flow[t].blocked \/ found) \in BOOLEAN /\ (flow[t].boundary \/ atBoundary) \in BOOLEAN
  OBVIOUS
<1>6. /\ atBoundary /\ flow[t].opt.human /\ ~flow[t].opt.dry => place = "persist"
      /\ place \in {"stage", "persist"}
  OBVIOUS
<1>7. next \in 0 .. Len(Plan)
  BY <1>4
<1> HIDE DEF runs, approval, next, place, goesOn, atBoundary
<1>8. /\ flow' \in [Workers -> Flow]
      /\ flow'[t].at = place /\ flow'[t].id = flow[t].id /\ flow'[t].opt = flow[t].opt
      /\ flow'[t].boundary = (flow[t].boundary \/ atBoundary)
      /\ flow'[t].stage = next /\ flow'[t].wr = flow[t].wr /\ flow'[t].runs = runs
      /\ \A u \in Workers \ {t} : flow'[u] = flow[u]
  <2> DEFINE r == [flow[t] EXCEPT !.runs = runs, !.blocked = flow[t].blocked \/ found,
                         !.boundary = flow[t].boundary \/ atBoundary,
                         !.approval = approval, !.at = place, !.stage = next]
  <2>1. r \in Flow
    BY <1>1, <1>3, <1>5, <1>7 DEF Flow
  <2>2. /\ r.at = place /\ r.id = flow[t].id /\ r.opt = flow[t].opt
        /\ r.stage = next /\ r.boundary = (flow[t].boundary \/ atBoundary)
        /\ r.wr = flow[t].wr /\ r.runs = runs
    BY <1>1 DEF Flow
  <2>3. flow' = [flow EXCEPT ![t] = r]
    BY <1>2
  <2> HIDE DEF r
  <2>4. flow' \in [Workers -> Flow] /\ flow'[t] = r
    BY <1>1, <2>1, <2>3
  <2>5. \A u \in Workers \ {t} : flow'[u] = flow[u]
    BY <1>1, <2>3
  <2> QED
    BY <2>2, <2>4, <2>5
<1>9. FlowsTyped'
  BY <1>8 DEF StageReturns, Typed, FlowsTyped
<1>10. Started(t)'
  BY <1>1, <1>4, <1>8 DEF Started
<1> QED
  BY <1>6, <1>8, <1>9, <1>10, OtherFlowsStay DEF atBoundary, runs

LEMMA RaiseTyped ==
  ASSUME Typed, NEW t \in Workers, StageRaises(t)
  PROVE  /\ FlowsTyped' /\ \A u \in Workers : Started(u)'
         /\ flow'[t].at = "persist" /\ flow'[t].id = flow[t].id
         /\ flow'[t].wr = flow[t].wr /\ flow'[t].runs = flow[t].runs
         /\ flow'[t].boundary = flow[t].boundary /\ flow'[t].opt = flow[t].opt
         /\ \A u \in Workers \ {t} : flow'[u] = flow[u]
<1>1. flow \in [Workers -> Flow] /\ "persist" \in Places
      /\ flow[t].id \in Flows /\ flow[t].opt \in Options
  BY DEF StageRaises, Typed, FlowsTyped, Started, Places
<1>2. flow' = [flow EXCEPT ![t].at = "persist", ![t].blocked = TRUE]
  BY DEF StageRaises
<1>3. /\ flow' \in [Workers -> Flow]
      /\ flow'[t].at = "persist" /\ flow'[t].id = flow[t].id /\ flow'[t].opt = flow[t].opt
      /\ flow'[t].boundary = flow[t].boundary
      /\ flow'[t].wr = flow[t].wr /\ flow'[t].runs = flow[t].runs
      /\ \A u \in Workers \ {t} : flow'[u] = flow[u]
  BY <1>1, <1>2, FlowFails
<1>4. FlowsTyped'
  BY <1>3 DEF StageRaises, Typed, FlowsTyped
<1> QED
  BY <1>1, <1>3, <1>4, OtherFlowsStay DEF Started

LEMMA PersistTyped ==
  ASSUME Typed, NEW t \in Workers, PersistFlow(t)
  PROVE  /\ FlowsTyped' /\ \A u \in Workers : Started(u)'
         /\ flow'[t] = IdleFlow
         /\ \A u \in Workers \ {t} : flow'[u] = flow[u]
<1>1. flow[t] \in Flow /\ flow[t].id \in Flows
  BY DEF PersistFlow, At, Typed, FlowsTyped, Started
<1> DEFINE response == [status |-> FinalStatus(flow[t]), wr |-> flow[t].wr,
                        approval |-> flow[t].approval, runs |-> flow[t].runs]
<1>2. response \in Response /\ [response EXCEPT !.approval = 0] \in Response
  <2>1. FinalStatus(flow[t]) \in Statuses /\ 0 \in 0 .. MaxCalls
    BY Bounds DEF FinalStatus, Statuses
  <2>2. flow[t].wr \in 0 .. MaxSecond /\ flow[t].approval \in 0 .. MaxCalls
        /\ flow[t].runs \in SUBSET Calls
    BY <1>1 DEF Flow
  <2> QED
    BY <2>1, <2>2 DEF Response
<1>3. /\ memFlows' = [memFlows EXCEPT ![flow[t].id] = response]
      /\ dbFlows' = IF dbUp THEN [dbFlows EXCEPT ![flow[t].id] =
                                    [response EXCEPT !.approval = 0]]
                    ELSE dbFlows
      /\ flow' = [flow EXCEPT ![t] = IdleFlow]
      /\ UNCHANGED <<switches, flows, items, admitted, clients, booked>>
  BY DEF PersistFlow
<1> HIDE DEF response
<1>4. memFlows' \in [Flows -> Response] /\ dbFlows' \in [Flows -> Response]
  BY <1>1, <1>2, <1>3 DEF Typed, FlowsTyped
<1>5. /\ flow' \in [Workers -> Flow] /\ flow'[t] = IdleFlow
      /\ \A u \in Workers \ {t} : flow'[u] = flow[u]
  BY <1>3, IdleFlowTyped DEF Typed, FlowsTyped
<1>6. FlowsTyped'
  BY <1>3, <1>4, <1>5 DEF Typed, FlowsTyped
<1>7. Started(t)'
  BY <1>5 DEF Started, IdleFlow
<1> QED
  BY <1>5, <1>6, <1>7, OtherFlowsStay

LEMMA NextTyped == Typed /\ [WorkflowNext]_workflowVars => Typed'
<1> SUFFICES ASSUME Typed, [WorkflowNext]_workflowVars
             PROVE  FlowsTyped' /\ \A t \in Workers : Started(t)'
  BY RuntimeStepTyped DEF Typed
<1>1. ASSUME UNCHANGED <<switches, flows, flow, memFlows, dbFlows, admitted>>,
             items' \subseteq Calls, clients' \in Nat, booked' \in 0 .. MaxCalls
      PROVE  FlowsTyped' /\ \A t \in Workers : Started(t)'
  BY <1>1 DEF Typed, FlowsTyped, Started
<1>2. items \subseteq Calls /\ clients \in Nat /\ booked \in 0 .. MaxCalls
  BY DEF Typed, FlowsTyped
<1>3. CASE UNCHANGED flowVars
  BY <1>1, <1>2, <1>3 DEF flowVars
<1>4. ASSUME NEW t \in Workers, FlowStep(t)
      PROVE  FlowsTyped' /\ \A u \in Workers : Started(u)'
  <2>1. CASE ApprovalItemCreated(t)
    <3>1. job[t].call \in Calls
      BY <2>1 DEF ApprovalItemCreated, WrapperReturns, Goes, Typed, RuntimeTyped, Busy
    <3> QED
      BY <1>1, <1>2, <2>1, <3>1 DEF ApprovalItemCreated
  <2> QED
    BY <1>3, <1>4, <2>1, GovernTyped, CreateTyped, ReturnTyped, RaiseTyped, PersistTyped
    DEF FlowStep, BeginStage, RunAgentStep
<1>5. ASSUME NEW t \in Workers, NEW agent \in ClientAgents, NEW wf \in 0 .. clock,
             ClientAsks(t, agent, wf)
      PROVE  FlowsTyped' /\ \A u \in Workers : Started(u)'
  <2>1. clients' \in Nat /\ booked' \in 0 .. MaxCalls
    BY <1>2, <1>5, Bounds DEF ClientAsks, Book
  <2> QED
    BY <1>1, <1>2, <1>5, <2>1 DEF ClientAsks
<1>6. CASE ListFlows
  <2>1. memFlows' \in [Flows -> Response]
    BY <1>6 DEF ListFlows, Typed, FlowsTyped
  <2> QED
    BY <1>6, <2>1 DEF ListFlows, Typed, FlowsTyped, Started
<1>7. CASE TurnSwitches
  BY <1>7 DEF TurnSwitches, Typed, FlowsTyped, Started
<1>8. CASE RestartFlows
  <2>1. NoResponse \in Response
    BY Bounds DEF NoResponse, Response, Statuses
  <2>2. flow' \in [Workers -> Flow] /\ memFlows' \in [Flows -> Response]
    BY <1>8, <2>1, IdleFlowTyped DEF RestartFlows
  <2>3. \A t \in Workers : Started(t)'
    BY <1>8 DEF RestartFlows, Started, IdleFlow
  <2> QED
    BY <1>8, <2>2, <2>3 DEF RestartFlows, Typed, FlowsTyped
<1>9. CASE UNCHANGED workflowVars
  BY <1>3, <1>9 DEF workflowVars
<1> QED
  BY <1>3, <1>4, <1>5, <1>6, <1>7, <1>8, <1>9, StartTyped DEF WorkflowNext, ClientReply

LEMMA InitTyped == WorkflowInit => Typed
<1> SUFFICES ASSUME WorkflowInit PROVE Typed
  OBVIOUS
<1>1. RuntimeTypeOK
  BY BoundsAssumption, IdleJobTyped
  DEF WorkflowInit, RuntimeInit, RuntimeTypeOK, WfIds, RPCs, NoRow
<1>2. RuntimeTyped
  BY <1>1 DEF RuntimeTyped, Busy, WorkflowInit, RuntimeInit
<1>3. NoResponse \in Response
  BY Bounds DEF NoResponse, Response, Statuses
<1>4. FlowsTyped
  BY <1>3, IdleFlowTyped, Bounds DEF WorkflowInit, FlowsTyped
<1>5. \A t \in Workers : Started(t)
  BY DEF WorkflowInit, Started, IdleFlow
<1> QED
  BY <1>2, <1>4, <1>5 DEF Typed

\* Every reachable state has the declared types, for any plan, number of workers and
\* demand (create_agent_run and run_workflow together).
THEOREM WorkflowTypes == WorkflowSpec => []WorkflowTypeOK
<1>1. Typed => WorkflowTypeOK
  BY DEF Typed, RuntimeTyped, FlowsTyped, WorkflowTypeOK
<1> QED
  BY <1>1, InitTyped, NextTyped, PTL DEF WorkflowSpec


----------------------------------------------------------------------------
(* The advisory lock *)

\* The run believes it holds the lock of its agent.
Locked(t) == rpc[t] = "work" /\ job[t].locked

Ensures(t) == LoadRow(t) \/ ShareObject(t) \/ NewRecord(t)
Works(t)   == WrapperReturns(t) \/ WrapperRaises(t)

\* A step that has nothing to do with the locks.
Quiet ==
  /\ mishaps \subseteq mishaps' /\ redisUp' = redisUp /\ locks' = locks
  /\ \A u \in Workers : Locked(u)' = Locked(u) /\ (Locked(u) => LockOf(u)' = LockOf(u))

LEMMA LockSteps ==
  ASSUME Typed, [WorkflowNext]_workflowVars
  PROVE  \/ Quiet
         \/ \E t \in Workers : Ensures(t) \/ Works(t)
         \/ LockExpires \/ FlipRedis \/ RestartRuntime
<1>1. ASSUME NEW t \in Workers,
             rpc[t] # "work", rpc'[t] # "work",
             \A u \in Workers \ {t} : rpc'[u] = rpc[u] /\ job'[u] = job[u],
             UNCHANGED <<faults, locks>>
      PROVE  Quiet
  BY <1>1 DEF Quiet, Locked, LockOf, faults
<1>2. ASSUME NEW t \in Workers, NEW r \in Requests, Duplicate(t, r) \/ BeginRun(t, r)
      PROVE  Quiet
  <2>1. /\ rpc[t] # "work" /\ rpc'[t] # "work"
        /\ \A u \in Workers \ {t} : rpc'[u] = rpc[u] /\ job'[u] = job[u]
        /\ UNCHANGED <<faults, locks>>
    BY <1>2 DEF Duplicate, BeginRun, Goes, Typed, RuntimeTyped, RuntimeTypeOK
  <2> QED
    BY <1>1, <2>1
<1>3. ASSUME NEW t \in Workers, RunAgent(t)
      PROVE  Quiet \/ Ensures(t) \/ Works(t)
  <2>1. ASSUME IndexRun(t) \/ LinkRun(t) PROVE Quiet
    <3>1. /\ rpc[t] # "work" /\ rpc'[t] # "work"
          /\ \A u \in Workers \ {t} : rpc'[u] = rpc[u] /\ job'[u] = job[u]
          /\ UNCHANGED <<faults, locks>>
      BY <2>1 DEF IndexRun, LinkRun, Goes, Typed, RuntimeTyped, RuntimeTypeOK
    <3> QED
      BY <1>1, <3>1
  <2> QED
    BY <1>3, <2>1 DEF RunAgent, Ensures, Works
<1>4. ASSUME NEW t \in Workers, Reply(t)
      PROVE  Quiet
  <2>1. /\ rpc[t] # "work" /\ rpc'[t] # "work"
        /\ \A u \in Workers \ {t} : rpc'[u] = rpc[u] /\ job'[u] = job[u]
        /\ UNCHANGED <<faults, locks>>
    BY <1>4 DEF Reply, Goes, Typed, RuntimeTyped, RuntimeTypeOK
  <2> QED
    BY <1>1, <2>1
<1>5. CASE NextSecond \/ FlipDb \/ TurnSwitches
  <2>1. mishaps \subseteq mishaps' /\ UNCHANGED <<redisUp, locks, rpc, job>>
    BY <1>5 DEF NextSecond, FlipDb, TurnSwitches, Mishap, faults
  <2> QED
    BY <2>1 DEF Quiet, Locked, LockOf
<1>6. ASSUME NEW t \in Workers, CreateFlowRecord(t)
      PROVE  Quiet
  BY <1>6 DEF CreateFlowRecord, Quiet, Locked, LockOf, faults
<1>7. CASE UNCHANGED runtimeVars
  BY <1>7 DEF runtimeVars, Quiet, Locked, LockOf, faults
<1> QED
  BY RuntimeSteps, <1>2, <1>3, <1>4, <1>5, <1>6, <1>7 DEF Environment

\* Taking the lock, and giving it up.
LEMMA EnsureSteps ==
  ASSUME Typed, NEW t \in Workers, Ensures(t)
  PROVE  \E w \in WfIds :
           LET lock == <<w, job[t].req.agent>> IN
           /\ ~Locked(t) /\ Locked(t)' = (redisUp /\ lock \notin locks) /\ LockOf(t)' = lock
           /\ locks' = IF redisUp THEN locks \cup {lock} ELSE locks
           /\ \A u \in Workers \ {t} : Locked(u)' = Locked(u) /\ LockOf(u)' = LockOf(u)
           /\ UNCHANGED <<mishaps, redisUp>>
<1>1. RuntimeTyped /\ RuntimeTypeOK /\ rpc[t] = "ensure" /\ rpc'[t] = "work"
      /\ (\A u \in Workers \ {t} : rpc'[u] = rpc[u]) /\ UNCHANGED <<mishaps, redisUp>>
  BY DEF Ensures, LoadRow, ShareObject, NewRecord, Goes, Typed, RuntimeTyped,
         RuntimeTypeOK, faults
<1>2. job[t] \in Job /\ job[t].call \in Calls /\ clock \in WfIds
  BY <1>1 DEF RuntimeTyped, RuntimeTypeOK, Busy
<1>3. PICK w \in WfIds, o \in Calls : Holds(t, w, o)
  <2>1. CASE LoadRow(t)
    <3>1. job[t].req.wf \in WfIds
      BY <1>2, <2>1, BoundsAssumption DEF LoadRow, HasRow, Job, Requests, WfIds
    <3> QED
      BY <1>2, <2>1, <3>1 DEF LoadRow
  <2>2. CASE ShareObject(t)
    <3>1. job[t].req.wf \in WfIds
      BY <1>2, <2>2, BoundsAssumption DEF ShareObject, HasObject, Job, Requests, WfIds
    <3>2. memWf[job[t].req.wf] \in Calls
      BY <1>1, <2>2, <3>1, BoundsAssumption DEF ShareObject, HasObject, RuntimeTypeOK, Calls
    <3> QED
      BY <2>2, <3>1, <3>2 DEF ShareObject
  <2>3. CASE NewRecord(t)
    BY <1>2, <2>3 DEF NewRecord
  <2> QED
    BY <2>1, <2>2, <2>3 DEF Ensures
<1>4. /\ job'[t].req = job[t].req /\ job'[t].wf = w
      /\ job'[t].locked = (redisUp /\ <<w, job[t].req.agent>> \notin locks)
      /\ \A u \in Workers \ {t} : job'[u] = job[u]
  BY <1>1, <1>3, HoldsTyped
<1>5. locks' = IF redisUp THEN locks \cup {<<w, job[t].req.agent>>} ELSE locks
  BY <1>3 DEF Holds
<1>6. ~Locked(t) /\ LockOf(t)' = <<w, job[t].req.agent>>
  BY <1>1, <1>4 DEF Locked, LockOf
<1>7. Locked(t)' = (redisUp /\ <<w, job[t].req.agent>> \notin locks)
  BY <1>1, <1>4 DEF Locked
<1>8. \A u \in Workers \ {t} : Locked(u)' = Locked(u) /\ LockOf(u)' = LockOf(u)
  BY <1>1, <1>4 DEF Locked, LockOf
<1> QED
  BY <1>1, <1>5, <1>6, <1>7, <1>8

LEMMA WorkSteps ==
  ASSUME Typed, NEW t \in Workers, Works(t)
  PROVE  /\ ~Locked(t)' /\ (Locked(t) <=> job[t].locked)
         /\ locks' = IF job[t].locked /\ redisUp THEN locks \ {LockOf(t)} ELSE locks
         /\ \A u \in Workers \ {t} : Locked(u)' = Locked(u) /\ LockOf(u)' = LockOf(u)
         /\ UNCHANGED <<mishaps, redisUp>>
<1>1. /\ rpc[t] = "work" /\ rpc'[t] # "work"
      /\ \A u \in Workers \ {t} : rpc'[u] = rpc[u] /\ job'[u] = job[u]
  BY WrapperTyped DEF Works, Typed
<1>2. /\ locks' = IF job[t].locked /\ redisUp THEN locks \ {LockOf(t)} ELSE locks
      /\ UNCHANGED <<mishaps, redisUp>>
  BY DEF Works, WrapperReturns, WrapperRaises, ReleaseLock, faults
<1> QED
  BY <1>1, <1>2 DEF Locked, LockOf

\* Why two runs never both hold a lock: the lock of a run that holds one is in Redis,
\* and a lock in Redis is not given out again.
LockInv ==
  "expiry" \notin mishaps =>
    /\ \A t \in Workers : Locked(t) => LockOf(t) \in locks
    /\ \A t, u \in Workers : Locked(t) /\ Locked(u) /\ LockOf(t) = LockOf(u) => t = u

LEMMA LockNext == Typed /\ LockInv /\ [WorkflowNext]_workflowVars => LockInv'
<1> SUFFICES ASSUME Typed, LockInv, [WorkflowNext]_workflowVars PROVE LockInv'
  OBVIOUS
<1>1. CASE Quiet
  BY <1>1 DEF Quiet, LockInv
<1>2. ASSUME NEW t \in Workers, Ensures(t) PROVE LockInv'
  <2>1. PICK w \in WfIds :
          LET lock == <<w, job[t].req.agent>> IN
          /\ ~Locked(t) /\ Locked(t)' = (redisUp /\ lock \notin locks) /\ LockOf(t)' = lock
          /\ locks' = IF redisUp THEN locks \cup {lock} ELSE locks
          /\ \A u \in Workers \ {t} : Locked(u)' = Locked(u) /\ LockOf(u)' = LockOf(u)
          /\ UNCHANGED <<mishaps, redisUp>>
    BY <1>2, EnsureSteps
  <2> SUFFICES ASSUME "expiry" \notin mishaps'
               PROVE  /\ \A u \in Workers : Locked(u)' => LockOf(u)' \in locks'
                      /\ \A u, v \in Workers :
                           Locked(u)' /\ Locked(v)' /\ LockOf(u)' = LockOf(v)' => u = v
    BY DEF LockInv
  <2>2. /\ \A u \in Workers : Locked(u) => LockOf(u) \in locks
        /\ \A u, v \in Workers : Locked(u) /\ Locked(v) /\ LockOf(u) = LockOf(v) => u = v
    BY <2>1 DEF LockInv
  <2> DEFINE lock == <<w, job[t].req.agent>>
  <2>3. /\ locks \subseteq locks' /\ (redisUp => lock \in locks')
        /\ Locked(t)' => redisUp /\ lock \notin locks
    BY <2>1
  <2>4. /\ LockOf(t)' = lock
        /\ \A u \in Workers \ {t} : Locked(u)' = Locked(u) /\ LockOf(u)' = LockOf(u)
    BY <2>1
  <2> HIDE DEF lock
  <2>5. \A u \in Workers \ {t} : Locked(u)' => LockOf(u)' \in locks
    BY <2>2, <2>4
  <2>6. \A u \in Workers : Locked(u)' => LockOf(u)' \in locks'
    BY <2>3, <2>4, <2>5
  <2>7. ASSUME NEW u \in Workers, NEW v \in Workers,
               Locked(u)', Locked(v)', LockOf(u)' = LockOf(v)'
        PROVE  u = v
    BY <2>2, <2>3, <2>4, <2>5, <2>7
  <2> QED
    BY <2>6, <2>7
<1>3. ASSUME NEW t \in Workers, Works(t) PROVE LockInv'
  BY <1>3, WorkSteps DEF LockInv
<1>4. CASE LockExpires
  BY <1>4 DEF LockExpires, Mishap, LockInv
<1>5. CASE FlipRedis
  BY <1>5 DEF FlipRedis, Mishap, LockInv, Locked, LockOf
<1>6. CASE RestartRuntime
  BY <1>6 DEF RestartRuntime, Mishap, LockInv, Locked
<1> QED
  BY LockSteps, <1>1, <1>2, <1>3, <1>4, <1>5, <1>6

\* Two runs that both believe they hold the lock are never inside the same agent of
\* the same workflow, as long as no lock has outlived its 60 s (acquire_agent_lock and
\* release_agent_lock), whether Redis or the process goes away or not.
THEOREM LockExcludes == WorkflowSpec => []LockExclusive
<1>1. WorkflowInit => LockInv
  BY DEF WorkflowInit, RuntimeInit, LockInv, Locked
<1>2. LockInv => LockExclusive
  BY DEF LockInv, LockExclusive, Locked
<1> QED
  BY <1>1, <1>2, InitTyped, NextTyped, LockNext, PTL DEF WorkflowSpec

\* Why no lock is left behind: every lock in Redis is held by a run inside its wrapper,
\* and without Redis there are none.
LeakInv ==
  mishaps \cap {"redis", "restart"} = {} =>
    /\ ~redisUp => locks = {}
    /\ \A k \in locks : \E t \in Workers : Locked(t) /\ LockOf(t) = k

LEMMA LeakNext == Typed /\ LeakInv /\ [WorkflowNext]_workflowVars => LeakInv'
<1> SUFFICES ASSUME Typed, LeakInv, [WorkflowNext]_workflowVars,
                    mishaps' \cap {"redis", "restart"} = {}
             PROVE  /\ ~redisUp' => locks' = {}
                    /\ \A k \in locks' : \E t \in Workers : Locked(t)' /\ LockOf(t)' = k
  BY DEF LeakInv
<1>1. CASE Quiet
  BY <1>1 DEF Quiet, LeakInv
<1>2. ASSUME NEW t \in Workers, Ensures(t)
      PROVE  /\ ~redisUp' => locks' = {}
             /\ \A k \in locks' : \E u \in Workers : Locked(u)' /\ LockOf(u)' = k
  <2>1. PICK w \in WfIds :
          LET lock == <<w, job[t].req.agent>> IN
          /\ ~Locked(t) /\ Locked(t)' = (redisUp /\ lock \notin locks) /\ LockOf(t)' = lock
          /\ locks' = IF redisUp THEN locks \cup {lock} ELSE locks
          /\ \A u \in Workers \ {t} : Locked(u)' = Locked(u) /\ LockOf(u)' = LockOf(u)
          /\ UNCHANGED <<mishaps, redisUp>>
    BY <1>2, EnsureSteps
  <2>2. /\ ~redisUp => locks = {}
        /\ \A k \in locks : \E u \in Workers : Locked(u) /\ LockOf(u) = k
    BY <2>1 DEF LeakInv
  <2>3. \A k \in locks : \E u \in Workers : Locked(u)' /\ LockOf(u)' = k
    BY <2>1, <2>2
  <2> QED
    BY <2>1, <2>2, <2>3
<1>3. ASSUME NEW t \in Workers, Works(t)
      PROVE  /\ ~redisUp' => locks' = {}
             /\ \A k \in locks' : \E u \in Workers : Locked(u)' /\ LockOf(u)' = k
  BY <1>3, WorkSteps DEF LeakInv
<1>4. CASE LockExpires
  BY <1>4 DEF LockExpires, Mishap, LeakInv, Locked, LockOf
<1>5. CASE FlipRedis
  BY <1>5 DEF FlipRedis, Mishap
<1>6. CASE RestartRuntime
  BY <1>6 DEF RestartRuntime, Mishap
<1> QED
  BY LockSteps, <1>1, <1>2, <1>3, <1>4, <1>5, <1>6

\* A run that is over has left no lock behind, whether its wrapper returned or raised
\* (the release in the finally block of create_agent_run), unless the process stopped
\* or Redis went away.
THEOREM LockIsReleased == WorkflowSpec => []LockNotLeaked
<1>1. WorkflowInit => LeakInv
  BY DEF WorkflowInit, RuntimeInit, LeakInv
<1>2. LeakInv => LockNotLeaked
  BY DEF LeakInv, LockNotLeaked, Locked
<1> QED
  BY <1>1, <1>2, InitTyped, NextTyped, LeakNext, PTL DEF WorkflowSpec

----------------------------------------------------------------------------
(* The execution boundary *)

Waits(t) == flow[t].boundary /\ flow[t].opt.human /\ ~flow[t].opt.dry

\* Why no agent runs past the boundary: from there a run only persists its response.
BoundaryInv ==
  \A t \in Workers : Waits(t) => rpc[t] = "idle" /\ flow[t].at = "persist"

\* One worker moves.
LEMMA BoundaryKept ==
  ASSUME BoundaryInv, NEW t \in Workers,
         Waits(t)' => rpc'[t] = "idle" /\ flow'[t].at = "persist",
         \A u \in Workers \ {t} : rpc'[u] = rpc[u] /\ flow'[u] = flow[u]
  PROVE  BoundaryInv'
BY DEF BoundaryInv, Waits

LEMMA BoundaryNext == Typed /\ BoundaryInv /\ [WorkflowNext]_workflowVars => BoundaryInv'
<1> SUFFICES ASSUME Typed, BoundaryInv, [WorkflowNext]_workflowVars PROVE BoundaryInv'
  OBVIOUS
<1>1. ASSUME NEW t \in Workers, NEW opt \in Options, NEW rejected \in BOOLEAN,
             StartFlow(t, opt, rejected)
      PROVE  BoundaryInv'
  <2>1. flow'[t].boundary = FALSE /\ \A u \in Workers \ {t} : flow'[u] = flow[u]
    BY <1>1, StartTyped
  <2>2. rpc' = rpc
    BY <1>1 DEF StartFlow, runtimeVars
  <2> QED
    BY <2>1, <2>2, BoundaryKept DEF Waits
<1>2. ASSUME NEW t \in Workers, Govern(t) \/ CreateFlowRecord(t)
      PROVE  BoundaryInv'
  <2>1. /\ flow'[t].boundary = flow[t].boundary /\ flow'[t].opt = flow[t].opt
        /\ \A u \in Workers \ {t} : flow'[u] = flow[u]
    BY <1>2, GovernTyped, CreateTyped
  <2>2. rpc' = rpc /\ flow[t].at # "persist"
    BY <1>2 DEF Govern, CreateFlowRecord, At, runtimeVars
  <2>3. ~Waits(t)'
    BY <2>1, <2>2 DEF BoundaryInv, Waits
  <2> QED
    BY <2>1, <2>2, <2>3, BoundaryKept
<1>3. ASSUME NEW t \in Workers, flow' = flow, ~Waits(t),
             \A u \in Workers \ {t} : rpc'[u] = rpc[u]
      PROVE  BoundaryInv'
  BY <1>3, BoundaryKept DEF Waits
<1>4. ASSUME NEW t \in Workers, BeginStage(t)
      PROVE  BoundaryInv'
  <2>1. flow[t].at # "persist" /\ flow' = flow
    BY <1>4 DEF BeginStage, At, flowVars
  <2>2. \A u \in Workers \ {t} : rpc'[u] = rpc[u]
    BY <1>4 DEF BeginStage, BeginRun, Goes, Typed, RuntimeTyped, RuntimeTypeOK
  <2> QED
    BY <1>3, <2>1, <2>2 DEF BoundaryInv
<1>5. ASSUME NEW t \in Workers, NEW found \in BOOLEAN, StageReturns(t, found)
      PROVE  BoundaryInv'
  <2>1. /\ flow'[t].opt = flow[t].opt
        /\ flow'[t].boundary = (flow[t].boundary \/ Plan[flow[t].stage] = ApprovalAgent)
        /\ Plan[flow[t].stage] = ApprovalAgent /\ flow[t].opt.human /\ ~flow[t].opt.dry
             => flow'[t].at = "persist"
        /\ \A u \in Workers \ {t} : flow'[u] = flow[u]
    BY <1>5, ReturnTyped
  <2>2. /\ rpc'[t] = "idle" /\ flow[t].at # "persist"
        /\ \A u \in Workers \ {t} : rpc'[u] = rpc[u]
    BY <1>5 DEF StageReturns, Reply, Goes, Typed, RuntimeTyped, RuntimeTypeOK
  <2>3. ~Waits(t)
    BY <2>2 DEF BoundaryInv
  <2>4. Waits(t)' => flow'[t].at = "persist"
    BY <2>1, <2>3 DEF Waits
  <2> QED
    BY <2>1, <2>2, <2>4, BoundaryKept
<1>6. ASSUME NEW t \in Workers, StageRaises(t)
      PROVE  BoundaryInv'
  <2>1. flow'[t].at = "persist" /\ \A u \in Workers \ {t} : flow'[u] = flow[u]
    BY <1>6, RaiseTyped
  <2>2. rpc'[t] = "idle" /\ \A u \in Workers \ {t} : rpc'[u] = rpc[u]
    BY <1>6 DEF StageRaises, Reply, Goes, Typed, RuntimeTyped, RuntimeTypeOK
  <2> QED
    BY <2>1, <2>2, BoundaryKept
<1>7. ASSUME NEW t \in Workers, PersistFlow(t)
      PROVE  BoundaryInv'
  <2>1. flow'[t] = IdleFlow /\ \A u \in Workers \ {t} : flow'[u] = flow[u]
    BY <1>7, PersistTyped
  <2>2. rpc' = rpc /\ ~Waits(t)'
    BY <1>7, <2>1 DEF PersistFlow, runtimeVars, Waits, IdleFlow
  <2> QED
    BY <2>1, <2>2, BoundaryKept
<1>8. ASSUME NEW t \in Workers, ApprovalItemCreated(t) \/ RunAgentStep(t)
      PROVE  BoundaryInv'
  <2>1. /\ rpc[t] # "idle" /\ flow' = flow
        /\ \A u \in Workers \ {t} : rpc'[u] = rpc[u]
    BY <1>8 DEF ApprovalItemCreated, RunAgentStep, RunAgent, LoadRow, ShareObject, NewRecord,
         WrapperReturns, WrapperRaises, IndexRun, LinkRun, Goes, flowVars,
         Typed, RuntimeTyped, RuntimeTypeOK
  <2> QED
    BY <1>3, <2>1 DEF BoundaryInv
<1>9. ASSUME NEW t \in Workers, flow[t].at = "idle", flow' = flow,
             \A u \in Workers \ {t} : rpc'[u] = rpc[u]
      PROVE  BoundaryInv'
  BY <1>3, <1>9 DEF BoundaryInv
<1>10. ASSUME NEW t \in Workers, NEW agent \in ClientAgents, NEW wf \in 0 .. clock,
              ClientAsks(t, agent, wf)
       PROVE  BoundaryInv'
  <2>1. /\ flow[t].at = "idle" /\ flow' = flow
        /\ \A u \in Workers \ {t} : rpc'[u] = rpc[u]
    BY <1>10 DEF ClientAsks, Duplicate, BeginRun, Goes, Typed, RuntimeTyped, RuntimeTypeOK
  <2> QED
    BY <1>9, <2>1
<1>11. ASSUME NEW t \in Workers, ClientReply(t)
       PROVE  BoundaryInv'
  <2>1. /\ flow[t].at = "idle" /\ flow' = flow
        /\ \A u \in Workers \ {t} : rpc'[u] = rpc[u]
    BY <1>11 DEF ClientReply, Reply, Goes, flowVars, Typed, RuntimeTyped, RuntimeTypeOK
  <2> QED
    BY <1>9, <2>1
<1>12. CASE rpc' = rpc /\ flow' = flow
  BY <1>12 DEF BoundaryInv, Waits
<1>13. CASE RestartFlows
  BY <1>13 DEF RestartFlows, BoundaryInv, Waits, IdleFlow
<1>14. CASE Environment /\ UNCHANGED flowVars
  BY <1>12, <1>14 DEF Environment, NextSecond, LockExpires, FlipRedis, FlipDb, flowVars
<1>15. CASE ListFlows \/ TurnSwitches \/ UNCHANGED workflowVars
  BY <1>12, <1>15 DEF ListFlows, TurnSwitches, workflowVars, flowVars, runtimeVars
<1> QED
  BY <1>1, <1>2, <1>4, <1>5, <1>6, <1>7, <1>8, <1>10, <1>11, <1>13, <1>14, <1>15
  DEF WorkflowNext, FlowStep

\* Past the execution boundary, a run that requires a human and is not a dry run runs no
\* agent: run_workflow leaves its loop there, whatever the plan and the stage it was
\* asked to stop at.
THEOREM BoundaryIsFinal == WorkflowSpec => []BoundaryHolds
<1>1. WorkflowInit => BoundaryInv
  BY DEF WorkflowInit, BoundaryInv, Waits, IdleFlow
<1>2. BoundaryInv => BoundaryHolds
  BY DEF BoundaryInv, BoundaryHolds, Waits
<1> QED
  BY <1>1, <1>2, InitTyped, NextTyped, BoundaryNext, PTL DEF WorkflowSpec

----------------------------------------------------------------------------
(* The index of finished runs *)

\* Why a repeat runs nothing: as long as Postgres is stable, every index names a run
\* that has a row, because the row is written before the index.
IndexInv ==
  /\ IndexNamesRun
  /\ DbStable => \A t \in Workers : rpc[t] = "index" => job[t].call \in dbRuns

LEMMA LookupNamesRun ==
  ASSUME RuntimeTypeOK, IndexNamesRun, DbStable, NEW r \in Requests
  PROVE  /\ Lookup(r) \in dbRuns \cup {0}
         /\ Lookup(r) # 0 => Retrievable(Lookup(r))
         /\ Lookup(r) = 0 => dbIndex[r] = 0
BY DEF IndexNamesRun, DbStable, Lookup, Retrievable

\* A request that is looked up.
LEMMA AsksKeepIndex ==
  ASSUME Typed, IndexInv, NEW t \in Workers, NEW r \in Requests,
         Duplicate(t, r) \/ BeginRun(t, r)
  PROVE  IndexInv'
<1> SUFFICES ASSUME DbStable'
             PROVE  IndexInv'
  BY DEF IndexInv, IndexNamesRun
<1>1. RuntimeTypeOK
  BY DEF Typed, RuntimeTyped
<1>2. DbStable /\ UNCHANGED <<dbRuns, dbIndex, redisIndex>>
  BY DEF DbStable, Duplicate, BeginRun, faults
<1>3. memIndex' = [memIndex EXCEPT ![r] = IF Lookup(r) # 0 THEN Lookup(r) ELSE @]
  BY DEF Duplicate, BeginRun, WarmIndex
<1>4. Lookup(r) \in dbRuns \cup {0}
  BY <1>1, <1>2, LookupNamesRun DEF IndexInv
<1>5. \A q \in Requests : memIndex'[q] \in dbRuns \cup {0}
  BY <1>1, <1>2, <1>3, <1>4 DEF IndexInv, IndexNamesRun, RuntimeTypeOK
<1>6. IndexNamesRun'
  BY <1>2, <1>5 DEF IndexInv, IndexNamesRun
<1>7. /\ rpc'[t] # "index"
      /\ \A u \in Workers \ {t} : rpc'[u] = rpc[u] /\ job'[u] = job[u]
  BY <1>1 DEF Duplicate, BeginRun, Goes, RuntimeTypeOK
<1> QED
  BY <1>2, <1>6, <1>7 DEF IndexInv

\* A step of create_agent_run after the lookup.
LEMMA RunKeepsIndex ==
  ASSUME Typed, IndexInv, NEW t \in Workers, RunAgent(t) \/ Reply(t)
  PROVE  IndexInv'
<1> SUFFICES ASSUME DbStable'
             PROVE  IndexInv'
  BY DEF IndexInv, IndexNamesRun
<1>1. RuntimeTypeOK /\ RuntimeTyped
  BY DEF Typed, RuntimeTyped
<1>2. DbStable
  BY DEF DbStable, RunAgent, LoadRow, ShareObject, NewRecord, WrapperReturns, WrapperRaises,
         IndexRun, LinkRun, Reply, faults
<1>3. ASSUME UNCHANGED <<dbRuns, dbIndex, redisIndex, memIndex>>, rpc'[t] # "index",
             \A u \in Workers \ {t} : rpc'[u] = rpc[u] /\ job'[u] = job[u]
      PROVE  IndexInv'
  BY <1>2, <1>3 DEF IndexInv, IndexNamesRun
<1>4. CASE LoadRow(t) \/ ShareObject(t) \/ NewRecord(t)
  <2>1. /\ rpc'[t] # "index" /\ \A u \in Workers \ {t} : rpc'[u] = rpc[u]
        /\ UNCHANGED <<dbRuns, dbIndex, redisIndex, memIndex>>
    BY <1>1, <1>4 DEF LoadRow, ShareObject, NewRecord, Goes, RuntimeTypeOK, stores
  <2>2. \A u \in Workers \ {t} : job'[u] = job[u]
    BY <1>1, <1>4 DEF LoadRow, ShareObject, NewRecord, Holds, RuntimeTypeOK
  <2> QED
    BY <1>3, <2>1, <2>2
<1>5. CASE WrapperReturns(t)
  <2>1. /\ job'[t].call = job[t].call
        /\ \A u \in Workers \ {t} : rpc'[u] = rpc[u] /\ job'[u] = job[u]
    BY <1>1, <1>5, WrapperTyped
  <2>2. dbRuns' = dbRuns \cup {job[t].call} /\ UNCHANGED <<dbIndex, redisIndex, memIndex>>
    BY <1>2, <1>5 DEF WrapperReturns, DbStable
  <2>3. IndexNamesRun'
    BY <1>2, <2>2 DEF IndexInv, IndexNamesRun
  <2> QED
    BY <1>2, <2>1, <2>2, <2>3 DEF IndexInv
<1>6. CASE WrapperRaises(t)
  <2>1. \A u \in Workers \ {t} : rpc'[u] = rpc[u] /\ job'[u] = job[u]
    BY <1>1, <1>6, WrapperTyped
  <2>2. rpc'[t] # "index" /\ UNCHANGED <<dbRuns, dbIndex, redisIndex, memIndex>>
    BY <1>1, <1>6 DEF WrapperRaises, Goes, RuntimeTypeOK, stores
  <2> QED
    BY <1>3, <2>1, <2>2
<1>7. CASE IndexRun(t)
  <2>1. /\ job[t].call \in dbRuns /\ job' = job /\ dbRuns' = dbRuns
        /\ rpc'[t] # "index" /\ \A u \in Workers \ {t} : rpc'[u] = rpc[u]
    BY <1>1, <1>2, <1>7 DEF IndexRun, Goes, IndexInv, RuntimeTypeOK
  <2>2. \A q \in Requests :
          /\ memIndex'[q] \in {memIndex[q], job[t].call}
          /\ redisIndex'[q] \in {redisIndex[q], job[t].call}
          /\ dbIndex'[q] \in {dbIndex[q], job[t].call}
    BY <1>1, <1>7 DEF IndexRun, RuntimeTypeOK
  <2>3. IndexNamesRun'
    BY <1>2, <2>1, <2>2 DEF IndexInv, IndexNamesRun
  <2> QED
    BY <1>2, <2>1, <2>3 DEF IndexInv
<1>8. CASE LinkRun(t)
  BY <1>1, <1>3, <1>8 DEF LinkRun, Goes, RuntimeTypeOK
<1>9. CASE Reply(t)
  BY <1>1, <1>3, <1>9 DEF Reply, Goes, RuntimeTypeOK, stores
<1> QED
  BY <1>4, <1>5, <1>6, <1>7, <1>8, <1>9 DEF RunAgent

LEMMA IndexNext == Typed /\ IndexInv /\ [WorkflowNext]_workflowVars => IndexInv'
<1> SUFFICES ASSUME Typed, IndexInv, [WorkflowNext]_workflowVars PROVE IndexInv'
  OBVIOUS
<1>1. CASE UNCHANGED runtimeVars
  BY <1>1 DEF runtimeVars, stores, faults, IndexInv, IndexNamesRun, DbStable
<1>2. CASE Environment \/ TurnSwitches
  <2>1. /\ DbStable' => DbStable
        /\ UNCHANGED <<dbRuns, dbIndex, redisIndex, memIndex, rpc, job>>
    BY <1>2 DEF Environment, NextSecond, LockExpires, FlipRedis, FlipDb, TurnSwitches, Mishap,
                DbStable, faults, stores
  <2> QED
    BY <2>1 DEF IndexInv, IndexNamesRun
<1>3. CASE RestartRuntime
  <2>1. /\ DbStable' => DbStable
        /\ UNCHANGED <<dbRuns, dbIndex, redisIndex>>
        /\ \A r \in Requests : memIndex'[r] = 0
        /\ \A t \in Workers : rpc'[t] # "index"
    BY <1>3 DEF RestartRuntime, Mishap, DbStable
  <2> QED
    BY <2>1 DEF IndexInv, IndexNamesRun
<1>4. ASSUME NEW t \in Workers, CreateFlowRecord(t)
      PROVE  IndexInv'
  BY <1>4 DEF CreateFlowRecord, faults, IndexInv, IndexNamesRun, DbStable
<1> QED
  BY RuntimeSteps, AsksKeepIndex, RunKeepsIndex, <1>1, <1>2, <1>3, <1>4

\* A step that sends a worker into a run.
LEMMA OnlyBeginEnsures ==
  ASSUME Typed, [WorkflowNext]_workflowVars, NEW t \in Workers,
         rpc[t] = "idle", rpc'[t] = "ensure"
  PROVE  \E r \in Requests : BeginRun(t, r)
<1>1. rpc \in [Workers -> RPCs]
  BY DEF Typed, RuntimeTyped, RuntimeTypeOK
<1>2. ASSUME NEW u \in Workers, NEW r \in Requests, Duplicate(u, r) \/ BeginRun(u, r)
      PROVE  BeginRun(t, r)
  BY <1>1, <1>2 DEF Duplicate, BeginRun, Goes
<1>3. ASSUME NEW u \in Workers, RunAgent(u)
      PROVE  FALSE
  BY <1>1, <1>3 DEF RunAgent, LoadRow, ShareObject, NewRecord, WrapperReturns, WrapperRaises,
         IndexRun, LinkRun, Goes
<1>4. ASSUME NEW u \in Workers, Reply(u)
      PROVE  FALSE
  BY <1>1, <1>4 DEF Reply, Goes
<1>5. CASE UNCHANGED runtimeVars
  BY <1>5 DEF runtimeVars
<1>6. CASE Environment \/ TurnSwitches \/ RestartRuntime
  BY <1>6 DEF Environment, NextSecond, LockExpires, FlipRedis, FlipDb, TurnSwitches,
              RestartRuntime
<1>7. ASSUME NEW u \in Workers, CreateFlowRecord(u)
      PROVE  FALSE
  BY <1>7 DEF CreateFlowRecord
<1> QED
  BY RuntimeSteps, <1>2, <1>3, <1>4, <1>5, <1>6, <1>7

\* As long as Postgres has not failed, a request whose run has been indexed is never
\* executed again (the lookup at the start of create_agent_run), across restarts, Redis
\* outages and concurrent calls.
THEOREM RepeatsAreAnswered == WorkflowSpec => RepeatRunsNothing
<1>1. WorkflowInit => IndexInv
  BY DEF WorkflowInit, RuntimeInit, IndexInv, IndexNamesRun
<1>2. ASSUME Typed, IndexInv, [WorkflowNext]_workflowVars,
             NEW t \in Workers, rpc[t] = "idle", rpc'[t] = "ensure", DbStable
      PROVE  dbIndex[job'[t].req] = 0
  <2>1. PICK r \in Requests : BeginRun(t, r)
    BY <1>2, OnlyBeginEnsures
  <2>2. job \in [Workers -> Job] /\ calls + 1 \in 0 .. MaxCalls /\ RuntimeTypeOK
    <3>1. calls < MaxCalls /\ calls \in 0 .. MaxCalls /\ RuntimeTypeOK
      BY <1>2, <2>1 DEF BeginRun, Typed, RuntimeTyped, RuntimeTypeOK
    <3> QED
      BY <3>1, Bounds DEF RuntimeTypeOK
  <2>3. job' = [job EXCEPT ![t] = [IdleJob EXCEPT !.req = r, !.call = calls + 1]]
    BY <2>1 DEF BeginRun
  <2>4. job'[t].req = r
    BY <2>2, <2>3, JobBeginsAnew
  <2>5. Lookup(r) = 0 \/ ~Retrievable(Lookup(r))
    BY <2>1 DEF BeginRun
  <2>6. dbIndex[r] = 0
    BY <1>2, <2>2, <2>5, LookupNamesRun DEF IndexInv
  <2> QED
    BY <2>4, <2>6
<1>3. Typed /\ IndexInv /\ [WorkflowNext]_workflowVars
        => [\A t \in Workers :
              rpc[t] = "idle" /\ rpc'[t] = "ensure" /\ DbStable
                => dbIndex[job'[t].req] = 0]_runtimeVars
  BY <1>2
<1> QED
  BY <1>1, <1>3, InitTyped, NextTyped, IndexNext, PTL DEF WorkflowSpec, RepeatRunsNothing

----------------------------------------------------------------------------
(* The records of the workflows *)

\* A run that has its number, and one that holds the object of a record.
Running(t)  == rpc[t] \in {"ensure", "work", "index", "link"}
Attached(t) == rpc[t] \in {"work", "index", "link"}

\* The numbers of runs in progress are their own, and not linked yet.
CallsInv ==
  /\ \A t \in Workers : Running(t) => job[t].call <= calls /\ linked[job[t].call] = 0
  /\ \A t, u \in Workers : Running(t) /\ Running(u) /\ job[t].call = job[u].call => t = u
  /\ \A c \in Calls : c > calls => linked[c] = 0

\* The object a run is about to create or load is not in use.
ObjectsInv ==
  /\ \A w \in WfIds : memWf[w] <= calls
  /\ \A t \in Workers : Attached(t) => job[t].obj <= calls
  /\ \A t \in Workers : rpc[t] = "ensure" =>
       /\ \A w \in WfIds : memWf[w] # job[t].call
       /\ \A u \in Workers : Attached(u) => job[u].obj # job[t].call

\* Nobody uses an id that was never given out.
BirthsInv ==
  /\ \A w \in WfIds : memWf[w] # 0 \/ dbWf[w] # NoRow => births[w] >= 1
  /\ \A c \in Calls : linked[c] # 0 => births[linked[c]] >= 1
  /\ \A t \in Workers : Attached(t) => births[job[t].wf] >= 1

\* Two runs on one record know of each other.
SharersInv ==
  \A t, u \in Workers :
    Attached(t) /\ Attached(u) /\ job[t].wf = job[u].wf /\ t # u => job[t].call \in rivals

\* With Postgres up, every object is a copy: the row and the copies of a record differ
\* by runs of rivals only.
RowsInv ==
  /\ \A w \in WfIds : memWf[w] # 0 => dbWf[w] # NoRow
  /\ \A t \in Workers : Attached(t) => job[t].obj = job[t].call
  /\ \A c \in Calls :
       linked[c] # 0 /\ births[linked[c]] <= 1 => c \in dbWf[linked[c]] \cup rivals
  /\ \A c \in Calls, t \in Workers :
       Attached(t) /\ linked[c] = job[t].wf /\ births[linked[c]] <= 1
         => c \in objects[job[t].obj] \cup rivals

\* With Postgres down there is one object per record, the one in memory.
MemoryInv ==
  /\ \A w \in WfIds : dbWf[w] = NoRow
  /\ \A t \in Workers :
       Attached(t) /\ births[job[t].wf] <= 1 => job[t].obj = memWf[job[t].wf]
  /\ \A c \in Calls :
       linked[c] # 0 /\ births[linked[c]] <= 1 /\ memWf[linked[c]] # 0
         => c \in objects[memWf[linked[c]]]

\* Why a finished run is found in its record: a record has one object, or copies that
\* lack nothing but rivals.
RecordInv ==
  /\ CallsInv /\ ObjectsInv /\ BirthsInv /\ SharersInv
  /\ "db" \notin mishaps => (dbUp => RowsInv) /\ (~dbUp => MemoryInv)

\* What the runtime's types say of a worker.
LEMMA WorkerTyped ==
  ASSUME RuntimeTyped
  PROVE  /\ calls \in Nat /\ Calls \subseteq Nat \ {0}
         /\ WfIds \subseteq Nat \ {0} /\ clock \in WfIds
         /\ \A c \in Calls : linked[c] # 0 => linked[c] \in WfIds
         /\ \A w \in WfIds : memWf[w] # 0 => memWf[w] \in Calls
         /\ \A t \in Workers :
              /\ Running(t) => job[t].call \in Calls
              /\ Attached(t) => job[t].obj \in Calls /\ job[t].wf \in WfIds
<1>1. RuntimeTypeOK
  BY DEF RuntimeTyped
<1>2. calls \in Nat /\ Calls \subseteq Nat \ {0} /\ WfIds \subseteq Nat \ {0} /\ clock \in WfIds
  BY <1>1, Bounds DEF RuntimeTypeOK, Calls, WfIds
<1>3. \A c \in Calls : linked[c] # 0 => linked[c] \in WfIds
  BY <1>1, Bounds DEF RuntimeTypeOK, WfIds
<1>4. \A w \in WfIds : memWf[w] # 0 => memWf[w] \in Calls
  BY <1>1, Bounds DEF RuntimeTypeOK, Calls
<1> QED
  BY <1>2, <1>3, <1>4 DEF RuntimeTyped, Busy, Running, Attached

\* A step that touches no record and starts no run.
LEMMA RecordStays ==
  ASSUME Typed, RecordInv, calls' \in Nat, calls <= calls',
         UNCHANGED <<memWf, objects, dbWf, linked, rivals, births>>,
         "db" \notin mishaps' => "db" \notin mishaps /\ dbUp' = dbUp,
         \A u \in Workers :
           /\ Running(u)' => Running(u) /\ job'[u].call = job[u].call
           /\ rpc'[u] = "ensure" => rpc[u] = "ensure"
           /\ Attached(u)' => Attached(u) /\ job'[u].wf = job[u].wf /\ job'[u].obj = job[u].obj
  PROVE  RecordInv'
<1>1. /\ calls \in Nat
      /\ \A w \in WfIds : memWf[w] \in Nat
      /\ \A c \in Calls : c \in Nat
      /\ \A t \in Workers : /\ Running(t) => job[t].call \in Calls
                            /\ Attached(t) => job[t].obj \in Calls
  <2>1. RuntimeTyped /\ RuntimeTypeOK
    BY DEF Typed, RuntimeTyped
  <2> QED
    BY <2>1, WorkerTyped DEF RuntimeTypeOK
<1>2. \A u \in Workers : Attached(u) => Running(u)
  BY DEF Attached, Running
<1>3. CallsInv'
  <2>1. \A u \in Workers : Running(u)' => job'[u].call <= calls' /\ linked'[job'[u].call] = 0
    BY <1>1 DEF RecordInv, CallsInv
  <2>2. \A u, v \in Workers :
          Running(u)' /\ Running(v)' /\ job'[u].call = job'[v].call => u = v
    BY DEF RecordInv, CallsInv
  <2>3. \A c \in Calls : c > calls' => linked'[c] = 0
    BY <1>1 DEF RecordInv, CallsInv
  <2> QED
    BY <2>1, <2>2, <2>3 DEF CallsInv
<1>4. ObjectsInv'
  <2>1. \A w \in WfIds : memWf'[w] <= calls'
    BY <1>1 DEF RecordInv, ObjectsInv
  <2>2. \A u \in Workers : Attached(u)' => job'[u].obj <= calls'
    BY <1>1, <1>2 DEF RecordInv, ObjectsInv
  <2>3. \A t \in Workers : rpc'[t] = "ensure" =>
          /\ \A w \in WfIds : memWf'[w] # job'[t].call
          /\ \A u \in Workers : Attached(u)' => job'[u].obj # job'[t].call
    BY DEF RecordInv, ObjectsInv, Running
  <2> QED
    BY <2>1, <2>2, <2>3 DEF ObjectsInv
<1>5. BirthsInv' /\ SharersInv'
  <2>1. BirthsInv'
    BY DEF RecordInv, BirthsInv
  <2>2. \A u \in Workers : Attached(u)' => Running(u)'
    BY DEF Attached, Running
  <2>3. SharersInv'
    BY <2>2 DEF RecordInv, SharersInv
  <2> QED
    BY <2>1, <2>3
<1>6. ASSUME "db" \notin mishaps', dbUp' PROVE RowsInv'
  <2>1. RowsInv
    BY <1>6 DEF RecordInv
  <2>2. \A u \in Workers : Attached(u)' => Running(u)'
    BY DEF Attached, Running
  <2>3. /\ \A w \in WfIds : memWf'[w] # 0 => dbWf'[w] # NoRow
        /\ \A t \in Workers : Attached(t)' => job'[t].obj = job'[t].call
        /\ \A c \in Calls :
             linked'[c] # 0 /\ births'[linked'[c]] <= 1 => c \in dbWf'[linked'[c]] \cup rivals'
    BY <2>1, <2>2 DEF RowsInv
  <2>4. \A c \in Calls, t \in Workers :
          Attached(t)' /\ linked'[c] = job'[t].wf /\ births'[linked'[c]] <= 1
            => c \in objects'[job'[t].obj] \cup rivals'
    BY <2>1 DEF RowsInv
  <2> QED
    BY <2>3, <2>4 DEF RowsInv
<1>7. ASSUME "db" \notin mishaps', ~dbUp' PROVE MemoryInv'
  <2>1. MemoryInv
    BY <1>7 DEF RecordInv
  <2> QED
    BY <2>1 DEF MemoryInv
<1> QED
  BY <1>3, <1>4, <1>5, <1>6, <1>7 DEF RecordInv

\* A run gets its number.
LEMMA BeginKeepsRecords ==
  ASSUME Typed, RecordInv, NEW t \in Workers, NEW r \in Requests, BeginRun(t, r)
  PROVE  RecordInv'
<1>1. /\ RuntimeTyped /\ RuntimeTypeOK /\ calls \in Nat /\ calls + 1 \in Calls
      /\ \A u \in Workers : /\ Running(u) => job[u].call \in Nat
                            /\ Attached(u) => job[u].obj \in Nat
      /\ Calls \subseteq Nat /\ \A w \in WfIds : memWf[w] \in Nat
  <2>1. RuntimeTyped /\ RuntimeTypeOK
    BY DEF Typed, RuntimeTyped
  <2>2. calls < MaxCalls /\ calls \in 0 .. MaxCalls
    BY <2>1 DEF BeginRun, RuntimeTypeOK
  <2>3. calls \in Nat /\ calls + 1 \in Calls
    BY <2>2, Bounds DEF Calls
  <2>4. \A w \in WfIds : memWf[w] \in Nat
    BY <2>1, Bounds DEF RuntimeTypeOK
  <2> QED
    BY <2>1, <2>3, <2>4, WorkerTyped
<1>2. calls' = calls + 1
  BY DEF BeginRun
<1>3. rpc'[t] = "ensure" /\ ~Running(t) /\ ~Attached(t) /\ ~Attached(t)'
      /\ \A u \in Workers \ {t} : rpc'[u] = rpc[u]
  BY <1>1 DEF BeginRun, Goes, RuntimeTypeOK, Running, Attached
<1>4. job'[t].call = calls + 1 /\ \A u \in Workers \ {t} : job'[u] = job[u]
  <2>1. calls + 1 \in 0 .. MaxCalls /\ job \in [Workers -> Job]
    BY <1>1 DEF Calls, RuntimeTypeOK
  <2>2. job' = [job EXCEPT ![t] = [IdleJob EXCEPT !.req = r, !.call = calls + 1]]
    BY DEF BeginRun
  <2> QED
    BY ZenonT(60), <2>1, <2>2, JobBeginsAnew
<1>5. UNCHANGED <<mishaps, dbUp, memWf, objects, dbWf, linked, rivals, births>>
  BY DEF BeginRun, faults, trails
<1>6. \A u \in Workers \ {t} : /\ Running(u)' = Running(u) /\ Attached(u)' = Attached(u)
                               /\ rpc'[u] = rpc[u] /\ job'[u] = job[u]
  BY <1>3, <1>4 DEF Running, Attached
<1>7. \A u \in Workers : Attached(u) => Running(u)
  BY DEF Attached, Running
<1>8. CallsInv'
  <2>1. \A u \in Workers : Running(u)' => job'[u].call <= calls' /\ linked'[job'[u].call] = 0
    <3>1. linked[calls + 1] = 0 /\ calls + 1 <= calls'
      BY <1>1, <1>2 DEF RecordInv, CallsInv
    <3>2. \A u \in Workers \ {t} : Running(u) =>
            job[u].call <= calls + 1 /\ linked[job[u].call] = 0
      BY <1>1 DEF RecordInv, CallsInv
    <3> QED
      BY <3>1, <3>2, <1>2, <1>4, <1>5, <1>6
  <2>2. \A u \in Workers \ {t} : Running(u) => job[u].call # calls + 1
    BY <1>1 DEF RecordInv, CallsInv
  <2>3. \A u, v \in Workers :
          Running(u)' /\ Running(v)' /\ job'[u].call = job'[v].call => u = v
    BY <2>2, <1>4, <1>6 DEF RecordInv, CallsInv
  <2>4. ASSUME NEW c \in Calls, c > calls' PROVE linked'[c] = 0
    <3>1. c \in Nat /\ c > calls
      BY <1>1, <1>2, <2>4
    <3> QED
      BY <3>1, <1>5 DEF RecordInv, CallsInv
  <2> QED
    BY <2>1, <2>3, <2>4 DEF CallsInv
<1>9. ObjectsInv'
  <2>1. \A w \in WfIds : memWf'[w] <= calls' /\ memWf'[w] # calls + 1
    BY <1>1, <1>2, <1>5 DEF RecordInv, ObjectsInv
  <2>2. \A u \in Workers : Attached(u)' => job'[u].obj <= calls' /\ job'[u].obj # calls + 1
    <3>1. \A u \in Workers : Attached(u) => job[u].obj <= calls + 1 /\ job[u].obj # calls + 1
      BY <1>1, <1>7 DEF RecordInv, ObjectsInv
    <3> QED
      BY <3>1, <1>2, <1>3, <1>6
  <2>3. \A s \in Workers : rpc'[s] = "ensure" =>
          /\ \A w \in WfIds : memWf'[w] # job'[s].call
          /\ \A u \in Workers : Attached(u)' => job'[u].obj # job'[s].call
    BY <2>1, <2>2, <1>3, <1>4, <1>5, <1>6 DEF RecordInv, ObjectsInv
  <2> QED
    BY <2>1, <2>2, <2>3 DEF ObjectsInv
<1>10. BirthsInv' /\ SharersInv'
  <2>1. BirthsInv'
    BY <1>3, <1>5, <1>6 DEF RecordInv, BirthsInv
  <2>2. SharersInv'
    BY <1>3, <1>5, <1>6 DEF RecordInv, SharersInv
  <2> QED
    BY <2>1, <2>2
<1>11. RowsInv => RowsInv'
  BY <1>3, <1>5, <1>6 DEF RowsInv
<1>12. MemoryInv => MemoryInv'
  BY <1>3, <1>5, <1>6 DEF MemoryInv
<1> QED
  BY <1>5, <1>8, <1>9, <1>10, <1>11, <1>12 DEF RecordInv

\* The process stops: nobody holds a record, and memory has none.
LEMMA RestartKeepsRecords ==
  ASSUME Typed, RecordInv, RestartRuntime
  PROVE  RecordInv'
<1>1. /\ \A u \in Workers : ~Running(u)' /\ ~Attached(u)' /\ rpc'[u] # "ensure"
      /\ \A w \in WfIds : memWf'[w] = 0
      /\ UNCHANGED <<calls, dbUp, objects, dbWf, linked, rivals, births>>
      /\ "db" \notin mishaps' => "db" \notin mishaps
  BY DEF RestartRuntime, Mishap, Running, Attached, trails
<1>2. calls \in Nat /\ \A c \in Calls : linked[c] # 0 => linked[c] \in WfIds
  BY WorkerTyped DEF Typed
<1>3. CallsInv' /\ ObjectsInv'
  BY <1>1, <1>2 DEF RecordInv, CallsInv, ObjectsInv
<1>4. BirthsInv' /\ SharersInv'
  BY <1>1 DEF RecordInv, BirthsInv, SharersInv
<1>5. RowsInv => RowsInv'
  BY <1>1 DEF RowsInv
<1>6. MemoryInv => MemoryInv'
  BY <1>1, <1>2 DEF MemoryInv
<1> QED
  BY <1>1, <1>3, <1>4, <1>5, <1>6 DEF RecordInv

\* Steps that touch no record and start no run.
LEMMA QuietKeepsRecords ==
  ASSUME Typed, RecordInv,
         \/ UNCHANGED runtimeVars \/ Environment \/ TurnSwitches
         \/ \E t \in Workers, r \in Requests : Duplicate(t, r)
         \/ \E t \in Workers : WrapperReturns(t) \/ WrapperRaises(t) \/ IndexRun(t) \/ Reply(t)
  PROVE  RecordInv'
<1>1. RuntimeTyped /\ RuntimeTypeOK /\ calls \in Nat
  BY WorkerTyped DEF Typed, RuntimeTyped
<1>2. CASE UNCHANGED runtimeVars \/ Environment \/ TurnSwitches
  <2>1. /\ UNCHANGED <<calls, memWf, objects, dbWf, linked, rivals, births, rpc, job>>
        /\ "db" \notin mishaps' => "db" \notin mishaps /\ dbUp' = dbUp
    BY <1>2 DEF runtimeVars, stores, trails, faults, Environment, NextSecond, LockExpires,
                FlipRedis, FlipDb, TurnSwitches, Mishap
  <2> QED
    BY <1>1, <2>1, RecordStays DEF Running, Attached
<1>3. ASSUME NEW t \in Workers, NEW r \in Requests, Duplicate(t, r) PROVE RecordInv'
  <2>1. /\ UNCHANGED <<memWf, objects, dbWf, linked, rivals, births, mishaps, dbUp>>
        /\ calls' = calls + 1
    BY <1>3 DEF Duplicate, trails, faults
  <2>2. /\ rpc'[t] = "answered"
        /\ \A u \in Workers \ {t} : rpc'[u] = rpc[u] /\ job'[u] = job[u]
    BY <1>1, <1>3 DEF Duplicate, Goes, RuntimeTypeOK
  <2> QED
    BY <1>1, <2>1, <2>2, RecordStays DEF Running, Attached
<1>4. ASSUME NEW t \in Workers, WrapperReturns(t) \/ WrapperRaises(t) PROVE RecordInv'
  <2>1. UNCHANGED <<calls, memWf, objects, dbWf, linked, rivals, births, mishaps, dbUp>>
    BY <1>4 DEF WrapperReturns, WrapperRaises, stores, trails, faults
  <2>2. PICK a \in {"returned", "failed"} :
          job' = [job EXCEPT ![t].answer = a, ![t].locked = FALSE]
    BY <1>4 DEF WrapperReturns, WrapperRaises
  <2>3. /\ job'[t].call = job[t].call /\ job'[t].wf = job[t].wf /\ job'[t].obj = job[t].obj
        /\ \A u \in Workers \ {t} : job'[u] = job[u]
    BY <1>1, <2>2, JobEnds DEF Answers, RuntimeTypeOK
  <2>4. /\ rpc[t] = "work" /\ rpc'[t] # "ensure"
        /\ \A u \in Workers \ {t} : rpc'[u] = rpc[u]
    BY <1>1, <1>4 DEF WrapperReturns, WrapperRaises, Goes, RuntimeTypeOK
  <2> QED
    BY <1>1, <2>1, <2>3, <2>4, RecordStays DEF Running, Attached
<1>5. ASSUME NEW t \in Workers, IndexRun(t) PROVE RecordInv'
  <2>1. UNCHANGED <<calls, memWf, objects, dbWf, linked, rivals, births, mishaps, dbUp, job>>
    BY <1>5 DEF IndexRun, trails, faults
  <2>2. /\ rpc[t] = "index" /\ rpc'[t] = "link"
        /\ \A u \in Workers \ {t} : rpc'[u] = rpc[u]
    BY <1>1, <1>5 DEF IndexRun, Goes, RuntimeTypeOK
  <2> QED
    BY <1>1, <2>1, <2>2, RecordStays DEF Running, Attached
<1>6. ASSUME NEW t \in Workers, Reply(t) PROVE RecordInv'
  <2>1. UNCHANGED <<calls, memWf, objects, dbWf, linked, rivals, births, mishaps, dbUp>>
    BY <1>6 DEF Reply, stores, trails, faults
  <2>2. /\ rpc'[t] = "idle"
        /\ \A u \in Workers \ {t} : rpc'[u] = rpc[u] /\ job'[u] = job[u]
    BY <1>1, <1>6 DEF Reply, Goes, RuntimeTypeOK
  <2> QED
    BY <1>1, <2>1, <2>2, RecordStays DEF Running, Attached
<1> QED
  BY <1>2, <1>3, <1>4, <1>5, <1>6

\* A run takes the object o of the record w, and is the rival of whoever holds the
\* record.
LEMMA JoinsRecord ==
  ASSUME Typed, RecordInv, NEW t \in Workers, Goes(t, "ensure", "work"),
         NEW w \in WfIds, NEW o \in Calls, Holds(t, w, o), UNCHANGED <<calls, linked>>
  PROVE  /\ rpc[t] = "ensure" /\ rpc'[t] = "work"
         /\ job'[t].call = job[t].call /\ job'[t].wf = w /\ job'[t].obj = o
         /\ Running(t) /\ ~Attached(t) /\ Running(t)' /\ Attached(t)'
         /\ \A u \in Workers \ {t} : /\ rpc'[u] = rpc[u] /\ job'[u] = job[u]
                                     /\ Running(u)' = Running(u) /\ Attached(u)' = Attached(u)
         /\ rivals \subseteq rivals'
         /\ CallsInv' /\ SharersInv'
<1>1. RuntimeTyped /\ RuntimeTypeOK /\ rpc[t] = "ensure"
  BY DEF Typed, RuntimeTyped, Goes
<1>2. /\ job'[t].call = job[t].call /\ job'[t].wf = w /\ job'[t].obj = o
      /\ \A u \in Workers \ {t} : job'[u] = job[u]
  BY ZenonT(60), <1>1, HoldsTyped
<1>3. rpc'[t] = "work" /\ \A u \in Workers \ {t} : rpc'[u] = rpc[u]
  BY <1>1 DEF Goes, RuntimeTypeOK
<1>4. /\ Running(t) /\ ~Attached(t) /\ Running(t)' /\ Attached(t)'
      /\ \A u \in Workers \ {t} : Running(u)' = Running(u) /\ Attached(u)' = Attached(u)
  BY <1>1, <1>2, <1>3 DEF Running, Attached
<1>5. rivals \subseteq rivals'
  BY DEF Holds
<1>6. CallsInv'
  <2>1. \A u \in Workers : (Running(u)' <=> Running(u)) /\ job'[u].call = job[u].call
    BY <1>2, <1>4
  <2> QED
    BY <2>1 DEF RecordInv, CallsInv
<1>7. ASSUME NEW v \in Workers \ {t}, Attached(v), job[v].wf = w
      PROVE  job[t].call \in rivals' /\ job[v].call \in rivals'
  <2>1. v \in OnRecord(w)
    BY <1>7 DEF OnRecord, Attached
  <2> QED
    BY <2>1 DEF Holds
<1>8. SharersInv'
  BY <1>2, <1>4, <1>5, <1>7 DEF RecordInv, SharersInv
<1> QED
  BY <1>1, <1>2, <1>3, <1>4, <1>5, <1>6, <1>8

\* The object of a run that joins a record is nobody's whose number is not given out.
LEMMA JoinsObjects ==
  ASSUME Typed, RecordInv, NEW t \in Workers, Goes(t, "ensure", "work"),
         NEW w \in WfIds, NEW o \in Calls, Holds(t, w, o), UNCHANGED <<calls, linked>>,
         o <= calls,
         \A u \in Workers \ {t} : rpc[u] = "ensure" => job[u].call # o,
         \A x \in WfIds : memWf'[x] \in {memWf[x], o}
  PROVE  ObjectsInv'
<1>1. /\ rpc'[t] = "work" /\ Attached(t)' /\ job'[t].obj = o
      /\ \A u \in Workers \ {t} : /\ rpc'[u] = rpc[u] /\ job'[u] = job[u]
                                  /\ Attached(u)' = Attached(u)
  BY JoinsRecord
<1>2. /\ \A x \in WfIds : memWf[x] <= calls
      /\ \A u \in Workers : Attached(u) => job[u].obj <= calls
      /\ \A s \in Workers : rpc[s] = "ensure" =>
           /\ \A x \in WfIds : memWf[x] # job[s].call
           /\ \A u \in Workers : Attached(u) => job[u].obj # job[s].call
  BY DEF RecordInv, ObjectsInv
<1>3. \A x \in WfIds : memWf'[x] <= calls'
  BY <1>2
<1>4. \A u \in Workers : Attached(u)' => job'[u].obj <= calls'
  BY <1>1, <1>2
<1>5. ASSUME NEW s \in Workers, rpc'[s] = "ensure"
      PROVE  /\ \A x \in WfIds : memWf'[x] # job'[s].call
             /\ \A u \in Workers : Attached(u)' => job'[u].obj # job'[s].call
  <2>1. s # t /\ rpc[s] = "ensure" /\ job'[s] = job[s] /\ job[s].call # o
    BY <1>1, <1>5
  <2>2. \A x \in WfIds : memWf'[x] # job'[s].call
    BY <2>1, <1>2
  <2>3. \A u \in Workers : Attached(u)' => job'[u].obj # job'[s].call
    BY <2>1, <1>1, <1>2
  <2> QED
    BY <2>2, <2>3
<1> QED
  BY <1>3, <1>4, <1>5 DEF ObjectsInv

\* The row is loaded into an object of the run's own.
LEMMA LoadKeepsRecords ==
  ASSUME Typed, RecordInv, NEW t \in Workers, LoadRow(t)
  PROVE  RecordInv'
<1>1. RuntimeTyped /\ RuntimeTypeOK /\ Goes(t, "ensure", "work") /\ rpc[t] = "ensure"
  BY DEF Typed, RuntimeTyped, LoadRow, Goes
<1>2. PICK w \in WfIds : w = job[t].req.wf
  BY SMTT(30), <1>1, Bounds DEF LoadRow, HasRow, RuntimeTypeOK, Job, Requests, WfIds
<1>3. PICK k \in Calls : k = job[t].call
  BY <1>1, WorkerTyped DEF Running
<1>4. /\ dbUp /\ dbWf[w] # NoRow /\ Holds(t, w, k)
      /\ UNCHANGED <<calls, mishaps, dbUp, dbWf, linked, births>>
  BY <1>2, <1>3 DEF LoadRow, HasRow, faults
<1>5. /\ objects'[k] = dbWf[w] /\ \A o \in Calls \ {k} : objects'[o] = objects[o]
      /\ memWf'[w] = k /\ \A x \in WfIds \ {w} : memWf'[x] = memWf[x]
  BY <1>1, <1>2, <1>3 DEF LoadRow, RuntimeTypeOK
<1>6. /\ job'[t].call = k /\ job'[t].wf = w /\ job'[t].obj = k
      /\ Running(t) /\ Attached(t)'
      /\ \A u \in Workers \ {t} : job'[u] = job[u] /\ Attached(u)' = Attached(u)
      /\ rivals \subseteq rivals' /\ CallsInv' /\ SharersInv'
  BY <1>1, <1>3, <1>4, JoinsRecord
<1>7. k <= calls /\ \A u \in Workers \ {t} : Running(u) => job[u].call # k
  BY <1>3, <1>6 DEF RecordInv, CallsInv
<1>8. ObjectsInv'
  <2>1. \A u \in Workers \ {t} : rpc[u] = "ensure" => job[u].call # k
    BY <1>7 DEF Running
  <2>2. \A x \in WfIds : memWf'[x] \in {memWf[x], k}
    BY <1>5
  <2> QED
    BY <1>1, <1>4, <1>7, <2>1, <2>2, JoinsObjects
<1>9. ASSUME "db" \notin mishaps PROVE RowsInv'
  <2>1. RowsInv
    BY <1>4, <1>9 DEF RecordInv
  <2>2. \A x \in WfIds : memWf'[x] # 0 => dbWf'[x] # NoRow
    BY <2>1, <1>4, <1>5 DEF RowsInv
  <2>3. \A u \in Workers : Attached(u)' => job'[u].obj = job'[u].call
    BY <2>1, <1>6 DEF RowsInv
  <2>4. \A c \in Calls :
          linked'[c] # 0 /\ births'[linked'[c]] <= 1 => c \in dbWf'[linked'[c]] \cup rivals'
    BY <2>1, <1>4, <1>6 DEF RowsInv
  <2>5. ASSUME NEW c \in Calls, NEW u \in Workers,
               Attached(u)', linked'[c] = job'[u].wf, births'[linked'[c]] <= 1
        PROVE  c \in objects'[job'[u].obj] \cup rivals'
    <3>1. CASE u = t
      <4>1. linked[c] = w /\ births[w] <= 1 /\ w # 0
        BY <2>5, <3>1, <1>4, <1>6 DEF WfIds
      <4> QED
        BY <2>1, <3>1, <4>1, <1>5, <1>6 DEF RowsInv
    <3>2. CASE u # t
      <4>1. Attached(u) /\ job'[u] = job[u] /\ Running(u)
        BY <2>5, <3>2, <1>6 DEF Attached, Running
      <4>2. job[u].obj = job[u].call /\ job[u].obj # k /\ job[u].obj \in Calls
        BY <2>1, <3>2, <4>1, <1>1, <1>7, WorkerTyped DEF RowsInv
      <4> QED
        BY <2>1, <2>5, <4>1, <4>2, <1>4, <1>5, <1>6 DEF RowsInv
    <3> QED
      BY <3>1, <3>2
  <2> QED
    BY <2>2, <2>3, <2>4, <2>5 DEF RowsInv
<1>10. BirthsInv'
  <2>1. births[w] >= 1
    BY <1>4 DEF RecordInv, BirthsInv
  <2>2. \A x \in WfIds : memWf'[x] # 0 \/ dbWf'[x] # NoRow => births'[x] >= 1
    BY <2>1, <1>4, <1>5 DEF RecordInv, BirthsInv
  <2> QED
    BY <2>1, <2>2, <1>4, <1>6 DEF RecordInv, BirthsInv
<1> QED
  BY <1>4, <1>6, <1>8, <1>9, <1>10 DEF RecordInv

\* Without a row the object in memory is shared; this does not happen with Postgres up.
LEMMA ShareKeepsRecords ==
  ASSUME Typed, RecordInv, NEW t \in Workers, ShareObject(t)
  PROVE  RecordInv'
<1>1. RuntimeTyped /\ RuntimeTypeOK /\ Goes(t, "ensure", "work") /\ rpc[t] = "ensure"
  BY DEF Typed, RuntimeTyped, ShareObject, Goes
<1>2. PICK w \in WfIds : w = job[t].req.wf
  BY SMTT(30), <1>1, Bounds DEF ShareObject, HasObject, RuntimeTypeOK, Job, Requests, WfIds
<1>3. memWf[w] # 0 /\ memWf[w] \in Calls
  BY <1>1, <1>2, WorkerTyped DEF ShareObject, HasObject
<1>4. PICK o \in Calls : o = memWf[w]
  BY <1>3
<1>5. /\ Holds(t, w, o) /\ ~(dbUp /\ dbWf[w] # NoRow)
      /\ UNCHANGED <<calls, mishaps, dbUp, memWf, objects, dbWf, linked, births>>
  BY <1>2, <1>4 DEF ShareObject, HasObject, HasRow, faults, stores, WfIds
<1>6. /\ job'[t].wf = w /\ job'[t].obj = o /\ Attached(t)'
      /\ \A u \in Workers \ {t} : job'[u] = job[u] /\ Attached(u)' = Attached(u)
      /\ rivals \subseteq rivals' /\ CallsInv' /\ SharersInv'
  BY <1>1, <1>5, JoinsRecord
<1>7. ObjectsInv'
  <2>1. o <= calls /\ \A u \in Workers \ {t} : rpc[u] = "ensure" => job[u].call # o
    BY <1>4 DEF RecordInv, ObjectsInv
  <2>2. \A x \in WfIds : memWf'[x] \in {memWf[x], o}
    BY <1>5
  <2> QED
    BY <1>1, <1>5, <2>1, <2>2, JoinsObjects
<1>8. BirthsInv'
  BY <1>3, <1>5, <1>6 DEF RecordInv, BirthsInv
<1>9. ASSUME "db" \notin mishaps PROVE ~dbUp /\ MemoryInv'
  <2>1. ~dbUp
    BY <1>3, <1>5, <1>9 DEF RecordInv, RowsInv
  <2>2. MemoryInv
    BY <2>1, <1>9 DEF RecordInv
  <2>3. \A u \in Workers :
          Attached(u)' /\ births'[job'[u].wf] <= 1 => job'[u].obj = memWf'[job'[u].wf]
    BY <2>2, <1>4, <1>5, <1>6 DEF MemoryInv
  <2> QED
    BY <2>1, <2>2, <2>3, <1>5 DEF MemoryInv
<1> QED
  BY <1>5, <1>6, <1>7, <1>8, <1>9 DEF RecordInv

\* A new record, under the object k that nobody uses: runs either stay with their
\* record or take the new one.
LEMMA CreateKeepsRecords ==
  ASSUME Typed, RecordInv, NEW k \in Calls, CreateRecord(k),
         UNCHANGED <<mishaps, dbUp, linked>>, rivals \subseteq rivals',
         \A x \in WfIds : memWf[x] # k,
         \A u \in Workers : Attached(u) => job[u].obj # k,
         \A u \in Workers : Attached(u)' =>
           \/ Attached(u) /\ job'[u] = job[u]
           \/ job'[u].wf = clock /\ job'[u].obj = k /\ job'[u].call = k
  PROVE  /\ \A x \in WfIds : memWf'[x] \in {memWf[x], k}
         /\ BirthsInv'
         /\ "db" \notin mishaps => (dbUp => RowsInv') /\ (~dbUp => MemoryInv')
<1>1. RuntimeTyped /\ RuntimeTypeOK /\ clock \in WfIds
  BY WorkerTyped DEF Typed, RuntimeTyped
<1>2. /\ objects'[k] = {} /\ \A o \in Calls \ {k} : objects'[o] = objects[o]
      /\ memWf'[clock] = k /\ \A x \in WfIds \ {clock} : memWf'[x] = memWf[x]
  BY <1>1 DEF CreateRecord, RuntimeTypeOK
<1>3. /\ dbUp => dbWf'[clock] = {} /\ \A x \in WfIds \ {clock} : dbWf'[x] = dbWf[x]
      /\ ~dbUp => dbWf' = dbWf
  BY <1>1 DEF CreateRecord, RuntimeTypeOK
<1>4. /\ births'[clock] >= 1 /\ (births'[clock] <= 1 => ~(births[clock] >= 1))
      /\ \A x \in WfIds \ {clock} : births'[x] = births[x]
  <2>1. births[clock] \in Nat /\ births'[clock] = births[clock] + 1
    BY <1>1 DEF CreateRecord, RuntimeTypeOK
  <2>2. \A x \in WfIds \ {clock} : births'[x] = births[x]
    BY <1>1 DEF CreateRecord, RuntimeTypeOK
  <2> QED
    BY <2>1, <2>2
<1>5. \A c \in Calls : linked[c] # 0 => linked[c] \in WfIds /\ births[linked[c]] >= 1
  BY <1>1, WorkerTyped DEF RecordInv, BirthsInv
<1>6. \A u \in Workers : Attached(u) =>
        job[u].wf \in WfIds /\ job[u].obj \in Calls \ {k} /\ births[job[u].wf] >= 1
  BY <1>1, WorkerTyped DEF RecordInv, BirthsInv
<1>7. BirthsInv'
  <2>1. \A x \in WfIds : births[x] >= 1 => births'[x] >= 1
    BY <1>4
  <2>2. \A x \in WfIds : memWf'[x] # 0 \/ dbWf'[x] # NoRow => births'[x] >= 1
    BY <2>1, <1>2, <1>3, <1>4 DEF RecordInv, BirthsInv
  <2>3. \A c \in Calls : linked'[c] # 0 => births'[linked'[c]] >= 1
    BY <2>1, <1>5
  <2>4. \A u \in Workers : Attached(u)' => births'[job'[u].wf] >= 1
    BY <2>1, <1>4, <1>6
  <2> QED
    BY <2>2, <2>3, <2>4 DEF BirthsInv
<1>8. ASSUME RowsInv, dbUp PROVE RowsInv'
  <2>1. \A x \in WfIds : memWf'[x] # 0 => dbWf'[x] # NoRow
    BY <1>2, <1>3, <1>8 DEF RowsInv, NoRow
  <2>2. \A u \in Workers : Attached(u)' => job'[u].obj = job'[u].call
    BY <1>8 DEF RowsInv
  <2>3. ASSUME NEW c \in Calls, linked'[c] # 0, births'[linked'[c]] <= 1
        PROVE  linked[c] \in WfIds \ {clock} /\ births[linked[c]] <= 1
    BY <2>3, <1>4, <1>5
  <2>4. \A c \in Calls :
          linked'[c] # 0 /\ births'[linked'[c]] <= 1 => c \in dbWf'[linked'[c]] \cup rivals'
    BY <2>3, <1>3, <1>8 DEF RowsInv
  <2>5. ASSUME NEW c \in Calls, NEW u \in Workers,
               Attached(u)', linked'[c] = job'[u].wf, births'[linked'[c]] <= 1
        PROVE  c \in objects'[job'[u].obj] \cup rivals'
    <3>1. linked'[c] # 0
      BY <2>5, <1>1, <1>6, WorkerTyped
    <3>2. linked[c] \in WfIds \ {clock} /\ births[linked[c]] <= 1
      BY <2>3, <2>5, <3>1
    <3>3. Attached(u) /\ job'[u] = job[u]
      BY <2>5, <3>2
    <3>4. objects'[job[u].obj] = objects[job[u].obj]
      BY <3>3, <1>2, <1>6
    <3> QED
      BY <2>5, <3>2, <3>3, <3>4, <1>8 DEF RowsInv
  <2> QED
    BY <2>1, <2>2, <2>4, <2>5 DEF RowsInv
<1>9. ASSUME MemoryInv, ~dbUp PROVE MemoryInv'
  <2>1. \A x \in WfIds : dbWf'[x] = NoRow
    BY <1>3, <1>9 DEF MemoryInv
  <2>2. ASSUME NEW u \in Workers, Attached(u)', births'[job'[u].wf] <= 1
        PROVE  job'[u].obj = memWf'[job'[u].wf]
    <3>1. CASE Attached(u) /\ job'[u] = job[u]
      <4>1. job[u].wf \in WfIds \ {clock}
        BY <2>2, <3>1, <1>4, <1>6
      <4> QED
        BY <2>2, <3>1, <4>1, <1>2, <1>4, <1>9 DEF MemoryInv
    <3>2. CASE job'[u].wf = clock /\ job'[u].obj = k /\ job'[u].call = k
      BY <3>2, <1>2
    <3> QED
      BY <2>2, <3>1, <3>2
  <2>3. ASSUME NEW c \in Calls, linked'[c] # 0, births'[linked'[c]] <= 1,
               memWf'[linked'[c]] # 0
        PROVE  c \in objects'[memWf'[linked'[c]]]
    <3>1. linked[c] \in WfIds \ {clock} /\ births[linked[c]] <= 1
      BY <2>3, <1>4, <1>5
    <3>2. memWf'[linked[c]] = memWf[linked[c]] /\ memWf[linked[c]] \in Calls \ {k}
      BY <2>3, <3>1, <1>1, <1>2, WorkerTyped
    <3> QED
      BY <2>3, <3>1, <3>2, <1>2, <1>9 DEF MemoryInv
  <2> QED
    BY <2>1, <2>2, <2>3 DEF MemoryInv
<1> QED
  BY <1>2, <1>7, <1>8, <1>9 DEF RecordInv

LEMMA NewKeepsRecords ==
  ASSUME Typed, RecordInv, NEW t \in Workers, NewRecord(t)
  PROVE  RecordInv'
<1>1. RuntimeTyped /\ RuntimeTypeOK /\ Goes(t, "ensure", "work") /\ rpc[t] = "ensure"
      /\ clock \in WfIds
  BY WorkerTyped DEF Typed, RuntimeTyped, NewRecord, Goes
<1>2. PICK k \in Calls : k = job[t].call
  BY <1>1, WorkerTyped DEF Running
<1>3. /\ CreateRecord(k) /\ Holds(t, clock, k)
      /\ UNCHANGED <<calls, mishaps, dbUp, linked>>
  BY <1>2 DEF NewRecord, faults
<1>4. /\ job'[t].call = k /\ job'[t].wf = clock /\ job'[t].obj = k /\ Running(t)
      /\ \A u \in Workers \ {t} : job'[u] = job[u] /\ Attached(u)' = Attached(u)
      /\ rivals \subseteq rivals' /\ CallsInv' /\ SharersInv'
  BY <1>1, <1>2, <1>3, JoinsRecord
<1>5. /\ k <= calls /\ \A u \in Workers \ {t} : rpc[u] = "ensure" => job[u].call # k
  BY <1>2, <1>4 DEF RecordInv, CallsInv, Running
<1>6. /\ \A x \in WfIds : memWf[x] # k
      /\ \A u \in Workers : Attached(u) => job[u].obj # k
  BY <1>1, <1>2 DEF RecordInv, ObjectsInv
<1>7. \A u \in Workers : Attached(u)' =>
        \/ Attached(u) /\ job'[u] = job[u]
        \/ job'[u].wf = clock /\ job'[u].obj = k /\ job'[u].call = k
  BY <1>4
<1>8. /\ \A x \in WfIds : memWf'[x] \in {memWf[x], k}
      /\ BirthsInv'
      /\ "db" \notin mishaps => (dbUp => RowsInv') /\ (~dbUp => MemoryInv')
  BY <1>3, <1>4, <1>6, <1>7, CreateKeepsRecords
<1>9. ObjectsInv'
  BY <1>1, <1>3, <1>5, <1>8, JoinsObjects
<1> QED
  BY <1>3, <1>4, <1>8, <1>9 DEF RecordInv

LEMMA FlowKeepsRecords ==
  ASSUME Typed, RecordInv, NEW t \in Workers, CreateFlowRecord(t)
  PROVE  RecordInv'
<1>1. RuntimeTyped /\ RuntimeTypeOK /\ calls \in Nat /\ calls + 1 \in Calls
  <2>1. RuntimeTyped /\ RuntimeTypeOK
    BY DEF Typed, RuntimeTyped
  <2>2. calls < MaxCalls /\ calls \in 0 .. MaxCalls
    BY <2>1 DEF CreateFlowRecord, RuntimeTypeOK
  <2> QED
    BY <2>1, <2>2, Bounds DEF Calls
<1>2. PICK k \in Calls : k = calls + 1
  BY <1>1
<1>3. /\ CreateRecord(k) /\ calls' = k
      /\ UNCHANGED <<mishaps, dbUp, linked, rivals, rpc, job>>
  BY <1>2 DEF CreateFlowRecord, faults
<1>4. /\ \A u \in Workers : Running(u)' = Running(u) /\ Attached(u)' = Attached(u)
      /\ \A u \in Workers : Attached(u) => job[u].obj \in Nat /\ job[u].obj <= calls
      /\ \A u \in Workers : Running(u) => job[u].call \in Nat /\ job[u].call <= calls
      /\ \A x \in WfIds : memWf[x] \in Nat /\ memWf[x] <= calls
  <2>1. \A x \in WfIds : memWf[x] \in Nat
    BY <1>1, Bounds DEF RuntimeTypeOK
  <2> QED
    BY <2>1, <1>1, <1>3, WorkerTyped DEF RecordInv, CallsInv, ObjectsInv, Running, Attached
<1>5. /\ \A x \in WfIds : memWf[x] # k
      /\ \A u \in Workers : Attached(u) => job[u].obj # k
  BY <1>1, <1>2, <1>4
<1>6. /\ \A x \in WfIds : memWf'[x] \in {memWf[x], k}
      /\ BirthsInv'
      /\ "db" \notin mishaps => (dbUp => RowsInv') /\ (~dbUp => MemoryInv')
  BY <1>3, <1>4, <1>5, CreateKeepsRecords
<1>7. CallsInv'
  <2>1. \A u \in Workers : Running(u)' => job'[u].call <= calls' /\ linked'[job'[u].call] = 0
    <3>1. \A u \in Workers : Running(u) => job[u].call <= k
      BY <1>1, <1>2, <1>4
    <3> QED
      BY <3>1, <1>3, <1>4 DEF RecordInv, CallsInv
  <2>2. \A c \in Calls : c > calls' => linked'[c] = 0
    <3>1. \A c \in Calls : c \in Nat
      BY Bounds DEF Calls
    <3> QED
      BY <3>1, <1>1, <1>2, <1>3 DEF RecordInv, CallsInv
  <2> QED
    BY <2>1, <2>2, <1>3, <1>4 DEF RecordInv, CallsInv
<1>8. ObjectsInv'
  <2>1. \A x \in WfIds : memWf'[x] <= calls'
    BY <1>1, <1>2, <1>3, <1>4, <1>6
  <2>2. \A u \in Workers : Attached(u)' => job'[u].obj <= calls'
    BY <1>1, <1>2, <1>3, <1>4
  <2>3. ASSUME NEW s \in Workers, rpc'[s] = "ensure"
        PROVE  /\ \A x \in WfIds : memWf'[x] # job'[s].call
               /\ \A u \in Workers : Attached(u)' => job'[u].obj # job'[s].call
    <3>1. rpc[s] = "ensure" /\ job'[s] = job[s] /\ job[s].call # k
      BY <2>3, <1>1, <1>2, <1>3, <1>4 DEF Running
    <3> QED
      BY <3>1, <1>3, <1>4, <1>6 DEF RecordInv, ObjectsInv
  <2> QED
    BY <2>1, <2>2, <2>3 DEF ObjectsInv
<1>9. SharersInv'
  BY <1>3, <1>4 DEF RecordInv, SharersInv
<1> QED
  BY <1>3, <1>6, <1>7, <1>8, <1>9 DEF RecordInv

\* A run is appended to the object it holds, which is put back.
LEMMA LinkKeepsRecords ==
  ASSUME Typed, RecordInv, NEW t \in Workers, LinkRun(t)
  PROVE  RecordInv'
<1>1. RuntimeTyped /\ RuntimeTypeOK /\ rpc[t] = "link" /\ Running(t) /\ Attached(t)
  BY DEF Typed, RuntimeTyped, LinkRun, Goes, Running, Attached
<1>2. PICK k \in Calls, o \in Calls, w \in WfIds :
        k = job[t].call /\ o = job[t].obj /\ w = job[t].wf
  BY <1>1, WorkerTyped
<1>3. /\ objects'[o] = objects[o] \cup {k} /\ \A p \in Calls \ {o} : objects'[p] = objects[p]
      /\ memWf'[w] = o /\ \A x \in WfIds \ {w} : memWf'[x] = memWf[x]
      /\ linked'[k] = w /\ \A c \in Calls \ {k} : linked'[c] = linked[c]
  BY <1>1, <1>2 DEF LinkRun, RuntimeTypeOK
<1>4. /\ dbUp => dbWf'[w] = objects[o] \cup {k} /\ \A x \in WfIds \ {w} : dbWf'[x] = dbWf[x]
      /\ ~dbUp => dbWf' = dbWf
      /\ UNCHANGED <<calls, mishaps, dbUp, job, rivals, births>>
  BY <1>1, <1>2 DEF LinkRun, RuntimeTypeOK, faults
<1>5. /\ rpc'[t] = "answered" /\ ~Running(t)' /\ ~Attached(t)'
      /\ \A u \in Workers \ {t} : /\ rpc'[u] = rpc[u] /\ Running(u)' = Running(u)
                                  /\ Attached(u)' = Attached(u)
  BY <1>1 DEF LinkRun, Goes, RuntimeTypeOK, Running, Attached
<1>6. /\ k <= calls /\ o <= calls /\ births[w] >= 1 /\ k # 0 /\ o # 0 /\ w # 0
      /\ \A u \in Workers \ {t} : Running(u) => job[u].call # k /\ job[u].call \in Calls
      /\ \A u \in Workers : rpc[u] = "ensure" => job[u].call # o
      /\ \A u \in Workers : Attached(u) => job[u].obj \in Calls /\ job[u].wf \in WfIds
      /\ \A u \in Workers : Attached(u) => Running(u)
  BY <1>1, <1>2, WorkerTyped
  DEF RecordInv, CallsInv, ObjectsInv, BirthsInv, Running, Attached
<1>7. CallsInv'
  <2>1. \A u \in Workers : Running(u)' => job'[u].call <= calls' /\ linked'[job'[u].call] = 0
    BY <1>3, <1>4, <1>5, <1>6 DEF RecordInv, CallsInv
  <2>2. \A u, v \in Workers :
          Running(u)' /\ Running(v)' /\ job'[u].call = job'[v].call => u = v
    BY <1>4, <1>5 DEF RecordInv, CallsInv
  <2>3. \A c \in Calls : c > calls' => linked'[c] = 0
    <3>1. \A c \in Calls : c > calls => c # k
      BY <1>1, <1>6, WorkerTyped
    <3> QED
      BY <3>1, <1>3, <1>4 DEF RecordInv, CallsInv
  <2> QED
    BY <2>1, <2>2, <2>3 DEF CallsInv
<1>8. ObjectsInv'
  BY <1>3, <1>4, <1>5, <1>6 DEF RecordInv, ObjectsInv
<1>9. BirthsInv'
  <2>1. \A x \in WfIds : memWf'[x] # 0 \/ dbWf'[x] # NoRow => births'[x] >= 1
    BY <1>3, <1>4, <1>6 DEF RecordInv, BirthsInv
  <2>2. \A c \in Calls : linked'[c] # 0 => births'[linked'[c]] >= 1
    BY <1>3, <1>4, <1>6 DEF RecordInv, BirthsInv
  <2>3. \A u \in Workers : Attached(u)' => births'[job'[u].wf] >= 1
    BY <1>4, <1>5 DEF RecordInv, BirthsInv
  <2> QED
    BY <2>1, <2>2, <2>3 DEF BirthsInv
<1>10. SharersInv'
  BY <1>4, <1>5 DEF RecordInv, SharersInv
<1>11. ASSUME RowsInv, dbUp PROVE RowsInv'
  <2>1. o = k /\ \A u \in Workers \ {t} : Attached(u) => job[u].obj # o
    BY <1>1, <1>2, <1>6, <1>11 DEF RowsInv
  <2>2. \A x \in WfIds : memWf'[x] # 0 => dbWf'[x] # NoRow
    BY <1>3, <1>4, <1>6, <1>11 DEF RowsInv, NoRow
  <2>3. \A u \in Workers : Attached(u)' => job'[u].obj = job'[u].call
    BY <1>4, <1>5, <1>11 DEF RowsInv
  <2>4. ASSUME NEW c \in Calls, linked'[c] # 0, births'[linked'[c]] <= 1
        PROVE  c \in dbWf'[linked'[c]] \cup rivals'
    <3>1. CASE c = k
      BY <3>1, <1>3, <1>4, <1>11
    <3>2. CASE c # k /\ linked[c] = w
      <4>1. c \in objects[job[t].obj] \cup rivals
        BY <2>4, <3>2, <1>1, <1>2, <1>3, <1>4, <1>11 DEF RowsInv
      <4> QED
        BY <3>2, <4>1, <1>2, <1>3, <1>4, <1>11
    <3>3. CASE c # k /\ linked[c] # w
      <4>1. linked[c] \in WfIds \ {w}
        BY <2>4, <3>3, <1>1, <1>3, WorkerTyped
      <4> QED
        BY <2>4, <3>3, <4>1, <1>3, <1>4, <1>11 DEF RowsInv
    <3> QED
      BY <3>1, <3>2, <3>3
  <2>5. ASSUME NEW c \in Calls, NEW u \in Workers,
               Attached(u)', linked'[c] = job'[u].wf, births'[linked'[c]] <= 1
        PROVE  c \in objects'[job'[u].obj] \cup rivals'
    <3>1. u # t /\ Attached(u) /\ job'[u] = job[u]
      BY <2>5, <1>4, <1>5
    <3>2. CASE c = k
      <4>1. job[t].call \in rivals
        BY <2>5, <3>1, <3>2, <1>1, <1>2, <1>3 DEF RecordInv, SharersInv
      <4> QED
        BY <3>2, <4>1, <1>2, <1>4
    <3>3. CASE c # k
      <4>1. objects'[job[u].obj] = objects[job[u].obj]
        BY <2>1, <3>1, <1>3, <1>6
      <4> QED
        BY <2>5, <3>1, <3>3, <4>1, <1>3, <1>4, <1>11 DEF RowsInv
    <3> QED
      BY <3>2, <3>3
  <2> QED
    BY <2>2, <2>3, <2>4, <2>5 DEF RowsInv
<1>12. ASSUME MemoryInv, ~dbUp PROVE MemoryInv'
  <2>1. births[w] <= 1 => memWf[w] = o
    BY <1>1, <1>2, <1>12 DEF MemoryInv
  <2>2. \A x \in WfIds : dbWf'[x] = NoRow
    BY <1>4, <1>12 DEF MemoryInv
  <2>3. ASSUME NEW u \in Workers, Attached(u)', births'[job'[u].wf] <= 1
        PROVE  job'[u].obj = memWf'[job'[u].wf]
    <3>1. Attached(u) /\ job'[u] = job[u] /\ job[u].obj = memWf[job[u].wf] /\ job[u].wf \in WfIds
      BY <2>3, <1>4, <1>5, <1>6, <1>12 DEF MemoryInv
    <3> QED
      BY <2>1, <2>3, <3>1, <1>3, <1>4
  <2>4. ASSUME NEW c \in Calls, linked'[c] # 0, births'[linked'[c]] <= 1,
               memWf'[linked'[c]] # 0
        PROVE  c \in objects'[memWf'[linked'[c]]]
    <3>1. CASE c = k
      BY <3>1, <1>3
    <3>2. CASE c # k
      <4>1. linked[c] \in WfIds /\ linked'[c] = linked[c] /\ births[linked[c]] <= 1
        BY <2>4, <3>2, <1>1, <1>3, <1>4, WorkerTyped
      <4>2. memWf'[linked[c]] = memWf[linked[c]] /\ memWf[linked[c]] # 0
        BY <2>1, <2>4, <4>1, <1>3, <1>6
      <4>3. c \in objects[memWf[linked[c]]] /\ memWf[linked[c]] \in Calls
        BY <4>1, <4>2, <1>1, <1>12, WorkerTyped DEF MemoryInv
      <4> QED
        BY <4>1, <4>2, <4>3, <1>3
    <3> QED
      BY <3>1, <3>2
  <2> QED
    BY <2>2, <2>3, <2>4 DEF MemoryInv
<1> QED
  BY <1>4, <1>7, <1>8, <1>9, <1>10, <1>11, <1>12 DEF RecordInv

LEMMA RecordStarts == WorkflowInit => RecordInv
BY DEF WorkflowInit, RuntimeInit, RecordInv, CallsInv, ObjectsInv, BirthsInv, SharersInv,
       RowsInv, MemoryInv, Running, Attached

LEMMA RecordNext == Typed /\ RecordInv /\ [WorkflowNext]_workflowVars => RecordInv'
<1> SUFFICES ASSUME Typed, RecordInv, [WorkflowNext]_workflowVars PROVE RecordInv'
  OBVIOUS
<1>1. ASSUME NEW t \in Workers, RunAgent(t) PROVE RecordInv'
  BY <1>1, LoadKeepsRecords, ShareKeepsRecords, NewKeepsRecords, LinkKeepsRecords,
     QuietKeepsRecords DEF RunAgent
<1>2. ASSUME NEW t \in Workers, NEW r \in Requests, Duplicate(t, r) \/ BeginRun(t, r)
      PROVE  RecordInv'
  BY <1>2, BeginKeepsRecords, QuietKeepsRecords
<1>3. CASE UNCHANGED runtimeVars \/ Environment \/ TurnSwitches \/ \E t \in Workers : Reply(t)
  BY <1>3, QuietKeepsRecords
<1> QED
  BY RuntimeSteps, RestartKeepsRecords, FlowKeepsRecords, <1>1, <1>2, <1>3

\* A finished run is found in the record of its workflow, unless it shared the record
\* with another run that had loaded its own copy (get_workflow_run, store_workflow_run),
\* or the record's id was given out twice; for any number of runs and workers, with
\* Postgres up or down throughout, across restarts and Redis outages.
THEOREM RecordsKeepRuns == WorkflowSpec => []LostOnlyToRivals
<1>1. Typed /\ RecordInv => LostOnlyToRivals
  <2> SUFFICES ASSUME Typed, RecordInv, "db" \notin mishaps, NEW c \in Calls,
                      linked[c] # 0, births[linked[c]] <= 1, dbUp \/ memWf[linked[c]] # 0
               PROVE  c \in Record(linked[c]) \/ (dbUp /\ c \in rivals)
    BY DEF LostOnlyToRivals
  <2>1. CASE dbUp
    BY <2>1 DEF RecordInv, RowsInv, Record
  <2>2. CASE ~dbUp
    BY <2>2 DEF RecordInv, MemoryInv, Record
  <2> QED
    BY <2>1, <2>2
<1> QED
  BY <1>1, RecordStarts, InitTyped, NextTyped, RecordNext, PTL DEF WorkflowSpec

----------------------------------------------------------------------------
(* The daily limit *)

Rows       == {f \in Flows : dbFlows[f] # NoResponse}
InProgress == {f \in Flows : \E t \in Workers : flow[t].at # "idle" /\ flow[t].id = f}

\* Runs that were let through and are gone without a row.
Killed == admitted \ (Rows \cup InProgress)

\* Why the limit is exceeded by no more than the workers: with Postgres stable, a run
\* that was let through is in progress or has its row, unless a restart killed it.
LimitInv ==
  DbStable =>
    /\ "restart" \notin mishaps => Killed = {}
    /\ Cardinality(Killed) <= Cardinality(Workers)
    /\ DailyLimitBound

LEMMA FlowsFinite ==
  \A S \in SUBSET Flows : IsFiniteSet(S) /\ Cardinality(S) \in Nat
<1>1. IsFiniteSet(Flows)
  BY FS_Interval, Bounds DEF Flows
<1> QED
  BY <1>1, FS_Subset, FS_CardinalityType

\* A worker has one run in progress at most.
LEMMA OneEach == Cardinality(InProgress) <= Cardinality(Workers) /\ Cardinality(Workers) \in Nat
<1> DEFINE f == [t \in Workers |-> flow[t].id]
           ids == {flow[t].id : t \in Workers}
<1>1. f \in Surjection(Workers, ids)
  BY DEF Surjection
<1>2. IsFiniteSet(Workers) /\ Cardinality(Workers) \in Nat
  BY ThreadsAssumption, FS_CardinalityType
<1>3. IsFiniteSet(ids) /\ Cardinality(ids) <= Cardinality(Workers) /\ Cardinality(ids) \in Nat
  BY <1>1, <1>2, FS_Surjection, FS_CardinalityType
<1>4. InProgress \in SUBSET ids
  BY DEF InProgress
<1> HIDE DEF f, ids
<1>5. Cardinality(InProgress) <= Cardinality(ids) /\ Cardinality(InProgress) \in Nat
  BY <1>3, <1>4, FS_Subset, FS_CardinalityType
<1> QED
  BY <1>2, <1>3, <1>5

LEMMA SmallerSet ==
  ASSUME NEW S \in SUBSET Flows, NEW U \in SUBSET S
  PROVE  Cardinality(U) <= Cardinality(S) /\ Cardinality(U) \in Nat /\ Cardinality(S) \in Nat
BY FlowsFinite, FS_Subset

\* A step that lets nobody through and kills nobody.
LEMMA LimitStays ==
  ASSUME Typed, LimitInv, admitted' = admitted, mishaps \subseteq mishaps',
         DbStable' => DbStable,
         DbStable' => Rows \cup InProgress \subseteq Rows' \cup InProgress'
  PROVE  LimitInv'
<1> SUFFICES ASSUME DbStable' PROVE LimitInv'
  BY DEF LimitInv
<1>1. Killed' \in SUBSET Killed /\ Killed \in SUBSET Flows
  BY DEF Killed, Typed, FlowsTyped
<1>2. /\ "restart" \notin mishaps => Killed = {}
      /\ Cardinality(Killed) <= Cardinality(Workers)
      /\ DailyLimitBound
  BY DEF LimitInv
<1>3. Cardinality(Killed') <= Cardinality(Killed) /\ Cardinality(Killed') \in Nat
      /\ Cardinality(Killed) \in Nat
  BY <1>1, SmallerSet
<1>4. "restart" \notin mishaps' => Killed' = {}
  BY <1>1, <1>2
<1>5. Cardinality(Killed') <= Cardinality(Workers)
  BY <1>2, <1>3, OneEach
<1>6. Cardinality(admitted) \in Nat
  BY FlowsFinite DEF Typed, FlowsTyped
<1>7. DailyLimitBound'
  BY <1>2, <1>6, OneEach, PlanAssumption DEF DailyLimitBound
<1> QED
  BY <1>4, <1>5, <1>7 DEF LimitInv

\* Governance lets a run through.
LEMMA GovernKeepsLimit ==
  ASSUME Typed, LimitInv, NEW t \in Workers, Govern(t)
  PROVE  LimitInv'
<1>1. /\ flow[t].at = "govern" /\ flow[t].id \in Flows
      /\ UNCHANGED <<dbFlows, mishaps, dbUp>>
  BY DEF Govern, At, Typed, Started, runtimeVars, faults
<1>2. /\ flow'[t].at = "create" /\ flow'[t].id = flow[t].id
      /\ \A u \in Workers \ {t} : flow'[u] = flow[u]
  BY GovernTyped
<1>3. Rows' = Rows /\ InProgress' = InProgress /\ flow[t].id \in InProgress
  BY <1>1, <1>2 DEF Rows, InProgress
<1>4. DbStable' = DbStable
  BY <1>1 DEF DbStable
<1>5. CASE admitted' = admitted
  BY <1>1, <1>3, <1>4, <1>5, LimitStays
<1>6. CASE admitted' # admitted
  <2> SUFFICES ASSUME DbStable PROVE LimitInv'
    BY <1>4 DEF LimitInv
  <2>1. ~GovernanceBlocks /\ admitted' = admitted \cup {flow[t].id}
    BY <1>6 DEF Govern
  <2>2. Cardinality(Rows) < DailyLimit
    BY <2>1, FlowsFinite, PlanAssumption DEF GovernanceBlocks, TodayRuns, DbStable, Rows
  <2>3. Killed' = Killed
    BY <2>1, <1>3 DEF Killed
  <2>4. admitted' \in SUBSET (Killed \cup (Rows \cup InProgress))
    BY <2>1, <1>3 DEF Killed
  <2>5. Killed \in SUBSET Flows /\ Rows \in SUBSET Flows /\ InProgress \in SUBSET Flows
    BY DEF Killed, Rows, InProgress, Typed, FlowsTyped
  <2> DEFINE a == Cardinality(admitted')  k == Cardinality(Killed)  r == Cardinality(Rows)
             p == Cardinality(InProgress)  both == Cardinality(Rows \cup InProgress)
             all == Cardinality(Killed \cup (Rows \cup InProgress))
  <2>6. all <= k + both /\ both <= r + p
    <3>1. /\ IsFiniteSet(Killed) /\ IsFiniteSet(Rows) /\ IsFiniteSet(InProgress)
          /\ IsFiniteSet(Rows \cup InProgress)
      BY <2>5, FlowsFinite
    <3>2. /\ all = k + both - Cardinality(Killed \cap (Rows \cup InProgress))
          /\ both = r + p - Cardinality(Rows \cap InProgress)
      BY <3>1, FS_Union
    <3>3. /\ Cardinality(Killed \cap (Rows \cup InProgress)) \in Nat
          /\ Cardinality(Rows \cap InProgress) \in Nat
          /\ all \in Nat /\ both \in Nat /\ k \in Nat /\ r \in Nat /\ p \in Nat
      BY <2>5, FlowsFinite
    <3> QED
      BY <3>2, <3>3
  <2>7. a <= all
    BY <2>4, <2>5, SmallerSet
  <2>8. /\ a \in Nat /\ all \in Nat /\ both \in Nat /\ k \in Nat /\ r \in Nat /\ p \in Nat
        /\ Cardinality(Workers) \in Nat /\ p <= Cardinality(Workers)
    <3>1. admitted' \in SUBSET Flows
      BY <2>4, <2>5
    <3> QED
      BY <3>1, <2>5, FlowsFinite, OneEach
  <2>9. k <= IF "restart" \in mishaps THEN Cardinality(Workers) ELSE 0
    BY FS_EmptySet, <2>8 DEF LimitInv
  <2> HIDE DEF a, k, r, p, both, all
  <2>10. DailyLimit \in Nat /\ r < DailyLimit
    BY <2>2, PlanAssumption DEF r
  <2>11. a <= DailyLimit - 1 + Cardinality(Workers)
                + (IF "restart" \in mishaps THEN Cardinality(Workers) ELSE 0)
    BY <2>6, <2>7, <2>8, <2>9, <2>10
  <2> QED
    BY <2>3, <2>11, <1>1 DEF LimitInv, DailyLimitBound, a
<1> QED
  BY <1>5, <1>6

\* The process stops: what was in progress is gone.
LEMMA RestartKeepsLimit ==
  ASSUME Typed, LimitInv, RestartFlows
  PROVE  LimitInv'
<1> SUFFICES ASSUME DbStable' PROVE LimitInv'
  BY DEF LimitInv
<1>1. /\ "restart" \notin mishaps /\ "restart" \in mishaps' /\ mishaps \subseteq mishaps'
      /\ UNCHANGED <<dbUp, dbFlows, admitted>>
  BY DEF RestartFlows, RestartRuntime, Mishap
<1>2. DbStable
  BY <1>1 DEF DbStable
<1>3. Killed = {} /\ DailyLimitBound
  BY <1>1, <1>2 DEF LimitInv
<1>4. Killed' \in SUBSET InProgress /\ InProgress \in SUBSET Flows
  BY <1>1, <1>3 DEF Killed, Rows, InProgress
<1>5. Cardinality(Killed') <= Cardinality(InProgress) /\ Cardinality(Killed') \in Nat
      /\ Cardinality(InProgress) \in Nat
  BY <1>4, SmallerSet
<1>6. Cardinality(Killed') <= Cardinality(Workers)
  BY <1>5, OneEach
<1>7. Cardinality(admitted) \in Nat
  BY FlowsFinite DEF Typed, FlowsTyped
<1>8. DailyLimitBound'
  BY <1>1, <1>2, <1>3, <1>7, OneEach, PlanAssumption DEF DailyLimitBound
<1> QED
  BY <1>1, <1>6, <1>8 DEF LimitInv

\* A run is over, and has its row.
LEMMA PersistKeepsLimit ==
  ASSUME Typed, LimitInv, NEW t \in Workers, PersistFlow(t)
  PROVE  LimitInv'
<1>1. PICK i \in Flows : i = flow[t].id
  BY DEF PersistFlow, At, Typed, Started
<1>2. PICK s, w, a, runs :
        /\ s \in Statuses /\ s # "none"
        /\ dbFlows' = IF dbUp
                      THEN [dbFlows EXCEPT ![i] =
                             [[status |-> s, wr |-> w, approval |-> a, runs |-> runs]
                                EXCEPT !.approval = 0]]
                      ELSE dbFlows
  BY <1>1 DEF PersistFlow, FinalStatus, Statuses
<1>3. UNCHANGED <<admitted, mishaps, dbUp>> /\ DbStable' = DbStable
  BY DEF PersistFlow, runtimeVars, faults, DbStable
<1>4. \A u \in Workers \ {t} : flow'[u] = flow[u]
  BY DEF PersistFlow, Typed, FlowsTyped
<1>5. ASSUME DbStable PROVE Rows \cup InProgress \subseteq Rows' \cup InProgress'
  <2>1. dbFlows'[i].status = s /\ \A f \in Flows \ {i} : dbFlows'[f] = dbFlows[f]
    BY <1>2, <1>5 DEF DbStable, Typed, FlowsTyped
  <2>2. dbFlows'[i] # NoResponse
    BY <2>1, <1>2 DEF NoResponse
  <2>3. i \in Rows' /\ Rows \subseteq Rows'
    BY <2>1, <2>2 DEF Rows
  <2>4. InProgress \subseteq InProgress' \cup {i}
    BY <1>1, <1>4 DEF InProgress
  <2> QED
    BY <2>3, <2>4
<1> QED
  BY <1>3, <1>5, LimitStays

\* Steps of a run that stay in progress.
LEMMA ProgressStays ==
  ASSUME Typed, NEW t \in Workers,
         UNCHANGED dbFlows,
         flow[t].at = "idle" \/ (flow'[t].at # "idle" /\ flow'[t].id = flow[t].id),
         \A u \in Workers \ {t} : flow'[u] = flow[u]
  PROVE  Rows' = Rows /\ InProgress \subseteq InProgress'
BY DEF Rows, InProgress

LEMMA LimitNext == Typed /\ LimitInv /\ [WorkflowNext]_workflowVars => LimitInv'
<1> SUFFICES ASSUME Typed, LimitInv, [WorkflowNext]_workflowVars PROVE LimitInv'
  OBVIOUS
<1>1. ASSUME UNCHANGED <<admitted, dbFlows, flow>>, mishaps \subseteq mishaps',
             DbStable' => DbStable
      PROVE  LimitInv'
  BY <1>1, LimitStays DEF Rows, InProgress
<1>2. ASSUME NEW t \in Workers, NEW opt \in Options, NEW rejected \in BOOLEAN,
             StartFlow(t, opt, rejected)
      PROVE  LimitInv'
  <2>1. /\ flow[t].at = "idle" /\ \A u \in Workers \ {t} : flow'[u] = flow[u]
        /\ UNCHANGED <<admitted, dbFlows, mishaps, dbUp>>
    BY <1>2, StartTyped DEF StartFlow, At, runtimeVars, faults
  <2> QED
    BY <2>1, ProgressStays, LimitStays DEF DbStable
<1>3. ASSUME NEW t \in Workers, FlowStep(t)
      PROVE  LimitInv'
  <2>1. CASE CreateFlowRecord(t)
    <3>1. flow'[t].at # "idle" /\ flow'[t].id = flow[t].id
          /\ \A u \in Workers \ {t} : flow'[u] = flow[u]
      BY <2>1, CreateTyped
    <3>2. UNCHANGED <<admitted, dbFlows, mishaps, dbUp>>
      BY <2>1 DEF CreateFlowRecord, faults
    <3> QED
      BY <3>1, <3>2, ProgressStays, LimitStays DEF DbStable
  <2>2. ASSUME NEW found \in BOOLEAN, StageReturns(t, found) PROVE LimitInv'
    <3>1. flow'[t].at # "idle" /\ flow'[t].id = flow[t].id
          /\ \A u \in Workers \ {t} : flow'[u] = flow[u]
      BY <2>2, ReturnTyped
    <3>2. UNCHANGED <<admitted, dbFlows, mishaps, dbUp>>
      BY <2>2 DEF StageReturns, Reply, faults
    <3> QED
      BY <3>1, <3>2, ProgressStays, LimitStays DEF DbStable
  <2>3. CASE StageRaises(t)
    <3>1. flow'[t].at = "persist" /\ flow'[t].id = flow[t].id
          /\ \A u \in Workers \ {t} : flow'[u] = flow[u]
      BY <2>3, RaiseTyped
    <3>2. UNCHANGED <<admitted, dbFlows, mishaps, dbUp>>
      BY <2>3 DEF StageRaises, Reply, faults
    <3> QED
      BY <3>1, <3>2, ProgressStays, LimitStays DEF DbStable
  <2>4. CASE BeginStage(t) \/ ApprovalItemCreated(t) \/ RunAgentStep(t)
    <3>1. UNCHANGED <<admitted, dbFlows, flow, mishaps, dbUp>>
      BY <2>4 DEF BeginStage, BeginRun, ApprovalItemCreated, WrapperReturns, RunAgentStep, RunAgent,
         LoadRow, ShareObject, NewRecord, WrapperRaises, IndexRun, LinkRun, flowVars, faults
    <3> QED
      BY <3>1, <1>1 DEF DbStable
  <2> QED
    BY <1>3, <2>1, <2>2, <2>3, <2>4, GovernKeepsLimit, PersistKeepsLimit DEF FlowStep
<1>4. ASSUME NEW t \in Workers, NEW agent \in ClientAgents, NEW wf \in 0 .. clock,
             ClientAsks(t, agent, wf)
      PROVE  LimitInv'
  <2>1. UNCHANGED <<admitted, dbFlows, flow, mishaps, dbUp>>
    BY <1>4 DEF ClientAsks, Duplicate, BeginRun, faults
  <2> QED
    BY <2>1, <1>1 DEF DbStable
<1>5. ASSUME NEW t \in Workers, ClientReply(t)
      PROVE  LimitInv'
  <2>1. UNCHANGED <<admitted, dbFlows, flow, mishaps, dbUp>>
    BY <1>5 DEF ClientReply, Reply, flowVars, faults
  <2> QED
    BY <2>1, <1>1 DEF DbStable
<1>6. CASE (Environment /\ UNCHANGED flowVars) \/ TurnSwitches
  <2>1. UNCHANGED <<admitted, dbFlows, flow>> /\ mishaps \subseteq mishaps'
        /\ (DbStable' => DbStable)
    BY <1>6 DEF Environment, NextSecond, LockExpires, FlipRedis, FlipDb, TurnSwitches, Mishap,
                flowVars, faults, DbStable
  <2> QED
    BY <2>1, <1>1
<1>7. CASE ListFlows \/ UNCHANGED workflowVars
  <2>1. UNCHANGED <<admitted, dbFlows, flow, mishaps, dbUp>>
    BY <1>7 DEF ListFlows, workflowVars, runtimeVars, flowVars, faults
  <2> QED
    BY <2>1, <1>1 DEF DbStable
<1> QED
  BY <1>2, <1>3, <1>4, <1>5, <1>6, <1>7, RestartKeepsLimit DEF WorkflowNext

\* With Postgres up, the runs let through exceed max_daily_workflow_runs by no more than
\* the other workers, plus the runs a restart kills before their row is written
\* (check_governance counts rows, _persist_run writes them at the end), for any number
\* of workers and runs.
THEOREM LimitNearlyKept == WorkflowSpec => []DailyLimitBound
<1>1. WorkflowInit => LimitInv
  <2> SUFFICES ASSUME WorkflowInit PROVE LimitInv
    OBVIOUS
  <2>1. admitted = {} /\ Killed = {}
    BY DEF WorkflowInit, Killed
  <2> QED
    BY <2>1, FS_EmptySet, OneEach, PlanAssumption DEF LimitInv, DailyLimitBound
<1>2. Typed /\ LimitInv => DailyLimitBound
  BY DEF LimitInv, DailyLimitBound
<1> QED
  BY <1>1, <1>2, InitTyped, NextTyped, LimitNext, PTL DEF WorkflowSpec

----------------------------------------------------------------------------
(* From a response to its runs *)

\* The runs have their rows and are appended to record w.
Traced(w, runs) == \A c \in runs : c \in dbRuns /\ linked[c] = w /\ w # 0

RunTraced(t) ==
  /\ rpc[t] \in {"index", "link"} => job[t].call \in dbRuns
  /\ rpc[t] = "answered" /\ job[t].answer = "returned" => Traced(job[t].wf, {job[t].call})

\* A stage runs on the record of its workflow run.
OnOwnRecord(t) ==
  flow[t].at = "stage" =>
    /\ flow[t].wr \in WfIds /\ dbWf[flow[t].wr] # NoRow
    /\ rpc[t] = "ensure" => job[t].req.wf = flow[t].wr
    /\ Attached(t) \/ (rpc[t] = "answered" /\ job[t].answer = "returned")
         => job[t].wf = flow[t].wr

FlowTraced(t) ==
  /\ OnOwnRecord(t)
  /\ flow[t].at \in {"govern", "create"} => flow[t].runs = {}
  /\ Traced(flow[t].wr, flow[t].runs)

ResponsesTraced ==
  \A f \in Flows : /\ Traced(memFlows[f].wr, memFlows[f].runs)
                   /\ Traced(dbFlows[f].wr, dbFlows[f].runs)

\* Why a response leads to its runs: with Postgres stable, each was stored before it was
\* indexed and appended, to the record of the workflow run that asked for it.
TraceInv ==
  DbStable => (\A t \in Workers : RunTraced(t) /\ FlowTraced(t)) /\ ResponsesTraced

\* With Postgres stable, no row of a run or of a record goes, and an appended run stays
\* where it is.
TrailsGrow ==
  /\ DbStable /\ dbRuns \subseteq dbRuns'
  /\ \A c \in Calls : linked[c] # 0 => linked'[c] = linked[c]
  /\ \A w \in WfIds : dbWf[w] # NoRow => dbWf'[w] # NoRow

LEMMA TrailsOnlyGrow ==
  ASSUME Typed, RecordInv, [WorkflowNext]_workflowVars, DbStable'
  PROVE  TrailsGrow
<1>1. RuntimeTyped /\ RuntimeTypeOK
  BY DEF Typed, RuntimeTyped
<1>2. CASE UNCHANGED runtimeVars \/ Environment \/ TurnSwitches \/ RestartRuntime
  BY <1>2 DEF runtimeVars, stores, trails, faults, Environment, NextSecond, LockExpires,
              FlipRedis, FlipDb, TurnSwitches, RestartRuntime, Mishap, DbStable, TrailsGrow
<1>3. ASSUME NEW t \in Workers, NEW r \in Requests, Duplicate(t, r) \/ BeginRun(t, r)
      PROVE  TrailsGrow
  BY <1>3 DEF Duplicate, BeginRun, trails, faults, DbStable, TrailsGrow
<1>4. ASSUME NEW t \in Workers, Reply(t) PROVE TrailsGrow
  BY <1>4 DEF Reply, stores, trails, faults, DbStable, TrailsGrow
<1>5. ASSUME NEW k \in Calls, CreateRecord(k), UNCHANGED <<dbUp, mishaps, dbRuns, linked>>
      PROVE  TrailsGrow
  <2>1. DbStable /\ clock \in WfIds
    BY <1>1, <1>5, WorkerTyped DEF DbStable
  <2>2. dbWf' = [dbWf EXCEPT ![clock] = {}] /\ {} # NoRow
    BY <1>5, <2>1 DEF CreateRecord, DbStable, NoRow
  <2>3. \A w \in WfIds : dbWf[w] # NoRow => dbWf'[w] # NoRow
    BY <2>2, <1>1 DEF RuntimeTypeOK
  <2> QED
    BY <2>1, <2>3, <1>5 DEF TrailsGrow
<1>6. ASSUME NEW t \in Workers, CreateFlowRecord(t) PROVE TrailsGrow
  <2>1. calls + 1 \in Calls
    <3>1. calls < MaxCalls /\ calls \in 0 .. MaxCalls
      BY <1>1, <1>6 DEF CreateFlowRecord, RuntimeTypeOK
    <3> QED
      BY <3>1, Bounds DEF Calls
  <2> QED
    BY <2>1, <1>5, <1>6 DEF CreateFlowRecord, faults
<1>7. ASSUME NEW t \in Workers, RunAgent(t) PROVE TrailsGrow
  <2>1. CASE NewRecord(t)
    <3>1. job[t].call \in Calls
      BY <1>1, <2>1, WorkerTyped DEF NewRecord, Goes, Running
    <3> QED
      BY <3>1, <2>1, <1>5 DEF NewRecord, faults
  <2>2. CASE LoadRow(t) \/ ShareObject(t) \/ WrapperReturns(t) \/ WrapperRaises(t) \/ IndexRun(t)
    BY <2>2 DEF LoadRow, ShareObject, WrapperReturns, WrapperRaises, IndexRun, stores, trails,
                faults, DbStable, TrailsGrow
  <2>3. CASE LinkRun(t)
    <3>1. rpc[t] = "link" /\ UNCHANGED <<dbUp, mishaps, dbRuns>> /\ DbStable
      BY <2>3 DEF LinkRun, Goes, faults, DbStable
    <3>2. job[t].call \in Calls /\ job[t].wf \in WfIds /\ linked[job[t].call] = 0
      BY <3>1, <1>1, WorkerTyped DEF RecordInv, CallsInv, Running, Attached
    <3>3. \A c \in Calls : linked[c] # 0 => linked'[c] = linked[c]
      BY <3>2, <2>3, <1>1 DEF LinkRun, RuntimeTypeOK
    <3>4. job[t].call \in dbWf'[job[t].wf] /\ job[t].call \notin NoRow
      BY <3>1, <3>2, <2>3, <1>1, WorkerTyped DEF LinkRun, RuntimeTypeOK, DbStable, NoRow
    <3>5. \A w \in WfIds \ {job[t].wf} : dbWf'[w] = dbWf[w]
      BY <2>3, <1>1 DEF LinkRun, RuntimeTypeOK
    <3> QED
      BY <3>1, <3>3, <3>4, <3>5 DEF TrailsGrow
  <2> QED
    BY <1>7, <2>1, <2>2, <2>3 DEF RunAgent
<1> QED
  BY RuntimeSteps, <1>2, <1>3, <1>4, <1>6, <1>7

LEMMA TracedStays ==
  ASSUME TrailsGrow, NEW w, NEW runs \in SUBSET Calls, Traced(w, runs)
  PROVE  \A c \in runs : c \in dbRuns' /\ linked'[c] = w /\ w # 0
BY DEF TrailsGrow, Traced

\* Whoever does not move stays traced.
LEMMA OthersStayTraced ==
  ASSUME Typed, TraceInv, TrailsGrow, NEW u \in Workers,
         rpc'[u] = rpc[u], job'[u] = job[u]
  PROVE  /\ RunTraced(u)'
         /\ flow'[u] = flow[u] => FlowTraced(u)'
<1>1. RunTraced(u) /\ FlowTraced(u)
  BY DEF TraceInv, TrailsGrow
<1>2. flow[u].runs \in SUBSET Calls
  BY DEF Typed, FlowsTyped, Flow
<1>3. RunTraced(u)'
  <2>1. rpc'[u] \in {"index", "link"} => job'[u].call \in dbRuns'
    BY <1>1 DEF RunTraced, TrailsGrow
  <2>2. ASSUME rpc'[u] = "answered", job'[u].answer = "returned"
        PROVE  /\ job'[u].call \in dbRuns' /\ linked'[job'[u].call] = job'[u].wf
               /\ job'[u].wf # 0
    <3>1. PICK c, w : c \in Calls /\ c = job[u].call /\ w = job[u].wf
      BY <2>2 DEF Typed, RuntimeTyped, Busy
    <3>2. Traced(w, {c}) /\ {c} \in SUBSET Calls
      BY <1>1, <2>2, <3>1 DEF RunTraced
    <3>3. c \in dbRuns' /\ linked'[c] = w /\ w # 0
      BY <3>2, TracedStays
    <3> QED
      BY <3>1, <3>3
  <2> QED
    BY <2>1, <2>2 DEF RunTraced, Traced
<1>4. ASSUME flow'[u] = flow[u] PROVE FlowTraced(u)'
  <2>1. OnOwnRecord(u)'
    BY <1>1, <1>4 DEF FlowTraced, OnOwnRecord, Attached, TrailsGrow
  <2>2. \A c \in flow[u].runs : c \in dbRuns' /\ linked'[c] = flow[u].wr /\ flow[u].wr # 0
    BY <1>1, <1>2, TracedStays DEF FlowTraced
  <2> QED
    BY <1>1, <1>4, <2>1, <2>2 DEF FlowTraced, Traced
<1> QED
  BY <1>3, <1>4

\* A step of create_agent_run, of a worker whose workflow run waits for it.
LEMMA RunTracedNext ==
  ASSUME Typed, RecordInv, TraceInv, TrailsGrow, NEW t \in Workers, RunAgent(t)
  PROVE  /\ RunTraced(t)'
         /\ flow'[t] = flow[t] => FlowTraced(t)'
         /\ \A u \in Workers \ {t} : rpc'[u] = rpc[u] /\ job'[u] = job[u]
<1>1. RuntimeTyped /\ RuntimeTypeOK /\ DbStable /\ RunTraced(t) /\ FlowTraced(t)
  BY DEF Typed, RuntimeTyped, TraceInv, TrailsGrow
<1>2. Traced(flow[t].wr, flow[t].runs) /\ flow[t].runs \in SUBSET Calls
  BY <1>1 DEF FlowTraced, Typed, FlowsTyped, Flow
<1>3. ASSUME flow'[t] = flow[t], OnOwnRecord(t)' PROVE FlowTraced(t)'
  <2>1. \A c \in flow[t].runs : c \in dbRuns' /\ linked'[c] = flow[t].wr /\ flow[t].wr # 0
    BY <1>2, TracedStays
  <2> QED
    BY <1>1, <1>3, <2>1 DEF FlowTraced, Traced
<1>4. CASE LoadRow(t)
  <2>1. /\ rpc[t] = "ensure" /\ rpc'[t] = "work"
        /\ \A u \in Workers \ {t} : rpc'[u] = rpc[u]
    BY <1>1, <1>4 DEF LoadRow, Goes, RuntimeTypeOK
  <2>2. job[t].req.wf \in WfIds /\ job[t].call \in Calls
    BY SMTT(30), <1>1, <1>4, <2>1, Bounds, WorkerTyped
    DEF LoadRow, HasRow, RuntimeTypeOK, Job, Requests, WfIds, Running
  <2>3. job'[t].wf = job[t].req.wf /\ \A u \in Workers \ {t} : job'[u] = job[u]
    BY <1>1, <1>4, <2>1, <2>2, HoldsTyped DEF LoadRow
  <2>4. flow'[t] = flow[t] => OnOwnRecord(t)'
    BY <1>1, <2>1, <2>3 DEF FlowTraced, OnOwnRecord, TrailsGrow
  <2> QED
    BY <1>3, <2>1, <2>3, <2>4 DEF RunTraced
<1>5. CASE ShareObject(t) \/ NewRecord(t)
  <2>1. /\ rpc[t] = "ensure" /\ rpc'[t] = "work" /\ ~HasRow(job[t].req.wf)
        /\ \A u \in Workers \ {t} : rpc'[u] = rpc[u]
    BY <1>1, <1>5 DEF ShareObject, HasObject, NewRecord, Goes, RuntimeTypeOK
  <2>2. flow[t].at # "stage"
    BY <1>1, <2>1, WorkerTyped DEF FlowTraced, OnOwnRecord, HasRow, DbStable
  <2>3. \A u \in Workers \ {t} : job'[u] = job[u]
    BY <1>1, <1>5 DEF ShareObject, NewRecord, Holds, RuntimeTypeOK
  <2>4. flow'[t] = flow[t] => OnOwnRecord(t)'
    BY <2>2 DEF OnOwnRecord
  <2> QED
    BY <1>3, <2>1, <2>3, <2>4 DEF RunTraced
<1>6. CASE WrapperReturns(t)
  <2>1. /\ rpc[t] = "work" /\ rpc'[t] = "index"
        /\ \A u \in Workers \ {t} : rpc'[u] = rpc[u]
    BY <1>1, <1>6 DEF WrapperReturns, Goes, RuntimeTypeOK
  <2>2. /\ job'[t].wf = job[t].wf /\ job'[t].call = job[t].call
        /\ \A u \in Workers \ {t} : job'[u] = job[u]
    BY <1>1, <1>6, JobEnds DEF WrapperReturns, RuntimeTypeOK, Answers
  <2>3. job[t].call \in dbRuns'
    BY <1>1, <1>6 DEF WrapperReturns, DbStable
  <2>4. flow'[t] = flow[t] => OnOwnRecord(t)'
    BY <1>1, <2>1, <2>2 DEF FlowTraced, OnOwnRecord, Attached, TrailsGrow
  <2> QED
    BY <1>3, <2>1, <2>2, <2>3, <2>4 DEF RunTraced
<1>7. CASE WrapperRaises(t)
  <2>1. /\ rpc[t] = "work" /\ rpc'[t] = "answered"
        /\ \A u \in Workers \ {t} : rpc'[u] = rpc[u]
    BY <1>1, <1>7 DEF WrapperRaises, Goes, RuntimeTypeOK
  <2>2. job'[t].answer = "failed" /\ \A u \in Workers \ {t} : job'[u] = job[u]
    BY <1>1, <1>7, JobEnds DEF WrapperRaises, RuntimeTypeOK, Answers
  <2>3. flow'[t] = flow[t] => OnOwnRecord(t)'
    BY <1>1, <2>1, <2>2 DEF FlowTraced, OnOwnRecord, Attached, TrailsGrow
  <2> QED
    BY <1>3, <2>1, <2>2, <2>3 DEF RunTraced
<1>8. CASE IndexRun(t)
  <2>1. /\ rpc[t] = "index" /\ rpc'[t] = "link" /\ job' = job
        /\ \A u \in Workers \ {t} : rpc'[u] = rpc[u]
    BY <1>1, <1>8 DEF IndexRun, Goes, RuntimeTypeOK
  <2>2. flow'[t] = flow[t] => OnOwnRecord(t)'
    BY <1>1, <2>1 DEF FlowTraced, OnOwnRecord, Attached, TrailsGrow
  <2> QED
    BY <1>1, <1>3, <2>1, <2>2 DEF RunTraced, TrailsGrow
<1>9. CASE LinkRun(t)
  <2>1. /\ rpc[t] = "link" /\ rpc'[t] = "answered" /\ job' = job
        /\ \A u \in Workers \ {t} : rpc'[u] = rpc[u]
    BY <1>1, <1>9 DEF LinkRun, Goes, RuntimeTypeOK
  <2>2. job[t].call \in Calls /\ job[t].wf \in WfIds /\ job[t].wf # 0
    BY <2>1, <1>1, WorkerTyped DEF Running, Attached
  <2>3. linked'[job[t].call] = job[t].wf
    BY <2>2, <1>1, <1>9 DEF LinkRun, RuntimeTypeOK
  <2>4. job[t].call \in dbRuns'
    BY <1>1, <2>1 DEF RunTraced, TrailsGrow
  <2>5. flow'[t] = flow[t] => OnOwnRecord(t)'
    BY <1>1, <2>1 DEF FlowTraced, OnOwnRecord, Attached, TrailsGrow
  <2> QED
    BY <1>3, <2>1, <2>2, <2>3, <2>4, <2>5 DEF RunTraced, Traced
<1> QED
  BY <1>4, <1>5, <1>6, <1>7, <1>8, <1>9 DEF RunAgent

\* Responses that nobody touches.
LEMMA ResponsesStay ==
  ASSUME Typed, TraceInv, TrailsGrow, UNCHANGED <<memFlows, dbFlows>>
  PROVE  ResponsesTraced'
<1>1. ResponsesTraced
  BY DEF TraceInv, TrailsGrow
<1>2. ASSUME NEW f \in Flows
      PROVE  /\ \A c \in memFlows[f].runs :
                  c \in dbRuns' /\ linked'[c] = memFlows[f].wr /\ memFlows[f].wr # 0
             /\ \A c \in dbFlows[f].runs :
                  c \in dbRuns' /\ linked'[c] = dbFlows[f].wr /\ dbFlows[f].wr # 0
  <2>1. memFlows[f].runs \in SUBSET Calls /\ dbFlows[f].runs \in SUBSET Calls
    BY DEF Typed, FlowsTyped, Response
  <2> QED
    BY <1>1, <2>1, TracedStays DEF ResponsesTraced
<1> QED
  BY <1>2 DEF ResponsesTraced, Traced

\* A step of a workflow run that adds at most the run its agent returned.
LEMMA FlowMoves ==
  ASSUME Typed, TraceInv, TrailsGrow, NEW t \in Workers, OnOwnRecord(t)',
         flow'[t].wr = flow[t].wr \/ flow[t].runs = {},
         \/ flow'[t].runs = flow[t].runs
         \/ /\ flow'[t].runs = flow[t].runs \cup {job[t].call}
            /\ flow[t].at = "stage" /\ rpc[t] = "answered" /\ job[t].answer = "returned"
            /\ flow'[t].wr = flow[t].wr,
         flow'[t].at \in {"govern", "create"} => flow'[t].runs = {}
  PROVE  FlowTraced(t)'
<1>1. RunTraced(t) /\ FlowTraced(t) /\ flow[t].runs \in SUBSET Calls
      /\ (rpc[t] # "idle" => job[t].call \in Calls)
  BY DEF TraceInv, TrailsGrow, Typed, FlowsTyped, Flow, RuntimeTyped, Busy
<1>2. PICK w : w = flow[t].wr
  OBVIOUS
<1>3. \A c \in flow[t].runs : c \in dbRuns' /\ linked'[c] = w /\ w # 0
  BY <1>1, <1>2, TracedStays DEF FlowTraced
<1>4. ASSUME flow[t].at = "stage", rpc[t] = "answered", job[t].answer = "returned"
      PROVE  job[t].call \in dbRuns' /\ linked'[job[t].call] = w /\ w # 0
  <2>1. PICK c \in Calls : c = job[t].call
    BY <1>1, <1>4
  <2>2. Traced(w, {c}) /\ {c} \in SUBSET Calls
    BY <1>1, <1>2, <1>4, <2>1 DEF RunTraced, FlowTraced, OnOwnRecord
  <2>3. c \in dbRuns' /\ linked'[c] = w /\ w # 0
    BY <2>2, TracedStays
  <2> QED
    BY <2>1, <2>3
<1>5. \A c \in flow'[t].runs : c \in dbRuns' /\ linked'[c] = flow'[t].wr /\ flow'[t].wr # 0
  BY <1>2, <1>3, <1>4
<1> QED
  BY <1>5 DEF FlowTraced, Traced

LEMMA FlowStepKeepsTraced ==
  ASSUME Typed, RecordInv, TraceInv, TrailsGrow, NEW t \in Workers, FlowStep(t)
  PROVE  TraceInv'
<1>1. RuntimeTyped /\ RuntimeTypeOK /\ DbStable /\ RunTraced(t) /\ FlowTraced(t) /\ ResponsesTraced
  BY DEF Typed, RuntimeTyped, TraceInv, TrailsGrow
<1>2. ASSUME RunTraced(t)', FlowTraced(t)', ResponsesTraced',
             \A u \in Workers \ {t} : rpc'[u] = rpc[u] /\ job'[u] = job[u] /\ flow'[u] = flow[u]
      PROVE  TraceInv'
  BY <1>2, OthersStayTraced DEF TraceInv
<1>3. ASSUME UNCHANGED <<rpc, job>> PROVE RunTraced(t)'
  BY <1>3, OthersStayTraced
<1>4. CASE Govern(t)
  <2>1. /\ flow'[t].at = "create" /\ flow'[t].wr = flow[t].wr /\ flow'[t].runs = flow[t].runs
        /\ \A u \in Workers \ {t} : flow'[u] = flow[u]
    BY <1>4, GovernTyped
  <2>2. UNCHANGED <<rpc, job, memFlows, dbFlows>> /\ flow[t].at = "govern"
    BY <1>4 DEF Govern, At, runtimeVars
  <2>3. flow[t].runs = {} /\ OnOwnRecord(t)'
    BY <1>1, <2>1, <2>2 DEF FlowTraced, OnOwnRecord
  <2>4. FlowTraced(t)'
    BY <2>1, <2>3, FlowMoves
  <2> QED
    BY <1>2, <1>3, <2>1, <2>2, <2>4, ResponsesStay
<1>5. CASE CreateFlowRecord(t)
  <2>1. /\ flow'[t].at \in {"stage", "persist"} /\ flow'[t].wr = clock
        /\ flow'[t].runs = flow[t].runs
        /\ \A u \in Workers \ {t} : flow'[u] = flow[u]
    BY <1>5, CreateTyped
  <2>2. /\ UNCHANGED <<rpc, job, memFlows, dbFlows, dbUp>>
        /\ flow[t].at = "create" /\ rpc[t] = "idle"
    BY <1>5 DEF CreateFlowRecord, At, faults
  <2>3. clock \in WfIds /\ dbWf'[clock] # NoRow
    <3>1. dbWf' = [dbWf EXCEPT ![clock] = {}] /\ {} # NoRow
      BY <1>1, <1>5 DEF CreateFlowRecord, CreateRecord, DbStable, NoRow
    <3> QED
      BY <3>1, <1>1 DEF RuntimeTypeOK
  <2>4. flow[t].runs = {} /\ OnOwnRecord(t)'
    BY <1>1, <2>1, <2>2, <2>3 DEF FlowTraced, OnOwnRecord, Attached
  <2>5. FlowTraced(t)'
    BY <2>1, <2>4, FlowMoves
  <2> QED
    BY <1>2, <1>3, <2>1, <2>2, <2>5, ResponsesStay
<1>6. CASE BeginStage(t)
  <2>1. BeginRun(t, StageRequest(t)) /\ UNCHANGED <<flow, memFlows, dbFlows>>
        /\ flow[t].at = "stage"
    BY <1>6 DEF BeginStage, At, flowVars
  <2>2. PICK r \in Requests : r = StageRequest(t)
    BY <2>1, StageRequestTyped
  <2>3. calls + 1 \in 0 .. MaxCalls
    <3>1. calls < MaxCalls /\ calls \in 0 .. MaxCalls
      BY <1>1, <2>1 DEF BeginRun, RuntimeTypeOK
    <3> QED
      BY <3>1, Bounds
  <2>4. job'[t].req = r /\ \A u \in Workers \ {t} : job'[u] = job[u]
    BY <1>1, <2>1, <2>2, <2>3, JobBeginsAnew DEF BeginRun, RuntimeTypeOK
  <2>5. rpc'[t] = "ensure" /\ \A u \in Workers \ {t} : rpc'[u] = rpc[u]
    BY <1>1, <2>1 DEF BeginRun, Goes, RuntimeTypeOK
  <2>6. r.wf = flow[t].wr
    BY <2>2 DEF StageRequest
  <2>7. RunTraced(t)' /\ OnOwnRecord(t)'
    BY <1>1, <2>1, <2>4, <2>5, <2>6 DEF RunTraced, FlowTraced, OnOwnRecord, Attached, TrailsGrow
  <2>8. FlowTraced(t)'
    BY <2>1, <2>7, FlowMoves
  <2> QED
    BY <1>2, <2>1, <2>4, <2>5, <2>7, <2>8, ResponsesStay
<1>7. ASSUME Reply(t), UNCHANGED <<memFlows, dbFlows>>, flow'[t].wr = flow[t].wr,
             flow'[t].at \in {"stage", "persist"}, flow[t].at = "stage",
             \/ flow'[t].runs = flow[t].runs
             \/ /\ flow'[t].runs = flow[t].runs \cup {job[t].call}
                /\ rpc[t] = "answered" /\ job[t].answer = "returned",
             \A u \in Workers \ {t} : flow'[u] = flow[u]
      PROVE  TraceInv'
  <2>1. /\ rpc'[t] = "idle"
        /\ \A u \in Workers \ {t} : rpc'[u] = rpc[u] /\ job'[u] = job[u]
    BY <1>1, <1>7 DEF Reply, Goes, RuntimeTypeOK
  <2>2. RunTraced(t)' /\ OnOwnRecord(t)'
    BY <1>1, <1>7, <2>1 DEF RunTraced, FlowTraced, OnOwnRecord, Attached, TrailsGrow
  <2>3. FlowTraced(t)'
    BY <1>7, <2>2, FlowMoves
  <2> QED
    BY <1>2, <1>7, <2>1, <2>2, <2>3, ResponsesStay
<1>8. ASSUME NEW found \in BOOLEAN, StageReturns(t, found) PROVE TraceInv'
  <2>1. /\ flow'[t].at \in {"stage", "persist"} /\ flow'[t].wr = flow[t].wr
        /\ flow'[t].runs = flow[t].runs \cup {job[t].call}
        /\ \A u \in Workers \ {t} : flow'[u] = flow[u]
    BY <1>8, ReturnTyped
  <2>2. /\ Reply(t) /\ UNCHANGED <<memFlows, dbFlows>> /\ flow[t].at = "stage"
        /\ rpc[t] = "answered" /\ job[t].answer = "returned"
    BY <1>8 DEF StageReturns, Reply, Goes
  <2> QED
    BY <1>7, <2>1, <2>2
<1>9. CASE StageRaises(t)
  <2>1. /\ flow'[t].at = "persist" /\ flow'[t].wr = flow[t].wr
        /\ flow'[t].runs = flow[t].runs
        /\ \A u \in Workers \ {t} : flow'[u] = flow[u]
    BY <1>9, RaiseTyped
  <2>2. Reply(t) /\ UNCHANGED <<memFlows, dbFlows>> /\ flow[t].at = "stage"
    BY <1>9 DEF StageRaises
  <2> QED
    BY <1>7, <2>1, <2>2
<1>10. CASE PersistFlow(t)
  <2>1. UNCHANGED <<rpc, job, dbRuns, linked>>
    BY <1>10 DEF PersistFlow, runtimeVars, stores, trails
  <2>2. flow'[t] = IdleFlow /\ \A u \in Workers \ {t} : flow'[u] = flow[u]
    BY <1>10, PersistTyped
  <2>3. FlowTraced(t)'
    BY <2>2 DEF FlowTraced, OnOwnRecord, Traced, IdleFlow
  <2>4. PICK i, w, runs :
          i \in Flows /\ i = flow[t].id /\ w = flow[t].wr /\ runs = flow[t].runs
    BY <1>10 DEF PersistFlow, At, Typed, Started
  <2>5. PICK s, a :
          LET response == [status |-> s, wr |-> w, approval |-> a, runs |-> runs] IN
          /\ memFlows' = [memFlows EXCEPT ![i] = response]
          /\ dbFlows' = IF dbUp THEN [dbFlows EXCEPT ![i] = [response EXCEPT !.approval = 0]]
                        ELSE dbFlows
    BY <1>10, <2>4 DEF PersistFlow
  <2>6. /\ memFlows'[i].wr = w /\ memFlows'[i].runs = runs
        /\ dbFlows'[i].wr = w /\ dbFlows'[i].runs = runs
        /\ \A f \in Flows \ {i} : memFlows'[f] = memFlows[f] /\ dbFlows'[f] = dbFlows[f]
    BY <1>1, <2>4, <2>5 DEF DbStable, Typed, FlowsTyped
  <2>7. Traced(w, runs)
    BY <1>1, <2>4 DEF FlowTraced
  <2>8. ResponsesTraced'
    BY <1>1, <2>1, <2>6, <2>7 DEF ResponsesTraced, Traced
  <2> QED
    BY <1>2, <1>3, <2>1, <2>2, <2>3, <2>8
<1>11. CASE ApprovalItemCreated(t) \/ RunAgentStep(t)
  <2>1. RunAgent(t) /\ UNCHANGED <<flow, memFlows, dbFlows>>
    BY <1>11 DEF ApprovalItemCreated, RunAgentStep, RunAgent, flowVars
  <2> QED
    BY <1>2, <2>1, RunTracedNext, ResponsesStay
<1> QED
  BY <1>4, <1>5, <1>6, <1>8, <1>9, <1>10, <1>11 DEF FlowStep

LEMMA TraceNext == Typed /\ RecordInv /\ TraceInv /\ [WorkflowNext]_workflowVars => TraceInv'
<1> SUFFICES ASSUME Typed, RecordInv, TraceInv, [WorkflowNext]_workflowVars, DbStable'
             PROVE  TraceInv'
  BY DEF TraceInv
<1>1. TrailsGrow /\ RuntimeTypeOK
  BY TrailsOnlyGrow DEF Typed, RuntimeTyped
<1>2. (\A t \in Workers : RunTraced(t) /\ FlowTraced(t)) /\ ResponsesTraced
  BY <1>1 DEF TraceInv, TrailsGrow
<1>3. ASSUME NEW t \in Workers, NEW opt \in Options, NEW rejected \in BOOLEAN,
             StartFlow(t, opt, rejected)
      PROVE  TraceInv'
  <2>1. /\ flow'[t].at \in {"govern", "create"} /\ flow'[t].runs = {}
        /\ \A u \in Workers \ {t} : flow'[u] = flow[u]
    BY <1>3, StartTyped
  <2>2. UNCHANGED <<rpc, job, memFlows, dbFlows>>
    BY <1>3 DEF StartFlow, runtimeVars
  <2>3. FlowTraced(t)'
    BY <2>1 DEF FlowTraced, OnOwnRecord, Traced
  <2> QED
    BY <1>1, <2>1, <2>2, <2>3, OthersStayTraced, ResponsesStay DEF TraceInv
<1>4. ASSUME NEW t \in Workers, flow[t].at = "idle", RunTraced(t)',
             \A u \in Workers \ {t} : rpc'[u] = rpc[u] /\ job'[u] = job[u],
             UNCHANGED <<flow, memFlows, dbFlows>>
      PROVE  TraceInv'
  <2>1. OnOwnRecord(t)' /\ FlowTraced(t)'
    BY <1>1, <1>2, <1>4, FlowMoves DEF OnOwnRecord
  <2> QED
    BY <1>1, <1>4, <2>1, OthersStayTraced, ResponsesStay DEF TraceInv
<1>5. ASSUME NEW t \in Workers, NEW agent \in ClientAgents, NEW wf \in 0 .. clock,
             ClientAsks(t, agent, wf)
      PROVE  TraceInv'
  <2>1. flow[t].at = "idle" /\ UNCHANGED <<flow, memFlows, dbFlows>>
    BY <1>5 DEF ClientAsks
  <2>2. PICK r \in Requests : Duplicate(t, r) \/ BeginRun(t, r)
    <3>1. agent \in Agents /\ wf \in 0 .. MaxSecond /\ 0 \in 0 .. MaxFlows
      BY PlanAssumption, Bounds, <1>1 DEF RuntimeTypeOK, WfIds
    <3>2. [agent |-> agent, wf |-> wf, key |-> 0] \in Requests
      BY <3>1 DEF Requests
    <3> QED
      BY <1>5, <3>2 DEF ClientAsks
  <2>3. \A u \in Workers \ {t} : rpc'[u] = rpc[u] /\ job'[u] = job[u]
    BY <1>1, <2>2 DEF Duplicate, BeginRun, Goes, RuntimeTypeOK
  <2>4. rpc'[t] = "ensure" \/ (rpc'[t] = "answered" /\ job'[t].answer = "duplicate")
    <3>1. CASE BeginRun(t, r)
      BY <1>1, <3>1 DEF BeginRun, Goes, RuntimeTypeOK
    <3>2. CASE Duplicate(t, r)
      <4>1. Lookup(r) \in 0 .. MaxCalls
        BY <1>1, LookupTyped
      <4>2. job'[t].answer = "duplicate"
        BY <1>1, <3>2, <4>1, JobBegins DEF Duplicate, RuntimeTypeOK, Answers
      <4> QED
        BY <1>1, <3>2, <4>2 DEF Duplicate, Goes, RuntimeTypeOK
    <3> QED
      BY <2>2, <3>1, <3>2
  <2> QED
    BY <1>4, <2>1, <2>3, <2>4 DEF RunTraced
<1>6. ASSUME NEW t \in Workers, ClientReply(t)
      PROVE  TraceInv'
  <2>1. /\ flow[t].at = "idle" /\ UNCHANGED <<flow, memFlows, dbFlows>>
        /\ rpc'[t] = "idle"
        /\ \A u \in Workers \ {t} : rpc'[u] = rpc[u] /\ job'[u] = job[u]
    BY <1>1, <1>6 DEF ClientReply, Reply, Goes, RuntimeTypeOK, flowVars
  <2> QED
    BY <1>4, <2>1 DEF RunTraced
<1>7. CASE (Environment /\ UNCHANGED flowVars) \/ TurnSwitches \/ UNCHANGED workflowVars
  <2>1. UNCHANGED <<rpc, job, flow, memFlows, dbFlows>>
    BY <1>7 DEF Environment, NextSecond, LockExpires, FlipRedis, FlipDb, TurnSwitches,
                workflowVars, runtimeVars, flowVars
  <2> QED
    BY <1>1, <2>1, OthersStayTraced, ResponsesStay DEF TraceInv
<1>8. CASE ListFlows
  <2>1. UNCHANGED <<rpc, job, flow, dbFlows, dbRuns, linked>>
    BY <1>8 DEF ListFlows, runtimeVars, stores, trails
  <2>2. \A f \in Flows : memFlows'[f] \in {memFlows[f], dbFlows[f]}
    BY <1>8 DEF ListFlows
  <2>3. ResponsesTraced'
    BY <1>2, <2>1, <2>2 DEF ResponsesTraced, Traced
  <2> QED
    BY <1>1, <2>1, <2>3, OthersStayTraced DEF TraceInv
<1>9. CASE RestartFlows
  <2>1. /\ UNCHANGED <<dbFlows, dbRuns, linked>>
        /\ \A u \in Workers : rpc'[u] = "idle" /\ flow'[u] = IdleFlow
        /\ \A f \in Flows : memFlows'[f] = NoResponse
    BY <1>9 DEF RestartFlows, RestartRuntime, trails
  <2>2. \A u \in Workers : RunTraced(u)' /\ FlowTraced(u)'
    BY <2>1 DEF RunTraced, FlowTraced, OnOwnRecord, Traced, IdleFlow
  <2>3. ResponsesTraced'
    BY <1>2, <2>1 DEF ResponsesTraced, Traced, NoResponse
  <2> QED
    BY <2>2, <2>3 DEF TraceInv
<1> QED
  BY <1>1, <1>3, <1>5, <1>6, <1>7, <1>8, <1>9, FlowStepKeepsTraced DEF WorkflowNext

\* With Postgres up, whoever reads a workflow run's response finds the agent runs it
\* names, and finds them in its workflow record unless they shared the record or its id
\* was given out twice: run_workflow stores the response last, create_agent_run appends
\* a run before it answers; after restarts as well.
THEOREM ResponsesLeadToRuns == WorkflowSpec => []ResponseTraceable
<1>1. WorkflowInit => TraceInv
  BY DEF WorkflowInit, RuntimeInit, TraceInv, RunTraced, FlowTraced, OnOwnRecord, Traced,
         ResponsesTraced, IdleFlow, NoResponse
<1>2. Typed /\ RecordInv /\ TraceInv => ResponseTraceable
  <2> SUFFICES ASSUME Typed, RecordInv, TraceInv, DbStable, NEW f \in Flows,
                      NEW response \in {memFlows[f], dbFlows[f]}, NEW c \in response.runs
               PROVE  /\ c \in dbRuns
                      /\ births[response.wr] <= 1 /\ c \notin rivals => c \in dbWf[response.wr]
    BY DEF ResponseTraceable
  <2>1. c \in dbRuns /\ linked[c] = response.wr /\ response.wr # 0
    BY DEF TraceInv, ResponsesTraced, Traced
  <2>2. c \in Calls
    BY DEF Typed, FlowsTyped, Response
  <2>3. RowsInv
    BY DEF RecordInv, DbStable
  <2> QED
    BY <2>1, <2>2, <2>3 DEF RowsInv
<1> QED
  BY <1>1, <1>2, RecordStarts, InitTyped, NextTyped, RecordNext, TraceNext, PTL DEF WorkflowSpec

=============================================================================
