---------------------------- MODULE AgentRuntime ----------------------------
(***************************************************************************)
(* app/services/agent_runtime: create_agent_run and the stores behind it.  *)
(*                                                                         *)
(* A run of an agent is looked up by its fingerprint, tied to a workflow   *)
(* record, guarded by an advisory Redis lock, executed, stored, indexed    *)
(* and appended to its workflow record.  Every store is a dictionary of    *)
(* the process in front of Postgres, and the index has Redis in front of   *)
(* both; Postgres and Redis may be absent, and every call on them then     *)
(* silently does nothing.                                                  *)
(*                                                                         *)
(* A call is numbered; the number also names the agent run it stores (a    *)
(* uuid in the code) and the WorkflowRunRecord object it loads or creates. *)
(* Of a workflow record only agent_run_ids is kept: the other fields       *)
(* follow the last run appended.  What the wrapper computes, the trace and *)
(* the pointers behind /latest are left out.                               *)
(***************************************************************************)
EXTENDS Integers, FiniteSets

CONSTANTS
  Workers,      \* threads that run handlers
  Agents,       \* agent keys
  MaxCalls,     \* bound: agent runs asked for and workflow records created
  MaxSecond,    \* bound: seconds that go by
  MaxFlows,     \* bound: orchestrator runs
  Loads         \* bound: the demands, of which each behaviour has one: so many
                \* flows of so many stages and so many clients, in so many seconds
                \* with so many mishaps, Postgres and Redis being there or not

ASSUME BoundsAssumption ==
  /\ Agents # {}
  /\ {MaxCalls, MaxFlows} \subseteq Nat
  /\ MaxSecond \in Nat \ {0}
  /\ Loads \subseteq [flows : 0 .. MaxFlows, stages : Nat, clients : Nat,
                      seconds : 1 .. MaxSecond, mishaps : Nat,
                      db : BOOLEAN, redis : BOOLEAN]

\* The handlers run in a thread pool.
ASSUME ThreadsAssumption == IsFiniteSet(Workers)

Calls == 1 .. MaxCalls

\* A workflow record is named by the second it was created in; 0 is "auto".
WfIds == 1 .. MaxSecond

\* The fingerprint of a request: the hash of its fields, here the fields.  The
\* key is the orchestrator run it belongs to, 0 for a request of a client.
Requests == [agent : Agents, wf : 0 .. MaxSecond, key : 0 .. MaxFlows]

NoRow == {0}

VARIABLES
  load,       \* the demand this behaviour has
  clock,      \* the current second
  calls,      \* calls made so far
  dbUp,       \* Postgres is there
  redisUp,    \* Redis is there
  mishaps,    \* what has gone wrong so far
  memWf,      \* _WORKFLOW_RUNS: the record object of each id, 0 if absent
  objects,    \* the contents of each record object
  dbWf,       \* rows of agent_workflow_runs, NoRow if absent
  memRuns,    \* _AGENT_RUNS
  dbRuns,     \* rows of agent_runs
  memIndex,   \* _IDEMPOTENCY_INDEX, 0 if absent
  redisIndex, \* its copy in Redis
  dbIndex,    \* rows of agent_idempotency_index
  locks,      \* lock keys present in Redis
  rpc,        \* where each worker stands in create_agent_run
  job,        \* the local variables of each worker
  linked,     \* history: the record each finished run was appended to, or 0
  rivals,     \* history: runs that shared their record with another run
  births      \* history: how often each workflow id was given out

faults == <<dbUp, redisUp, mishaps>>
stores == <<memWf, objects, dbWf, memRuns, dbRuns, memIndex, redisIndex, dbIndex>>
trails == <<linked, rivals, births>>
runtimeVars == <<load, clock, calls, faults, stores, locks, rpc, job, trails>>

----------------------------------------------------------------------------

\* Postgres comes or goes, Redis comes or goes, a lock outlives its 60 s, the
\* process restarts, the operator turns the workflow switches.
Mishaps == {"db", "redis", "expiry", "restart", "switches"}

RPCs    == {"idle", "ensure", "work", "index", "link", "answered"}
Answers == {"none", "returned", "duplicate", "failed"}

Job == [req : Requests, call : 0 .. MaxCalls, wf : 0 .. MaxSecond,
        obj : 0 .. MaxCalls, locked : BOOLEAN, answer : Answers]

NoRequest == [agent |-> CHOOSE a \in Agents : TRUE, wf |-> 0, key |-> 0]
IdleJob   == [req |-> NoRequest, call |-> 0, wf |-> 0, obj |-> 0,
              locked |-> FALSE, answer |-> "none"]

RuntimeTypeOK ==
  /\ load \in Loads
  /\ clock \in WfIds /\ calls \in 0 .. MaxCalls
  /\ dbUp \in BOOLEAN /\ redisUp \in BOOLEAN
  /\ mishaps \subseteq Mishaps
  /\ memWf \in [WfIds -> 0 .. MaxCalls]
  /\ objects \in [Calls -> SUBSET Calls]
  /\ dbWf \in [WfIds -> (SUBSET Calls) \cup {NoRow}]
  /\ memRuns \subseteq Calls /\ dbRuns \subseteq Calls
  /\ memIndex \in [Requests -> 0 .. MaxCalls]
  /\ redisIndex \in [Requests -> 0 .. MaxCalls]
  /\ dbIndex \in [Requests -> 0 .. MaxCalls]
  /\ locks \subseteq WfIds \X Agents
  /\ rpc \in [Workers -> RPCs]
  /\ job \in [Workers -> Job]
  /\ linked \in [Calls -> 0 .. MaxSecond]
  /\ rivals \subseteq Calls /\ births \in [WfIds -> Nat]

\* Postgres and Redis may be there or not when the process starts.
RuntimeInit ==
  /\ load \in Loads
  /\ clock = 1 /\ calls = 0
  /\ dbUp = load.db /\ redisUp = load.redis
  /\ mishaps = {}
  /\ memWf = [w \in WfIds |-> 0]
  /\ objects = [c \in Calls |-> {}]
  /\ dbWf = [w \in WfIds |-> NoRow]
  /\ memRuns = {} /\ dbRuns = {}
  /\ memIndex = [r \in Requests |-> 0]
  /\ redisIndex = [r \in Requests |-> 0]
  /\ dbIndex = [r \in Requests |-> 0]
  /\ locks = {}
  /\ rpc = [t \in Workers |-> "idle"]
  /\ job = [t \in Workers |-> IdleJob]
  /\ linked = [c \in Calls |-> 0]
  /\ rivals = {}
  /\ births = [w \in WfIds |-> 0]

----------------------------------------------------------------------------
(* Helpers *)

Goes(t, from, to) == rpc[t] = from /\ rpc' = [rpc EXCEPT ![t] = to]

\* Fault: only the copy in Redis is consulted.
LookupRedisOnly(r) == IF redisUp THEN redisIndex[r] ELSE 0

\* lookup_idempotency: Redis, then Postgres, then memory.
Lookup(r) ==
  IF redisUp /\ redisIndex[r] # 0 THEN redisIndex[r]
  ELSE IF dbUp /\ dbIndex[r] # 0 THEN dbIndex[r]
  ELSE memIndex[r]

\* get_agent_run finds the run.
Retrievable(c) == (dbUp /\ c \in dbRuns) \/ c \in memRuns

\* A hit in Redis or Postgres is copied to memory, even when the run it names
\* is not found.
WarmIndex(r) ==
  memIndex' = [memIndex EXCEPT ![r] = IF Lookup(r) # 0 THEN Lookup(r) ELSE @]

\* Workers that hold a record of workflow w and have not appended to it.
OnRecord(w) ==
  {t \in Workers : rpc[t] \in {"work", "index", "link"} /\ job[t].wf = w}

\* create_workflow_run: a new object, put in memory and merged into Postgres,
\* under the id of the current second whether it is taken or not.
CreateRecord(c) ==
  /\ objects' = [objects EXCEPT ![c] = {}]
  /\ memWf' = [memWf EXCEPT ![clock] = c]
  /\ dbWf' = IF dbUp THEN [dbWf EXCEPT ![clock] = {}] ELSE dbWf
  /\ births' = [births EXCEPT ![clock] = @ + 1]

----------------------------------------------------------------------------
(* create_agent_run *)

\* The request is known and its run is found: the answer is a copy of it.
Duplicate(t, r) ==
  /\ calls < MaxCalls
  /\ Lookup(r) # 0 /\ Retrievable(Lookup(r))
  /\ Goes(t, "idle", "answered")
  /\ calls' = calls + 1
  /\ job' = [job EXCEPT ![t] = [IdleJob EXCEPT
               !.req = r, !.call = Lookup(r), !.answer = "duplicate"]]
  /\ WarmIndex(r)
  /\ memRuns' = memRuns \cup {Lookup(r)}
  /\ UNCHANGED <<load, clock, faults, memWf, objects, dbWf, dbRuns, redisIndex,
                 dbIndex, locks, trails>>

\* The request is not known, or the run the index names is not found.
BeginRun(t, r) ==
  /\ calls < MaxCalls
  /\ Lookup(r) = 0 \/ ~Retrievable(Lookup(r))
  /\ Goes(t, "idle", "ensure")
  /\ calls' = calls + 1
  /\ job' = [job EXCEPT ![t] = [IdleJob EXCEPT !.req = r, !.call = calls + 1]]
  /\ WarmIndex(r)
  /\ UNCHANGED <<load, clock, faults, memWf, objects, dbWf, memRuns, dbRuns,
                 redisIndex, dbIndex, locks, trails>>

HasRow(w)    == w # 0 /\ dbUp /\ dbWf[w] # NoRow
HasObject(w) == w # 0 /\ ~HasRow(w) /\ memWf[w] # 0

\* acquire_agent_lock: SET NX on the agent of the record; the run goes on whatever
\* the answer is.
Holds(t, w, obj) ==
  LET lock == <<w, job[t].req.agent>> IN
  /\ job' = [job EXCEPT ![t].wf = w, ![t].obj = obj,
                        ![t].locked = redisUp /\ lock \notin locks]
  /\ locks' = IF redisUp THEN locks \cup {lock} ELSE locks
  /\ rivals' = IF OnRecord(w) = {} THEN rivals
               ELSE rivals \cup {job[t].call} \cup {job[u].call : u \in OnRecord(w)}

\* _ensure_workflow_run, get_workflow_run: a row is loaded into an object of its
\* own, which replaces the one in memory.
LoadRow(t) ==
  LET w == job[t].req.wf IN
  /\ HasRow(w)
  /\ Goes(t, "ensure", "work")
  /\ objects' = [objects EXCEPT ![job[t].call] = dbWf[w]]
  /\ memWf' = [memWf EXCEPT ![w] = job[t].call]
  /\ Holds(t, w, job[t].call)
  /\ UNCHANGED <<load, clock, calls, faults, dbWf, memRuns, dbRuns, memIndex,
                 redisIndex, dbIndex, linked, births>>

\* Without a row the object in memory is shared.
ShareObject(t) ==
  LET w == job[t].req.wf IN
  /\ HasObject(w)
  /\ Goes(t, "ensure", "work")
  /\ Holds(t, w, memWf[w])
  /\ UNCHANGED <<load, clock, calls, faults, stores, linked, births>>

\* No workflow was named, or it is unknown: a new record.
NewRecord(t) ==
  LET w == job[t].req.wf IN
  /\ ~HasRow(w) /\ ~HasObject(w)
  /\ Goes(t, "ensure", "work")
  /\ CreateRecord(job[t].call)
  /\ Holds(t, clock, job[t].call)
  /\ UNCHANGED <<load, clock, calls, faults, memRuns, dbRuns, memIndex, redisIndex,
                 dbIndex, linked>>

LockOf(t) == <<job[t].wf, job[t].req.agent>>

\* Fault: the lock is released whoever holds it.
ReleaseAnyLock(t) == locks' = IF redisUp THEN locks \ {LockOf(t)} ELSE locks

\* release_agent_lock by a run that acquired it: an unconditional delete.
ReleaseLock(t) ==
  locks' = IF job[t].locked /\ redisUp THEN locks \ {LockOf(t)} ELSE locks

\* The wrapper returns, the lock is released, and store_agent_run keeps the run.
WrapperReturns(t) ==
  /\ Goes(t, "work", "index")
  /\ job' = [job EXCEPT ![t].answer = "returned", ![t].locked = FALSE]
  /\ ReleaseLock(t)
  /\ memRuns' = memRuns \cup {job[t].call}
  /\ dbRuns' = IF dbUp THEN dbRuns \cup {job[t].call} ELSE dbRuns
  /\ UNCHANGED <<load, clock, calls, faults, memWf, objects, dbWf, memIndex,
                 redisIndex, dbIndex, trails>>

\* Fault: the lock is not released when the wrapper raises.
WrapperRaisesHolding(t) ==
  /\ Goes(t, "work", "answered")
  /\ job' = [job EXCEPT ![t].answer = "failed", ![t].locked = FALSE]
  /\ UNCHANGED <<load, clock, calls, faults, stores, locks, trails>>

\* The wrapper raises: the lock is released and the exception goes on.
WrapperRaises(t) ==
  /\ Goes(t, "work", "answered")
  /\ job' = [job EXCEPT ![t].answer = "failed", ![t].locked = FALSE]
  /\ ReleaseLock(t)
  /\ UNCHANGED <<load, clock, calls, faults, stores, trails>>

\* index_idempotency.
IndexRun(t) ==
  LET Put(index) == [index EXCEPT ![job[t].req] = job[t].call] IN
  /\ Goes(t, "index", "link")
  /\ memIndex' = Put(memIndex)
  /\ redisIndex' = IF redisUp THEN Put(redisIndex) ELSE redisIndex
  /\ dbIndex' = IF dbUp THEN Put(dbIndex) ELSE dbIndex
  /\ UNCHANGED <<load, clock, calls, faults, memWf, objects, dbWf, memRuns, dbRuns,
                 locks, job, trails>>

\* Fault: the record is read again for the append but written back without
\* what others appended to it.
LinkStartsOver(t) ==
  /\ Goes(t, "link", "answered")
  /\ objects' = [objects EXCEPT ![job[t].obj] = {job[t].call}]
  /\ memWf' = [memWf EXCEPT ![job[t].wf] = job[t].obj]
  /\ dbWf' = IF dbUp THEN [dbWf EXCEPT ![job[t].wf] = {job[t].call}] ELSE dbWf
  /\ linked' = [linked EXCEPT ![job[t].call] = job[t].wf]
  /\ UNCHANGED <<load, clock, calls, faults, memRuns, dbRuns, memIndex, redisIndex,
                 dbIndex, locks, job, rivals, births>>

\* The run is appended to the object this call holds, which is put back in
\* memory and merged into Postgres as a whole.
LinkRun(t) ==
  LET runs == objects[job[t].obj] \cup {job[t].call} IN
  /\ Goes(t, "link", "answered")
  /\ objects' = [objects EXCEPT ![job[t].obj] = runs]
  /\ memWf' = [memWf EXCEPT ![job[t].wf] = job[t].obj]
  /\ dbWf' = IF dbUp THEN [dbWf EXCEPT ![job[t].wf] = runs] ELSE dbWf
  /\ linked' = [linked EXCEPT ![job[t].call] = job[t].wf]
  /\ UNCHANGED <<load, clock, calls, faults, memRuns, dbRuns, memIndex, redisIndex,
                 dbIndex, locks, job, rivals, births>>

\* The caller takes the answer.
Reply(t) ==
  /\ Goes(t, "answered", "idle")
  /\ job' = [job EXCEPT ![t] = IdleJob]
  /\ UNCHANGED <<load, clock, calls, faults, stores, locks, trails>>

----------------------------------------------------------------------------
(* The environment *)

NextSecond ==
  /\ clock < load.seconds
  /\ clock' = clock + 1
  /\ UNCHANGED <<load, calls, faults, stores, locks, rpc, job, trails>>

Mishap(kind) ==
  /\ kind \notin mishaps
  /\ Cardinality(mishaps) < load.mishaps
  /\ mishaps' = mishaps \cup {kind}

\* A lock outlives its 60 s.
LockExpires ==
  /\ Mishap("expiry")
  /\ \E k \in locks : locks' = locks \ {k}
  /\ UNCHANGED <<load, clock, calls, dbUp, redisUp, stores, rpc, job, trails>>

FlipRedis ==
  /\ Mishap("redis")
  /\ redisUp' = ~redisUp
  /\ UNCHANGED <<load, clock, calls, dbUp, stores, locks, rpc, job, trails>>

FlipDb ==
  /\ Mishap("db")
  /\ dbUp' = ~dbUp
  /\ UNCHANGED <<load, clock, calls, redisUp, stores, locks, rpc, job, trails>>

\* The process starts anew: memory is empty, the runs in progress are gone.
RestartRuntime ==
  /\ Mishap("restart")
  /\ memWf' = [w \in WfIds |-> 0]
  /\ memRuns' = {}
  /\ memIndex' = [r \in Requests |-> 0]
  /\ rpc' = [t \in Workers |-> "idle"]
  /\ job' = [t \in Workers |-> IdleJob]
  /\ UNCHANGED <<load, clock, calls, dbUp, redisUp, objects, dbWf, dbRuns, redisIndex,
                 dbIndex, locks, trails>>

RunAgent(t) ==
  \/ LoadRow(t) \/ ShareObject(t) \/ NewRecord(t)
  \/ WrapperReturns(t) \/ WrapperRaises(t)
  \/ IndexRun(t) \/ LinkRun(t)

Environment == NextSecond \/ LockExpires \/ FlipRedis \/ FlipDb

----------------------------------------------------------------------------
(* Properties *)

DbStable == dbUp /\ "db" \notin mishaps

\* As long as Postgres has not failed, a request whose run has been indexed is
\* never executed again, across restarts, Redis outages and whichever of the
\* three indexes answers: create_agent_run stores a run before it indexes it.
RepeatRunsNothing ==
  [][\A t \in Workers :
       rpc[t] = "idle" /\ rpc'[t] = "ensure" /\ DbStable
         => dbIndex[job'[t].req] = 0]_runtimeVars

\* What every index entry promises under a stable Postgres: it names a run that
\* can be retrieved.
IndexNamesRun ==
  DbStable =>
    \A r \in Requests :
      {dbIndex[r], redisIndex[r], memIndex[r]} \subseteq dbRuns \cup {0}

\* A finished run is missing from its workflow's record only if it shared the
\* record with another run that loaded its own copy from Postgres, or if the
\* record's id was given out twice: get_workflow_run and store_workflow_run lose
\* nothing else.
Record(w) == IF dbUp THEN dbWf[w] ELSE objects[memWf[w]]

LostOnlyToRivals ==
  "db" \notin mishaps =>
    \A c \in Calls :
      linked[c] # 0 /\ births[linked[c]] <= 1 /\ (dbUp \/ memWf[linked[c]] # 0)
        => c \in Record(linked[c]) \/ (dbUp /\ c \in rivals)

\* While no lock outlives its time, two runs that both believe they hold the
\* lock are never inside the same agent of the same workflow.
LockExclusive ==
  "expiry" \notin mishaps =>
    \A t, u \in Workers :
      rpc[t] = "work" /\ rpc[u] = "work" /\ job[t].locked /\ job[u].locked
        /\ LockOf(t) = LockOf(u) => t = u

\* No lock is left behind by a run that is over, even one whose wrapper raised,
\* unless the process stopped or Redis went away before the release.
LockNotLeaked ==
  mishaps \cap {"redis", "restart"} = {} =>
    \A k \in locks : \E t \in Workers :
      rpc[t] = "work" /\ job[t].locked /\ LockOf(t) = k

=============================================================================
