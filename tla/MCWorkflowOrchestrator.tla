----------------------- MODULE MCWorkflowOrchestrator -----------------------
(* Instances of WorkflowOrchestrator for TLC. *)
EXTENDS WorkflowOrchestrator, TLC

CONSTANTS w1, w2, approval, monitor

\* The agent at the execution boundary and one after it.
TwoAgents   == {approval, monitor}
ShortPlan   == <<approval, monitor>>

\* A preview and a paper run of the whole plan, and a paper run cut short.
SomeOptions == {[dry |-> TRUE,  human |-> TRUE,  cap |-> 2],
                  [dry |-> FALSE, human |-> TRUE,  cap |-> 2],
                  [dry |-> FALSE, human |-> FALSE, cap |-> 1]}

Demand(f, s, c, n, m, db, redis) ==
  [flows |-> f, stages |-> s, clients |-> c, seconds |-> n, mishaps |-> m,
   db |-> db, redis |-> redis]

\* Two runs of the whole plan in one second; a run beside a client, of the whole
\* plan or short with a mishap; three calls of clients; two short runs in two
\* seconds; three short runs, for the daily limit; two short runs with or without
\* Postgres and Redis.
SomeLoads ==
  {Demand(2, 2, 0, 1, 0, TRUE, TRUE), Demand(1, 2, 1, 1, 0, TRUE, TRUE),
   Demand(1, 1, 1, 1, 1, TRUE, TRUE),
   Demand(0, 0, 3, 1, 1, TRUE, TRUE),
   Demand(2, 1, 0, 2, 0, TRUE, TRUE),
   Demand(3, 1, 0, 1, 0, TRUE, TRUE)}
  \cup {Demand(2, 1, 0, 1, 1, db, redis) : db \in BOOLEAN, redis \in BOOLEAN}

WorkerSymmetry == Permutations({w1, w2})
=============================================================================
