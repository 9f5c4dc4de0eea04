--------------------------- MODULE ApprovalProofs ---------------------------
(***************************************************************************)
(* Each order is owed to a call of its own: ExecutionService implements    *)
(* ApprovalGate, and the orders of an audit are bounded by its approvals.  *)
(* The invariant says which call a worker acts for, that no two workers    *)
(* act for one call, and that a call still on its way has no order yet.    *)
(***************************************************************************)
EXTENDS ExecutionProofs, FiniteSetTheorems

\* Every worker acts for a call that its audit knows.
OwnCall ==
  \A t \in Workers : pc[t] # "idle" =>
    job[t].call \in {job[t].audit} \cup approvals[job[t].audit]

\* No two workers act for the same call.
CallsApart ==
  \A t, u \in Workers : t # u /\ pc[t] # "idle" /\ pc[u] # "idle"
    => job[t].call # job[u].call

\* A worker that has not passed the POST has no order.
Unposted ==
  \A t \in Workers : pc[t] \notin {"idle", "record", "register"}
    => \A o \in orders : o.id # job[t].call

\* An order names the call that placed it, and a call places one.
OrdersOwed ==
  /\ \A o \in orders : o.id \in {o.audit} \cup approvals[o.audit]
  /\ \A o, p \in orders : o.id = p.id => o = p

ApprovalsCounted == \A a \in Calls : approvals[a] \subseteq 1 .. calls

CallsInv == OwnCall /\ CallsApart /\ Unposted /\ OrdersOwed /\ ApprovalsCounted

\* The orders as the gate sees them.
placedNow == {<<o.id, o.audit>> : o \in orders}

----------------------------------------------------------------------------

\* The workers that go on keep their call and their audit, and none goes back
\* before the POST.
Onward ==
  \A t \in Workers : pc'[t] # "idle" =>
    /\ pc[t] # "idle"
    /\ job'[t].call = job[t].call
    /\ job'[t].audit = job[t].audit
    /\ pc'[t] \notin {"record", "register"} => pc[t] \notin {"record", "register"}

\* A step that only moves workers onward keeps the invariant.
LEMMA OnwardKeeps ==
  ASSUME CallsInv, Onward, UNCHANGED <<calls, approvals, orders>>
  PROVE  CallsInv'
BY DEF CallsInv, OwnCall, CallsApart, Unposted, OrdersOwed, ApprovalsCounted,
       Onward

\* One handler takes a step of its own and keeps its call.
LEMMA StepOnward ==
  ASSUME TypeOK, NEW t \in Workers, NEW from \in PCs \ {"idle"}, NEW to \in PCs,
         Step(t, from, to),
         from \in {"record", "register"} => to \in {"record", "register", "idle"},
         \A u \in Workers \ {t} : job'[u] = job[u],
         to # "idle" => job'[t].call = job[t].call /\ job'[t].audit = job[t].audit
  PROVE  Onward
BY DEF TypeOK, Step, Onward

\* The invariant holds when the process starts.
LEMMA InitCalls == Init => CallsInv
BY DEF Init, CallsInv, OwnCall, CallsApart, Unposted, OrdersOwed, ApprovalsCounted

\* A call that starts a handler brings a number nobody has used.
LEMMA BeginCalls ==
  ASSUME IInv, CallsInv, NEW t \in Workers, NEW op, NEW r, NEW key,
         NEW a \in Calls, Begin(t, op, r, a, key), orders' = orders,
         \/ a = calls + 1 /\ approvals' = approvals
         \/ approvals' = [approvals EXCEPT ![a] = @ \cup {calls + 1}]
  PROVE  CallsInv'
<1>1. calls \in Nat /\ calls + 1 \notin 1 .. calls /\ calls' = calls + 1
  BY DEF IInv, TypeOK, Begin
<1>2. /\ pc[t] = "idle" /\ pc' = [pc EXCEPT ![t] = "resolve"]
      /\ job'[t].call = calls + 1 /\ job'[t].audit = a
      /\ \A u \in Workers \ {t} : job'[u] = job[u] /\ pc'[u] = pc[u]
      /\ pc'[t] = "resolve"
  BY DEF IInv, TypeOK, Begin, Step, IdleJob
<1>3. \A u \in Workers : pc[u] # "idle" =>
        job[u].call \in 1 .. calls /\ job[u].audit \in 1 .. calls
  BY DEF IInv, WorkerInv, WorkerBusy
<1>4. \A b \in Calls : /\ approvals[b] \subseteq approvals'[b]
                       /\ approvals'[b] \subseteq approvals[b] \cup {calls + 1}
  BY DEF IInv, TypeOK
<1>5. \A o \in orders : o.audit \in Calls /\ o.audit \in 1 .. calls
  BY DEF IInv, TypeOK, OrderInv, OrderRecord
<1>6. OwnCall'
  <2>1. calls + 1 \in {a} \cup approvals'[a]
    BY DEF IInv, TypeOK
  <2>2. \A u \in Workers : pc[u] # "idle" => job[u].audit \in Calls
    BY WorkerTyped
  <2> QED BY <1>2, <1>4, <2>1, <2>2 DEF CallsInv, OwnCall
<1>7. CallsApart'
  BY <1>1, <1>2, <1>3 DEF CallsInv, CallsApart
<1>8. Unposted'
  <2>1. \A o \in orders : o.id \in 1 .. calls
    BY <1>5 DEF CallsInv, OrdersOwed, ApprovalsCounted
  <2> QED BY <1>1, <1>2, <2>1 DEF CallsInv, Unposted
<1>9. OrdersOwed'
  BY <1>4, <1>5 DEF CallsInv, OrdersOwed
<1>10. ApprovalsCounted'
  BY <1>1, <1>4 DEF CallsInv, ApprovalsCounted
<1> QED BY <1>6, <1>7, <1>8, <1>9, <1>10 DEF CallsInv

\* A worker that POSTs has the one order of its call.
LEMMA PostCalls ==
  ASSUME IInv, CallsInv, NEW t \in Workers, NEW status \in OrderStatus,
         Step(t, "post", "record"), orders' = orders \cup {NewOrder(t, status)},
         \A u \in Workers \ {t} : job'[u] = job[u],
         job'[t].call = job[t].call, job'[t].audit = job[t].audit,
         UNCHANGED <<calls, approvals>>
  PROVE  CallsInv'
<1>1. /\ pc[t] = "post" /\ pc'[t] = "record"
      /\ \A u \in Workers \ {t} : pc'[u] = pc[u]
  BY DEF IInv, TypeOK, Step
<1>2. /\ NewOrder(t, status).id = job[t].call
      /\ NewOrder(t, status).audit = job[t].audit
  BY DEF NewOrder
<1>3. OwnCall'
  BY <1>1 DEF CallsInv, OwnCall
<1>4. CallsApart'
  BY <1>1 DEF CallsInv, CallsApart
<1>5. Unposted'
  BY <1>1, <1>2 DEF CallsInv, Unposted, CallsApart
<1>6. OrdersOwed'
  BY <1>1, <1>2 DEF CallsInv, OrdersOwed, OwnCall, Unposted
<1>7. ApprovalsCounted'
  BY DEF CallsInv, ApprovalsCounted
<1> QED BY <1>3, <1>4, <1>5, <1>6, <1>7 DEF CallsInv

\* A new status leaves an order its number and its audit.
LEMMA StatusCalls ==
  ASSUME CallsInv, NEW o \in orders, NEW status, SetOrderStatus(o, status),
         orders \subseteq OrderRecord
  PROVE  CallsInv' /\ placedNow' = placedNow
<1> DEFINE p == [o EXCEPT !.status = status]
<1>1. o \in OrderRecord /\ p.id = o.id /\ p.audit = o.audit
  BY DEF OrderRecord
<1>2. orders' = (orders \ {o}) \cup {p} /\ UNCHANGED <<calls, approvals, pc, job>>
  BY DEF SetOrderStatus, shared
<1> HIDE DEF p
<1>3. Unposted' /\ OrdersOwed'
  <2>1. Unposted'
    BY <1>1, <1>2 DEF CallsInv, Unposted
  <2>2. \A q \in orders' : q.id \in {q.audit} \cup approvals'[q.audit]
    BY <1>1, <1>2 DEF CallsInv, OrdersOwed
  <2>3. \A q, r \in orders' : q.id = r.id => q = r
    BY <1>1, <1>2 DEF CallsInv, OrdersOwed
  <2> QED BY <2>1, <2>2, <2>3 DEF OrdersOwed
<1>4. OwnCall' /\ CallsApart' /\ ApprovalsCounted'
  BY <1>2 DEF CallsInv, OwnCall, CallsApart, ApprovalsCounted
<1>5. placedNow' = placedNow
  BY <1>1, <1>2 DEF placedNow
<1> QED BY <1>3, <1>4, <1>5 DEF CallsInv

\* A handler that looks at nothing but switches and audits moves onward.
LEMMA ProceedOnward ==
  ASSUME IInv, NEW t \in Workers,
         \/ \E verdict \in BOOLEAN : RunPrechecks(t, verdict)
         \/ ExecutionPrecheck(t) \/ BlockApprove(t) \/ CreateAudit(t)
         \/ FinishPrecheck(t) \/ BlockSubmit(t) \/ HoldForApproval(t)
         \/ MarkPending(t) \/ PassGates(t) \/ RouteSimulated(t)
         \/ RouteToBroker(t) \/ RouteRefused(t) \/ BrokerReplyHollow(t) \/ BrokerRefuses(t)
         \/ RecordOutcome(t) \/ Register(t)
  PROVE  Onward /\ UNCHANGED <<calls, confirmed, approvals, orders>>
<1> USE DEF IInv, TypeOK
<1>1. CASE \E verdict \in BOOLEAN : RunPrechecks(t, verdict)
  <2>1. PICK verdict \in BOOLEAN : RunPrechecks(t, verdict)
    BY <1>1
  <2>2. Step(t, "resolve", "gates")
    BY <2>1 DEF RunPrechecks
  <2>3. job[t] \in Job
    BY <2>2, WorkerTyped DEF Step
  <2>4. /\ \A u \in Workers \ {t} : job'[u] = job[u]
        /\ job'[t].call = job[t].call /\ job'[t].audit = job[t].audit
    BY <2>1, <2>3 DEF RunPrechecks, Job
  <2>5. Onward
    BY <2>2, <2>4, StepOnward DEF PCs
  <2> QED BY <2>1, <2>5 DEF RunPrechecks, shared
<1>2. CASE ExecutionPrecheck(t)
  <2>1. \E to \in {"route", "create"} : Step(t, "gates", to)
    BY <1>2 DEF ExecutionPrecheck
  <2>2. job[t] \in Job
    BY <2>1, WorkerTyped DEF Step
  <2>3. /\ \A u \in Workers \ {t} : job'[u] = job[u]
        /\ job'[t].call = job[t].call /\ job'[t].audit = job[t].audit
    BY <1>2, <2>2 DEF ExecutionPrecheck, Job
  <2>4. Onward
    BY <2>1, <2>3, StepOnward DEF PCs
  <2> QED BY <1>2, <2>4 DEF ExecutionPrecheck, shared
<1>3. CASE CreateAudit(t) \/ HoldForApproval(t) \/ PassGates(t)
           \/ RouteToBroker(t) \/ RecordOutcome(t)
  BY <1>3, StepOnward
  DEF CreateAudit, HoldForApproval, PassGates, RouteToBroker, RecordOutcome,
      PCs, shared
<1>4. CASE BlockSubmit(t) \/ MarkPending(t) \/ RouteSimulated(t)
           \/ RouteRefused(t) \/ BrokerReplyHollow(t) \/ BrokerRefuses(t)
  <2>1. \A s \in Answers : Answer(t, s) =>
          /\ \A u \in Workers \ {t} : job'[u] = job[u]
          /\ job'[t].call = job[t].call /\ job'[t].audit = job[t].audit
    BY DEF Answer, Job
  <2>2. \E s \in Answers : Answer(t, s)
    BY <1>4 DEF BlockSubmit, MarkPending, RouteSimulated, RouteRefused,
                BrokerReplyHollow, BrokerRefuses, Answers, Placed
  <2>3. \E from \in PCs \ {"idle", "record", "register"}, to \in PCs : Step(t, from, to)
    BY <1>4 DEF BlockSubmit, MarkPending, RouteSimulated, RouteRefused,
                BrokerReplyHollow, BrokerRefuses, PCs
  <2>4. Onward
    BY <2>1, <2>2, <2>3, StepOnward
  <2> QED BY <1>4, <2>4 DEF BlockSubmit, MarkPending, RouteSimulated,
                            RouteRefused, BrokerReplyHollow, BrokerRefuses, shared
<1>5. CASE BlockApprove(t) \/ FinishPrecheck(t) \/ Register(t)
  <2>1. \A u \in Workers \ {t} : job'[u] = job[u]
    BY <1>5 DEF BlockApprove, FinishPrecheck, Register, Return
  <2>2. \E from \in PCs \ {"idle"} : Step(t, from, "idle")
    BY <1>5 DEF BlockApprove, FinishPrecheck, Register, Return, PCs
  <2>3. Onward
    BY <2>1, <2>2, StepOnward DEF PCs
  <2> QED BY <1>5, <2>3 DEF BlockApprove, FinishPrecheck, Register, shared
<1> QED BY <1>1, <1>2, <1>3, <1>4, <1>5

----------------------------------------------------------------------------
(* The refinement *)

\* The first state of the service is the first state of the gate.
LEMMA InitGate == Init => Gate!GateInit
BY DEF Init, Gate!GateInit, Calls

\* An order that is new to the broker is one the gate may place.
LEMMA PostPlaces ==
  ASSUME IInv, CallsInv, NEW t \in Workers, NEW status \in OrderStatus,
         pc[t] = "post", orders' = orders \cup {NewOrder(t, status)},
         UNCHANGED <<calls, confirmed, approvals>>
  PROVE  Gate!GateNext
<1>1. /\ job[t].audit \in 1 .. calls
      /\ job[t].call \in 1 .. calls
      /\ RequireApproval => confirmed[job[t].audit]
  BY DEF IInv, WorkerInv, WorkerBusy, WorkerApproved
<1>2. job[t].call \in {job[t].audit} \cup approvals[job[t].audit]
  BY DEF CallsInv, OwnCall
<1>3. \A p \in placedNow : p[1] # job[t].call
  BY DEF CallsInv, Unposted, placedNow
<1>4. placedNow' = placedNow \cup {<<job[t].call, job[t].audit>>}
  <2>1. /\ NewOrder(t, status).id = job[t].call
        /\ NewOrder(t, status).audit = job[t].audit
    BY DEF NewOrder
  <2> QED BY <2>1 DEF placedNow
<1>5. PICK a \in 1 .. calls, c \in 1 .. calls : a = job[t].audit /\ c = job[t].call
  BY <1>1
<1>6. Gate!Place(a, c)
  BY <1>1, <1>2, <1>3, <1>4, <1>5 DEF Gate!Place, placedNow
<1> QED BY <1>6 DEF Gate!GateNext

\* Every step keeps the invariant and is a step of the gate or none.
LEMMA NextGate ==
  ASSUME IInv, CallsInv, [Next]_vars
  PROVE  CallsInv' /\ [Gate!GateNext]_(Gate!gateVars)
<1> DEFINE Still == UNCHANGED <<calls, confirmed, approvals, placedNow>>
<1>0. Still => [Gate!GateNext]_(Gate!gateVars)
  BY DEF Gate!gateVars, placedNow
<1>1. ASSUME NEW t \in Workers, NEW r \in Requests, SubmitReplay(t, r)
      PROVE  CallsInv' /\ Gate!GateNext
  <2>1. CallsInv'
    BY <1>1 DEF SubmitReplay, shared, IInv, TypeOK, CallsInv, OwnCall, CallsApart,
                Unposted, OrdersOwed, ApprovalsCounted
  <2>2. Gate!Look
    BY <1>1 DEF SubmitReplay, shared, Gate!Look
  <2> QED BY <2>1, <2>2 DEF Gate!GateNext
<1>2. ASSUME NEW t \in Workers, NEW a \in Calls, ApproveUnknown(t, a)
      PROVE  CallsInv' /\ Gate!GateNext
  <2>1. CallsInv'
    BY <1>2 DEF ApproveUnknown, shared, IInv, TypeOK, CallsInv, OwnCall, CallsApart,
                Unposted, OrdersOwed, ApprovalsCounted
  <2>2. Gate!Look
    BY <1>2 DEF ApproveUnknown, shared, Gate!Look
  <2> QED BY <2>1, <2>2 DEF Gate!GateNext
<1>3. ASSUME NEW t \in Workers, NEW r \in Requests, NEW asserted \in BOOLEAN,
             SubmitFresh(t, r, asserted)
      PROVE  CallsInv' /\ Gate!GateNext
  <2>1. calls + 1 \in Calls /\ calls < MaxCalls
    BY <1>3, ConfigAssumption DEF SubmitFresh, Begin, IInv, TypeOK, Calls
  <2>2. CallsInv'
    BY <1>3, <2>1, BeginCalls DEF SubmitFresh
  <2>3. Gate!Ask(asserted)
    BY <1>3 DEF SubmitFresh, Begin, Gate!Ask
  <2> QED BY <2>2, <2>3 DEF Gate!GateNext
<1>4. ASSUME NEW t \in Workers, NEW r \in Requests, PrecheckOnly(t, r)
      PROVE  CallsInv' /\ Gate!GateNext
  <2>1. calls + 1 \in Calls /\ calls < MaxCalls
    BY <1>4, ConfigAssumption DEF PrecheckOnly, Begin, IInv, TypeOK, Calls
  <2>2. CallsInv'
    BY <1>4, <2>1, BeginCalls DEF PrecheckOnly, shared
  <2>3. Gate!Look
    BY <1>4 DEF PrecheckOnly, Begin, shared, Gate!Look
  <2> QED BY <2>2, <2>3 DEF Gate!GateNext
<1>5. ASSUME NEW t \in Workers, NEW a \in Calls, Approve(t, a)
      PROVE  CallsInv' /\ Gate!GateNext
  <2>1. a \in 1 .. calls
    BY <1>5 DEF Approve, IInv, AuditInv
  <2>2. CallsInv'
    BY <1>5, BeginCalls DEF Approve
  <2>3. Gate!Consent(a)
    BY <1>5 DEF Approve, Begin, Gate!Consent
  <2> QED BY <2>1, <2>2, <2>3 DEF Gate!GateNext
<1>6. ASSUME NEW t \in Workers, Arrive(t)
      PROVE  CallsInv' /\ Gate!GateNext
  BY <1>1, <1>2, <1>3, <1>4, <1>5, <1>6 DEF Arrive
<1>7. ASSUME NEW t \in Workers, NEW status \in OrderStatus,
             \/ BrokerAccepts(t, status)
             \/ status = "new" /\ (BrokerReplyUnreadable(t) \/ BrokerReplyLost(t))
      PROVE  CallsInv' /\ Gate!GateNext
  <2>1. /\ Step(t, "post", "record") /\ pc[t] = "post"
        /\ orders' = orders \cup {NewOrder(t, status)}
        /\ UNCHANGED <<calls, confirmed, approvals>>
    BY <1>7 DEF BrokerAccepts, BrokerReplyUnreadable, BrokerReplyLost, Step, shared
  <2>2. job[t] \in Job
    BY <2>1, WorkerTyped
  <2>3. /\ \A u \in Workers \ {t} : job'[u] = job[u]
        /\ job'[t].call = job[t].call /\ job'[t].audit = job[t].audit
    BY <1>7, <2>2 DEF BrokerAccepts, BrokerReplyUnreadable, BrokerReplyLost, Answer,
                      IInv, TypeOK, Job
  <2>4. CallsInv'
    BY <2>1, <2>3, PostCalls
  <2>5. Gate!GateNext
    BY <2>1, PostPlaces
  <2> QED BY <2>4, <2>5
<1>8. ASSUME NEW t \in Workers, Proceed(t)
      PROVE  CallsInv' /\ [Gate!GateNext]_(Gate!gateVars)
  <2>1. CASE \/ \E status \in OrderStatus : BrokerAccepts(t, status)
             \/ BrokerReplyUnreadable(t) \/ BrokerReplyLost(t)
    BY <1>7, <2>1 DEF OrderStatus
  <2>2. CASE \/ \E verdict \in BOOLEAN : RunPrechecks(t, verdict)
             \/ ExecutionPrecheck(t) \/ BlockApprove(t) \/ CreateAudit(t)
             \/ FinishPrecheck(t) \/ BlockSubmit(t) \/ HoldForApproval(t)
             \/ MarkPending(t) \/ PassGates(t) \/ RouteSimulated(t)
             \/ RouteToBroker(t) \/ RouteRefused(t) \/ BrokerReplyHollow(t) \/ BrokerRefuses(t)
             \/ RecordOutcome(t) \/ Register(t)
    <3>1. Onward /\ UNCHANGED <<calls, confirmed, approvals, orders>>
      BY <2>2, ProceedOnward
    <3> QED BY <1>0, <3>1, OnwardKeeps DEF placedNow
  <2> QED BY <1>8, <2>1, <2>2 DEF Proceed
<1>9. ASSUME NEW o \in orders, CancelOrder(o) \/ BrokerFills(o)
      PROVE  CallsInv' /\ [Gate!GateNext]_(Gate!gateVars)
  <2>1. \E status : SetOrderStatus(o, status)
    BY <1>9 DEF CancelOrder, BrokerFills
  <2>2. CallsInv' /\ placedNow' = placedNow
    BY <2>1, StatusCalls DEF IInv, TypeOK
  <2> QED BY <1>0, <2>1, <2>2 DEF SetOrderStatus, shared
<1>10. CASE \/ \E a \in Calls : Reject(a)
            \/ \E g \in OperatorGates : FlipGate(g)
            \/ NextBucket \/ Restart \/ UNCHANGED vars
  <2>1. Onward /\ UNCHANGED <<calls, confirmed, approvals, orders>>
    BY <1>10 DEF Reject, FlipGate, NextBucket, Restart, vars, shared, Onward
  <2> QED BY <1>0, <2>1, OnwardKeeps DEF placedNow
<1> QED BY <1>6, <1>8, <1>9, <1>10 DEF Next

\* Every reachable state satisfies the invariant about calls and orders.
THEOREM CallsInductive == Spec => []CallsInv
BY Inductive, InitCalls, NextGate, PTL DEF Spec

\* submit_execution and approve_execution keep the promise of ApprovalGate:
\* each order is placed for one call, of which the client or the operator made
\* one, and only once the request is approved.
THEOREM GateImplemented == Spec => ImplementsGate
BY Inductive, CallsInductive, InitGate, NextGate, PTL
DEF Spec, ImplementsGate, Gate!GateSpec

----------------------------------------------------------------------------

\* The orders of an audit inject into the audit's own call and its approvals.
LEMMA OrdersCounted ==
  ASSUME IInv, CallsInv, NEW a \in Calls
  PROVE  Cardinality({o \in orders : o.audit = a}) <= Cardinality(approvals[a]) + 1
<1> DEFINE S == {o \in orders : o.audit = a}
           T == approvals[a] \cup {a}
           f == [o \in S |-> o.id]
<1>1. f \in Injection(S, T)
  <2>1. \A o \in S : o.id \in T
    BY DEF CallsInv, OrdersOwed
  <2>2. \A o, p \in S : o.id = p.id => o = p
    BY DEF CallsInv, OrdersOwed
  <2>3. f \in [S -> T] /\ DOMAIN f = S /\ \A o \in S : f[o] = o.id
    BY <2>1
  <2> HIDE DEF f, S, T
  <2> QED BY <2>2, <2>3 DEF Injection, IsInjective
<1>2. IsFiniteSet(approvals[a])
  <2>1. IsFiniteSet(1 .. calls)
    BY FS_Interval DEF IInv, TypeOK
  <2> QED BY <2>1, FS_Subset DEF CallsInv, ApprovalsCounted
<1>3. /\ IsFiniteSet(T)
      /\ Cardinality(T) <= Cardinality(approvals[a]) + 1
  <2> DEFINE A == approvals[a]
  <2>1. Cardinality(A) \in Nat
    BY <1>2, FS_CardinalityType
  <2>2. /\ IsFiniteSet(A \cup {a})
        /\ Cardinality(A \cup {a}) =
             IF a \in A THEN Cardinality(A) ELSE Cardinality(A) + 1
    BY <1>2, FS_AddElement
  <2> QED BY <2>1, <2>2
<1>4. IsFiniteSet(S) /\ Cardinality(S) <= Cardinality(T)
  BY <1>1, <1>3, FS_Injection
<1>5. Cardinality(S) \in Nat /\ Cardinality(T) \in Nat /\ Cardinality(approvals[a]) \in Nat
  BY <1>2, <1>3, <1>4, FS_CardinalityType
<1> QED BY <1>3, <1>4, <1>5

\* However submits and approves of one audit overlap, the broker holds at most
\* one order more than the approvals that audit has had.
THEOREM OrdersBounded == Spec => []OrdersBoundedByApprovals
<1>1. IInv /\ CallsInv => OrdersBoundedByApprovals
  BY OrdersCounted DEF OrdersBoundedByApprovals
<1> QED BY <1>1, Inductive, CallsInductive, PTL

=============================================================================
