----------------------------- MODULE AuditProofs -----------------------------
(***************************************************************************)
(* What the audit log of ExecutionService can be trusted for: blocked      *)
(* requests are never executed, what is reported as placed was placed, and *)
(* a replay answers under the key it was asked for, a record keeps its trace to the  *)
(* broker, and a key has one record while calls do not overlap.  The       *)
(* invariant ties each worker to the record it writes, and each record to  *)
(* the broker's orders.                                                    *)
(***************************************************************************)
EXTENDS ApprovalProofs

\* An order with this number was placed for this audit.
Traced(a, n) == \E o \in orders : o.audit = a /\ o.id = n

Created(a) == audits[a].req \in Requests

\* A record says of itself, and of its orders, what is true.
RecordSound(a) ==
  /\ audits[a].pending => audits[a].passed /\ audits[a].key # NoKey
  /\ audits[a].status = "blocked" => ~audits[a].passed
  /\ audits[a].status = "precheck_complete" => audits[a].key = NoKey
  /\ audits[a].status \in Placed => Backed(a, audits[a].req)
  /\ audits[a].order # 0 => Traced(a, audits[a].order)
  /\ last[a] \in Placed => Backed(a, audits[a].req)
  /\ last[a] # "none" => Created(a)
  /\ a > calls => audits[a] = NoAudit

Early == {"resolve", "gates", "create"}

\* A submit or precheck writes a record of its own, which nobody knows before.
OwnRecord(t) ==
  pc[t] # "idle" /\ job[t].op \in {"submit", "precheck"} =>
    /\ job[t].audit = job[t].call
    /\ job[t].op = "submit" <=> job[t].key # NoKey
    /\ job[t].op = "precheck" => pc[t] \in Early \cup {"branch"}
    /\ pc[t] \in Early => audits[job[t].audit] = NoAudit
    /\ pc[t] \notin Early =>
         /\ audits[job[t].audit].passed = job[t].passed
         /\ audits[job[t].audit].key = job[t].key
         /\ audits[job[t].audit].req = job[t].req
    /\ pc[t] \in {"route", "post"} => job[t].passed

\* An approve works on a record that was kept for it.
KeptRecord(t) ==
  pc[t] # "idle" /\ job[t].op = "approve" =>
    /\ audits[job[t].audit].pending
    /\ audits[job[t].audit].req = job[t].req
    /\ pc[t] \notin {"create", "branch", "hold"}

\* What a worker is about to report is true.
AnswerSound(t) ==
  pc[t] # "idle" =>
    /\ job[t].op # "precheck" => job[t].key[1] = NameOf(job[t].req)
    /\ pc[t] \in {"record", "register"} =>
         /\ job[t].answer # "none"
         /\ job[t].answer \in Placed => Backed(job[t].audit, job[t].req)
         /\ job[t].order # 0 => Traced(job[t].audit, job[t].order)
    /\ pc[t] \notin {"record", "register"} => job[t].order = 0

WorkerSound(t) == OwnRecord(t) /\ KeptRecord(t) /\ AnswerSound(t)

\* Orders come from requests that passed and were submitted.
OrdersPassed ==
  \A o \in orders : /\ audits[o.audit].passed
                    /\ audits[o.audit].key # NoKey
                    /\ audits[o.audit].req = o.req
                    /\ Created(o.audit)

\* An entry of _IDEMPOTENCY names an answered audit of its intent.
EntriesSound ==
  \A k \in Keys : idem[k] # 0 =>
    /\ last[idem[k]] # "none"
    /\ k[1] = NameOf(audits[idem[k]].req)

AuditsInv ==
  /\ \A a \in Calls : RecordSound(a)
  /\ \A t \in Workers : WorkerSound(t)
  /\ OrdersPassed
  /\ EntriesSound

----------------------------------------------------------------------------

\* What stands in the audit log and at the broker, without the workers.
LEMMA InitAudits == Init => AuditsInv
<1> SUFFICES ASSUME Init PROVE AuditsInv
  OBVIOUS
<1>1. \A a \in Calls : RecordSound(a)
  BY DEF Init, RecordSound, NoAudit, Placed
<1>2. \A t \in Workers : WorkerSound(t)
  BY DEF Init, WorkerSound, OwnRecord, KeptRecord, AnswerSound
<1>3. OrdersPassed /\ EntriesSound
  BY DEF Init, OrdersPassed, EntriesSound
<1> QED BY <1>1, <1>2, <1>3 DEF AuditsInv

\* A step of one worker that touches neither the log nor the broker.
LEMMA LocalKeeps ==
  ASSUME IInv, AuditsInv, NEW t \in Workers,
         UNCHANGED <<calls, audits, idem, last, orders>>,
         \A u \in Workers \ {t} : pc'[u] = pc[u] /\ job'[u] = job[u],
         WorkerSound(t)'
  PROVE  AuditsInv'
<1>1. \A u \in Workers \ {t} : WorkerSound(u)'
  BY DEF AuditsInv, WorkerSound, OwnRecord, KeptRecord, AnswerSound, Traced, Backed
<1>2. \A a \in Calls : RecordSound(a)'
  BY DEF AuditsInv, RecordSound, Traced, Backed, Created
<1>3. OrdersPassed' /\ EntriesSound'
  BY DEF AuditsInv, OrdersPassed, EntriesSound, Created
<1> QED BY <1>1, <1>2, <1>3 DEF AuditsInv

\* A worker that has returned has nothing to answer for.
LEMMA IdleSound ==
  ASSUME NEW t \in Workers, pc'[t] = "idle"
  PROVE  WorkerSound(t)'
BY DEF WorkerSound, OwnRecord, KeptRecord, AnswerSound

\* The prechecks and the gates touch local variables only.
LEMMA RunPrechecksAudits ==
  ASSUME IInv, AuditsInv, NEW t \in Workers, NEW verdict \in BOOLEAN,
         RunPrechecks(t, verdict)
  PROVE  AuditsInv'
<1>1. /\ pc[t] = "resolve" /\ pc'[t] = "gates" /\ job[t] \in Job
      /\ \A u \in Workers \ {t} : pc'[u] = pc[u] /\ job'[u] = job[u]
      /\ UNCHANGED <<calls, audits, idem, last, orders>>
  BY DEF IInv, TypeOK, RunPrechecks, Step, shared
<1>2. \A f \in {"op", "req", "call", "audit", "key", "answer", "order"} :
        job'[t][f] = job[t][f]
  BY <1>1 DEF IInv, TypeOK, RunPrechecks, Job
<1>3. WorkerSound(t)'
  BY <1>1, <1>2 DEF AuditsInv, WorkerSound, OwnRecord, KeptRecord, AnswerSound, Early
<1> QED BY <1>1, <1>3, LocalKeeps

\* The switch checks keep the record's verdict for later.
LEMMA ExecutionPrecheckAudits ==
  ASSUME IInv, AuditsInv, NEW t \in Workers, ExecutionPrecheck(t)
  PROVE  AuditsInv'
<1>1. /\ pc[t] = "gates" /\ job[t] \in Job
      /\ pc'[t] = IF job[t].op = "approve" THEN "route" ELSE "create"
      /\ \A u \in Workers \ {t} : pc'[u] = pc[u] /\ job'[u] = job[u]
      /\ UNCHANGED <<calls, audits, idem, last, orders>>
  BY DEF IInv, TypeOK, ExecutionPrecheck, Step, shared
<1>2. \A f \in {"op", "req", "call", "audit", "key", "answer", "order"} :
        job'[t][f] = job[t][f]
  BY <1>1 DEF ExecutionPrecheck, IInv, TypeOK, Job
<1>3. job[t].op \in {"submit", "precheck", "approve"}
  BY <1>1 DEF IInv, WorkerInv, WorkerBusy, Job, Ops
<1>4. WorkerSound(t)'
  BY <1>1, <1>2, <1>3
  DEF AuditsInv, WorkerSound, OwnRecord, KeptRecord, AnswerSound, Early
<1> QED BY <1>1, <1>4, LocalKeeps

\* A blocked approve returns and leaves the record as it is.
LEMMA BlockApproveAudits ==
  ASSUME IInv, AuditsInv, NEW t \in Workers, BlockApprove(t)
  PROVE  AuditsInv'
<1>1. /\ pc'[t] = "idle"
      /\ \A u \in Workers \ {t} : pc'[u] = pc[u] /\ job'[u] = job[u]
      /\ UNCHANGED <<calls, audits, idem, last, orders>>
  BY DEF IInv, TypeOK, BlockApprove, Return, Step, shared
<1> QED BY <1>1, IdleSound, LocalKeeps

\* A submit that waits, or goes on to the router, does so with its own record.
LEMMA GateAudits ==
  ASSUME IInv, AuditsInv, NEW t \in Workers,
         HoldForApproval(t) \/ PassGates(t) \/ RouteToBroker(t)
  PROVE  AuditsInv'
<1>1. /\ pc[t] \in {"branch", "route"}
      /\ pc'[t] \in {"hold", "route", "post"}
      /\ pc[t] = "branch" => job[t].op = "submit" /\ job[t].passed
      /\ pc[t] = "route" => pc'[t] = "post"
      /\ job' = job
      /\ \A u \in Workers \ {t} : pc'[u] = pc[u] /\ job'[u] = job[u]
      /\ UNCHANGED <<calls, audits, idem, last, orders>>
  BY DEF IInv, TypeOK, HoldForApproval, PassGates, RouteToBroker, Step, shared
<1>2. WorkerSound(t)'
  BY <1>1
  DEF AuditsInv, WorkerSound, OwnRecord, KeptRecord, AnswerSound, Early, Traced, Backed
<1> QED BY <1>1, <1>2, LocalKeeps

\* An order that did not reach the broker is reported as rejected, unless it is
\* a simulated one.
LEMMA NoOrderAudits ==
  ASSUME IInv, AuditsInv, NEW t \in Workers,
         RouteSimulated(t) \/ RouteRefused(t) \/ BrokerReplyHollow(t) \/ BrokerRefuses(t)
  PROVE  AuditsInv'
<1>1. /\ pc[t] \in {"route", "post"} /\ pc'[t] = "record" /\ job[t] \in Job
      /\ \A u \in Workers \ {t} : pc'[u] = pc[u] /\ job'[u] = job[u]
      /\ UNCHANGED <<calls, audits, idem, last, orders>>
  BY DEF IInv, TypeOK, RouteSimulated, RouteRefused, BrokerReplyHollow, BrokerRefuses, Step, Answer,
         shared
<1>2. /\ \A f \in {"op", "req", "call", "audit", "key", "passed", "order"} :
           job'[t][f] = job[t][f]
      /\ \/ job'[t].answer = "rejected"
         \/ /\ job'[t].answer = "submitted"
            /\ job[t].mode = "simulated" \/ ~SuccessMeansPlaced
  BY <1>1 DEF RouteSimulated, RouteRefused, BrokerReplyHollow, BrokerRefuses, Answer, IInv, TypeOK, Job
<1>3. job[t].mode = "simulated" => ModeOf[job[t].req] = "simulated"
  BY <1>1 DEF IInv, WorkerInv, WorkerMode, ModeFollows
<1>4. WorkerSound(t)'
  BY <1>1, <1>2, <1>3
  DEF AuditsInv, WorkerSound, OwnRecord, KeptRecord, AnswerSound, Early, Traced,
      Backed, Placed
<1> QED BY <1>1, <1>4, LocalKeeps

----------------------------------------------------------------------------

\* An order is placed by a worker whose record passed.
LEMMA PostAudits ==
  ASSUME IInv, AuditsInv, NEW t \in Workers, NEW status \in OrderStatus,
         \/ BrokerAccepts(t, status)
         \/ status = "new" /\ (BrokerReplyUnreadable(t) \/ BrokerReplyLost(t))
  PROVE  AuditsInv'
<1>1. /\ pc[t] = "post" /\ pc'[t] = "record" /\ job[t] \in Job
      /\ \A u \in Workers \ {t} : pc'[u] = pc[u] /\ job'[u] = job[u]
      /\ UNCHANGED <<calls, audits, idem, last>>
      /\ orders' = orders \cup {NewOrder(t, status)}
  BY DEF IInv, TypeOK, BrokerAccepts, BrokerReplyUnreadable, BrokerReplyLost, Step,
         Answer, shared
<1>2. /\ \A f \in {"op", "req", "call", "audit", "key", "passed"} :
           job'[t][f] = job[t][f]
      /\ job'[t].answer # "none"
      /\ job'[t].order \in {job[t].call, job[t].order}
  BY <1>1 DEF BrokerAccepts, BrokerReplyUnreadable, BrokerReplyLost, Answer, AnswerOf,
              OrderStatus, IInv, TypeOK, Job
<1>3. /\ NewOrder(t, status).id = job[t].call
      /\ NewOrder(t, status).audit = job[t].audit
      /\ NewOrder(t, status).req = job[t].req
      /\ job[t].audit \in Calls
  BY <1>1, WorkerTyped DEF NewOrder
<1>4. \A a \in Calls : /\ \A r : Backed(a, r) => Backed(a, r)'
                       /\ \A n : Traced(a, n) => Traced(a, n)'
  BY <1>1 DEF Backed, Traced
<1>5. \E p \in orders' : p.audit = job[t].audit /\ p.id = job[t].call
  BY <1>1, <1>3
<1>6. job[t].op \in {"submit", "approve"}
  BY <1>1 DEF IInv, WorkerInv, WorkerBusy, AuditsInv, WorkerSound, OwnRecord, Early, Job, Ops
<1>7. OrdersPassed'
  <2>1. job[t].op = "submit" =>
          audits[job[t].audit].passed /\ audits[job[t].audit].key # NoKey
    BY <1>1 DEF AuditsInv, WorkerSound, OwnRecord, Early
  <2>2. job[t].op = "approve" =>
          audits[job[t].audit].passed /\ audits[job[t].audit].key # NoKey
    BY <1>1, <1>3 DEF AuditsInv, WorkerSound, KeptRecord, RecordSound
  <2>3. audits[job[t].audit].req \in Requests
    BY <1>1, <1>6, WorkerTyped DEF AuditsInv, WorkerSound, KeptRecord, OwnRecord, Early
  <2>4. audits[job[t].audit].req = job[t].req
    BY <1>1, <1>6 DEF AuditsInv, WorkerSound, KeptRecord, OwnRecord, Early
  <2> QED BY <1>1, <1>3, <1>6, <2>1, <2>2, <2>3, <2>4 DEF AuditsInv, OrdersPassed, Created
<1>8. EntriesSound'
  BY <1>1 DEF AuditsInv, EntriesSound
<1>9. \A a \in Calls : RecordSound(a)'
  BY <1>1, <1>4 DEF AuditsInv, RecordSound, Created
<1>10. \A u \in Workers \ {t} : WorkerSound(u)'
  <2>1. \A u \in Workers \ {t} : pc[u] # "idle" => job[u].audit \in Calls
    BY WorkerTyped
  <2> QED BY <1>1, <1>4, <2>1
      DEF AuditsInv, WorkerSound, OwnRecord, KeptRecord, AnswerSound
<1>11. WorkerSound(t)'
  <2>1. OwnRecord(t)' /\ KeptRecord(t)'
    BY <1>1, <1>2 DEF AuditsInv, WorkerSound, OwnRecord, KeptRecord, Early
  <2>2. job[t].order = 0
    BY <1>1 DEF AuditsInv, WorkerSound, AnswerSound
  <2>3. AnswerSound(t)'
    BY <1>1, <1>2, <1>5, <2>2 DEF AuditsInv, WorkerSound, AnswerSound, Traced, Backed
  <2> QED BY <2>1, <2>3 DEF WorkerSound
<1> QED BY <1>7, <1>8, <1>9, <1>10, <1>11 DEF AuditsInv

\* A new status leaves every trace to the broker.
LEMMA StatusAudits ==
  ASSUME IInv, AuditsInv, NEW o \in orders, CancelOrder(o) \/ BrokerFills(o)
  PROVE  AuditsInv'
<1>1. PICK status : SetOrderStatus(o, status)
  BY DEF CancelOrder, BrokerFills
<1> DEFINE p == [o EXCEPT !.status = status]
<1>2. p.id = o.id /\ p.audit = o.audit /\ p.req = o.req
  BY DEF IInv, TypeOK, OrderRecord
<1>3. /\ orders' = (orders \ {o}) \cup {p}
      /\ UNCHANGED <<calls, audits, idem, last, pc, job>>
  BY <1>1 DEF SetOrderStatus, shared
<1> HIDE DEF p
<1>4. \A a \in Calls : /\ \A r : Backed(a, r) => Backed(a, r)'
                       /\ \A n : Traced(a, n) => Traced(a, n)'
  BY <1>2, <1>3 DEF Backed, Traced
<1>5. OrdersPassed' /\ EntriesSound'
  BY <1>2, <1>3 DEF AuditsInv, OrdersPassed, EntriesSound, Created
<1>6. \A a \in Calls : RecordSound(a)'
  BY <1>3, <1>4 DEF AuditsInv, RecordSound, Created
<1>7. \A u \in Workers : WorkerSound(u)'
  <2>1. \A u \in Workers : pc[u] # "idle" => job[u].audit \in Calls
    BY WorkerTyped
  <2> QED BY <1>3, <1>4, <2>1
      DEF AuditsInv, WorkerSound, OwnRecord, KeptRecord, AnswerSound
<1> QED BY <1>5, <1>6, <1>7 DEF AuditsInv

----------------------------------------------------------------------------

\* update_audit writes a status and perhaps an order number: if both are true
\* of the record it writes, the log, the entries and the workers stay sound.
LEMMA UpdateKeeps ==
  ASSUME IInv, AuditsInv, NEW a \in Calls, NEW s \in Status, NEW n \in Calls \cup {0},
         UpdateAudit(a, s, n), UNCHANGED <<calls, idem, last, orders>>,
         s = "blocked" => ~audits[a].passed,
         s = "precheck_complete" => audits[a].key = NoKey,
         s \in Placed => Backed(a, audits[a].req),
         n # 0 => Traced(a, n)
  PROVE  /\ \A b \in Calls : RecordSound(b)'
         /\ OrdersPassed' /\ EntriesSound'
         /\ \A u \in Workers : pc'[u] = pc[u] /\ job'[u] = job[u] => WorkerSound(u)'
         /\ \A b \in Calls : /\ audits'[b].passed = audits[b].passed
                             /\ audits'[b].key = audits[b].key
                             /\ audits'[b].req = audits[b].req
                             /\ audits'[b].pending = audits[b].pending
<1>1. \A b \in Calls : /\ audits'[b].passed = audits[b].passed
                       /\ audits'[b].key = audits[b].key
                       /\ audits'[b].req = audits[b].req
                       /\ audits'[b].pending = audits[b].pending
  BY DEF UpdateAudit, IInv, TypeOK, AuditRecord
<1>2. \A b \in Calls : audits[b].req \notin Requests \/ b # a => audits'[b] = audits[b]
  BY DEF UpdateAudit, IInv, TypeOK, AuditInv
<1>3. /\ audits'[a].status \in {audits[a].status, s}
      /\ audits'[a].order \in {audits[a].order, n}
  BY DEF UpdateAudit, IInv, TypeOK, AuditRecord
<1>4. NoAudit.req \notin Requests
  BY RequestsAssumption DEF NoAudit
<1>5. \A b \in Calls : RecordSound(b)'
  <2>1. RecordSound(a)'
    <3>1. a > calls => audits'[a] = NoAudit
      BY <1>2, <1>4 DEF AuditsInv, RecordSound
    <3> QED BY <1>1, <1>3, <3>1 DEF AuditsInv, RecordSound, Created, Backed, Traced
  <2>2. \A b \in Calls \ {a} : RecordSound(b)'
    BY <1>2 DEF AuditsInv, RecordSound, Created, Backed, Traced
  <2> QED BY <2>1, <2>2
<1>6. OrdersPassed'
  BY <1>1 DEF AuditsInv, OrdersPassed, Created, IInv, TypeOK, OrderRecord
<1>7. EntriesSound'
  BY <1>1 DEF AuditsInv, EntriesSound, IInv, TypeOK
<1>8. ASSUME NEW u \in Workers, pc'[u] = pc[u], job'[u] = job[u]
      PROVE  WorkerSound(u)'
  <2>1. CASE pc[u] = "idle"
    BY <1>8, <2>1, IdleSound
  <2>2. CASE pc[u] # "idle"
    <3>1. job[u].audit \in Calls
      BY <2>2, WorkerTyped
    <3> QED BY <1>1, <1>2, <1>4, <1>8, <3>1
        DEF AuditsInv, WorkerSound, OwnRecord, KeptRecord, AnswerSound, Traced, Backed
  <2> QED BY <2>1, <2>2
<1> QED BY <1>1, <1>5, <1>6, <1>7, <1>8

\* A submit reports that it is blocked, or waits, in a record of its own.
LEMMA BlockSubmitAudits ==
  ASSUME IInv, AuditsInv, NEW t \in Workers, BlockSubmit(t)
  PROVE  AuditsInv'
<1>1. /\ pc[t] = "branch" /\ pc'[t] = "register" /\ job[t] \in Job
      /\ job[t].op = "submit" /\ ~job[t].passed /\ job[t].audit \in Calls
      /\ \A u \in Workers \ {t} : pc'[u] = pc[u] /\ job'[u] = job[u]
      /\ UNCHANGED <<calls, idem, last, orders>>
      /\ UpdateAudit(job[t].audit, "blocked", 0)
  BY WorkerTyped DEF IInv, TypeOK, BlockSubmit, Step, Answer
<1>2. /\ \A f \in {"op", "req", "call", "audit", "key", "passed", "order"} :
           job'[t][f] = job[t][f]
      /\ job'[t].answer = "blocked"
  BY <1>1 DEF BlockSubmit, Answer, IInv, TypeOK, Job
<1>3. ~audits[job[t].audit].passed
  BY <1>1 DEF AuditsInv, WorkerSound, OwnRecord, Early
<1>4. PICK a \in Calls : a = job[t].audit
  BY <1>1
<1>5. UpdateAudit(a, "blocked", 0) /\ ~audits[a].passed
  BY <1>1, <1>3, <1>4 DEF UpdateAudit
<1>6. /\ \A b \in Calls : RecordSound(b)'
      /\ OrdersPassed' /\ EntriesSound'
      /\ \A u \in Workers : pc'[u] = pc[u] /\ job'[u] = job[u] => WorkerSound(u)'
      /\ \A b \in Calls : /\ audits'[b].passed = audits[b].passed
                          /\ audits'[b].key = audits[b].key
                          /\ audits'[b].req = audits[b].req
                          /\ audits'[b].pending = audits[b].pending
  BY <1>1, <1>5, UpdateKeeps DEF Status, Placed
<1>7. WorkerSound(t)'
  BY <1>1, <1>2, <1>6
  DEF AuditsInv, WorkerSound, OwnRecord, KeptRecord, AnswerSound, Early, Placed
<1> QED BY <1>1, <1>6, <1>7 DEF AuditsInv

\* A held submit says so in its own record.
LEMMA MarkPendingAudits ==
  ASSUME IInv, AuditsInv, NEW t \in Workers, MarkPending(t)
  PROVE  AuditsInv'
<1>1. /\ pc[t] = "hold" /\ pc'[t] = "register" /\ job[t] \in Job
      /\ job[t].audit \in Calls
      /\ \A u \in Workers \ {t} : pc'[u] = pc[u] /\ job'[u] = job[u]
      /\ UNCHANGED <<calls, idem, last, orders>>
      /\ UpdateAudit(job[t].audit, "pending_approval", 0)
  BY WorkerTyped DEF IInv, TypeOK, MarkPending, Step, Answer
<1>2. /\ \A f \in {"op", "req", "call", "audit", "key", "passed", "order"} :
           job'[t][f] = job[t][f]
      /\ job'[t].answer = "pending_approval"
  BY <1>1 DEF MarkPending, Answer, IInv, TypeOK, Job
<1>3. PICK a \in Calls : a = job[t].audit
  BY <1>1
<1>4. UpdateAudit(a, "pending_approval", 0)
  BY <1>1, <1>3 DEF UpdateAudit
<1>5. /\ \A b \in Calls : RecordSound(b)'
      /\ OrdersPassed' /\ EntriesSound'
      /\ \A u \in Workers : pc'[u] = pc[u] /\ job'[u] = job[u] => WorkerSound(u)'
      /\ \A b \in Calls : /\ audits'[b].passed = audits[b].passed
                          /\ audits'[b].key = audits[b].key
                          /\ audits'[b].req = audits[b].req
                          /\ audits'[b].pending = audits[b].pending
  BY <1>1, <1>4, UpdateKeeps DEF Status, Placed
<1>6. WorkerSound(t)'
  BY <1>1, <1>2, <1>5
  DEF AuditsInv, WorkerSound, OwnRecord, KeptRecord, AnswerSound, Early, Placed
<1> QED BY <1>1, <1>5, <1>6 DEF AuditsInv

\* A precheck-only call completes a record without a key, and returns.
LEMMA FinishPrecheckAudits ==
  ASSUME IInv, AuditsInv, NEW t \in Workers, FinishPrecheck(t)
  PROVE  AuditsInv'
<1>1. /\ pc[t] = "branch" /\ pc'[t] = "idle" /\ job[t].op = "precheck"
      /\ job[t].audit \in Calls
      /\ \A u \in Workers \ {t} : pc'[u] = pc[u] /\ job'[u] = job[u]
      /\ UNCHANGED <<calls, idem, last, orders>>
      /\ UpdateAudit(job[t].audit, "precheck_complete", 0)
  BY WorkerTyped DEF IInv, TypeOK, FinishPrecheck, Return, Step
<1>2. audits[job[t].audit].key = NoKey
  BY <1>1 DEF AuditsInv, WorkerSound, OwnRecord, Early
<1>3. PICK a \in Calls : a = job[t].audit
  BY <1>1
<1>4. UpdateAudit(a, "precheck_complete", 0) /\ audits[a].key = NoKey
  BY <1>1, <1>2, <1>3 DEF UpdateAudit
<1>5. /\ \A b \in Calls : RecordSound(b)'
      /\ OrdersPassed' /\ EntriesSound'
      /\ \A u \in Workers : pc'[u] = pc[u] /\ job'[u] = job[u] => WorkerSound(u)'
  BY <1>1, <1>4, UpdateKeeps DEF Status, Placed
<1> QED BY <1>1, <1>5, IdleSound DEF AuditsInv

\* The outcome that is recorded is the one that happened.
LEMMA RecordOutcomeAudits ==
  ASSUME IInv, AuditsInv, NEW t \in Workers, RecordOutcome(t)
  PROVE  AuditsInv'
<1>1. /\ pc[t] = "record" /\ pc'[t] = "register" /\ job[t] \in Job /\ job' = job
      /\ job[t].audit \in Calls /\ job[t].op \in {"submit", "approve"}
      /\ \A u \in Workers \ {t} : pc'[u] = pc[u] /\ job'[u] = job[u]
      /\ UNCHANGED <<calls, idem, last, orders>>
      /\ UpdateAudit(job[t].audit, job[t].answer, job[t].order)
  <2>1. pc[t] = "record"
    BY DEF RecordOutcome, Step
  <2>2. job[t].op \in {"submit", "approve"}
    BY <2>1 DEF IInv, TypeOK, WorkerInv, WorkerBusy, AuditsInv, WorkerSound,
                OwnRecord, Early, Job, Ops
  <2> QED BY <2>1, <2>2, WorkerTyped DEF IInv, TypeOK, RecordOutcome, Step
<1>2. audits[job[t].audit].req = job[t].req
  BY <1>1 DEF AuditsInv, WorkerSound, OwnRecord, KeptRecord, Early
<1>3. /\ job[t].answer \in Placed \cup {"rejected"}
      /\ job[t].answer \in Placed => Backed(job[t].audit, job[t].req)
      /\ job[t].order # 0 => Traced(job[t].audit, job[t].order)
  BY <1>1 DEF AuditsInv, WorkerSound, AnswerSound, IInv, WorkerInv, WorkerAnswer
<1>4. PICK a \in Calls, s \in Status, n \in Calls \cup {0} :
        a = job[t].audit /\ s = job[t].answer /\ n = job[t].order
  BY <1>1, <1>3 DEF Job, Status
<1>5. /\ UpdateAudit(a, s, n)
      /\ s \in Placed => Backed(a, audits[a].req)
      /\ n # 0 => Traced(a, n)
      /\ s # "blocked" /\ s # "precheck_complete"
  <2>1. s # "blocked" /\ s # "precheck_complete"
    BY <1>3, <1>4 DEF Placed
  <2>2. UpdateAudit(a, s, n)
    BY <1>1, <1>4 DEF UpdateAudit
  <2> QED BY <1>2, <1>3, <1>4, <2>1, <2>2 DEF Backed, Traced
<1>6. /\ \A b \in Calls : RecordSound(b)'
      /\ OrdersPassed' /\ EntriesSound'
      /\ \A u \in Workers : pc'[u] = pc[u] /\ job'[u] = job[u] => WorkerSound(u)'
      /\ \A b \in Calls : /\ audits'[b].passed = audits[b].passed
                          /\ audits'[b].key = audits[b].key
                          /\ audits'[b].req = audits[b].req
                          /\ audits'[b].pending = audits[b].pending
  BY <1>1, <1>5, UpdateKeeps
<1>7. WorkerSound(t)'
  BY <1>1, <1>6
  DEF AuditsInv, WorkerSound, OwnRecord, KeptRecord, AnswerSound, Early, Traced, Backed
<1> QED BY <1>1, <1>6, <1>7 DEF AuditsInv

\* reject_execution makes no record say more than it did.
LEMMA RejectAudits ==
  ASSUME IInv, AuditsInv, NEW a \in Calls, Reject(a)
  PROVE  AuditsInv'
<1>1. /\ UNCHANGED <<calls, idem, last, orders, pc, job>>
      /\ UpdateAudit(a, "rejected", 0)
  BY DEF Reject
<1>2. /\ \A b \in Calls : RecordSound(b)'
      /\ OrdersPassed' /\ EntriesSound'
      /\ \A u \in Workers : pc'[u] = pc[u] /\ job'[u] = job[u] => WorkerSound(u)'
  BY <1>1, UpdateKeeps DEF Status, Placed
<1> QED BY <1>1, <1>2 DEF AuditsInv

----------------------------------------------------------------------------

\* The answer that is registered is the one the worker found, under a key of
\* the audit's intent.
LEMMA RegisterAudits ==
  ASSUME IInv, AuditsInv, NEW t \in Workers, Register(t)
  PROVE  AuditsInv'
<1>1. /\ pc[t] = "register" /\ pc'[t] = "idle" /\ job[t] \in Job
      /\ job[t].audit \in Calls /\ job[t].req \in Requests
      /\ \A u \in Workers \ {t} : pc'[u] = pc[u] /\ job'[u] = job[u]
      /\ UNCHANGED <<calls, audits, orders>>
      /\ idem' = [idem EXCEPT ![job[t].key] = job[t].audit]
      /\ last' = [last EXCEPT ![job[t].audit] = job[t].answer]
  <2>1. pc[t] = "register"
    BY DEF Register, Return, Step
  <2> QED BY <2>1, WorkerTyped DEF IInv, TypeOK, Register, Return, Step
<1>2. /\ job[t].op \in {"submit", "approve"}
      /\ audits[job[t].audit].req = job[t].req
      /\ job[t].key[1] = NameOf(job[t].req)
      /\ job[t].answer # "none"
      /\ job[t].answer \in Placed => Backed(job[t].audit, job[t].req)
  BY <1>1 DEF IInv, WorkerInv, WorkerBusy, AuditsInv, WorkerSound, OwnRecord,
              KeptRecord, AnswerSound, Early, Job, Ops
<1>3. \A a \in Calls : last'[a] = IF a = job[t].audit THEN job[t].answer ELSE last[a]
  BY <1>1 DEF IInv, TypeOK
<1>4. \A k \in Keys : idem'[k] = IF k = job[t].key THEN job[t].audit ELSE idem[k]
  BY <1>1 DEF IInv, TypeOK
<1>5. \A a \in Calls : RecordSound(a)'
  BY <1>1, <1>2, <1>3 DEF AuditsInv, RecordSound, Created, Traced, Backed
<1>6. OrdersPassed'
  BY <1>1 DEF AuditsInv, OrdersPassed, Created
<1>7. EntriesSound'
  <2>1. ASSUME NEW k \in Keys, idem'[k] # 0
        PROVE  last'[idem'[k]] # "none" /\ k[1] = NameOf(audits[idem'[k]].req)
    <3>1. CASE k = job[t].key
      BY <1>1, <1>2, <1>3, <1>4, <3>1
    <3>2. CASE k # job[t].key
      <4>1. idem'[k] = idem[k] /\ idem[k] \in Calls
        BY <1>4, <2>1, <3>2 DEF IInv, TypeOK
      <4> QED BY <1>2, <1>3, <2>1, <4>1 DEF AuditsInv, EntriesSound
    <3> QED BY <3>1, <3>2
  <2> QED BY <1>1, <2>1 DEF EntriesSound, NameOf
<1>8. \A u \in Workers \ {t} : WorkerSound(u)'
  BY <1>1 DEF AuditsInv, WorkerSound, OwnRecord, KeptRecord, AnswerSound, Traced, Backed
<1> QED BY <1>1, <1>5, <1>6, <1>7, <1>8, IdleSound DEF AuditsInv

\* create_audit writes the record of its own call, which nothing names before.
LEMMA CreateAuditAudits ==
  ASSUME IInv, CallsInv, AuditsInv, NEW t \in Workers, CreateAudit(t)
  PROVE  AuditsInv'
<1>1. /\ pc[t] = "create" /\ pc'[t] = "branch" /\ job[t] \in Job /\ job' = job
      /\ job[t].audit \in Calls /\ job[t].req \in Requests
      /\ job[t].audit \in 1 .. calls
      /\ \A u \in Workers \ {t} : pc'[u] = pc[u] /\ job'[u] = job[u]
      /\ UNCHANGED <<calls, last, orders>>
  <2>1. pc[t] = "create"
    BY DEF CreateAudit, Step
  <2> QED BY <2>1, WorkerTyped DEF IInv, TypeOK, CreateAudit, Step
<1>2. /\ job[t].op \in {"submit", "precheck"}
      /\ job[t].audit = job[t].call
      /\ audits[job[t].audit] = NoAudit
      /\ job[t].op = "submit" <=> job[t].key # NoKey
  BY <1>1 DEF IInv, WorkerInv, WorkerBusy, AuditsInv, WorkerSound, OwnRecord,
              KeptRecord, Early, Job, Ops
<1>3. /\ audits'[job[t].audit].req = job[t].req
      /\ audits'[job[t].audit].key = job[t].key
      /\ audits'[job[t].audit].passed = job[t].passed
      /\ audits'[job[t].audit].status = "init"
      /\ audits'[job[t].audit].order = 0
      /\ audits'[job[t].audit].pending => job[t].op = "submit" /\ job[t].passed
      /\ \A a \in Calls \ {job[t].audit} : audits'[a] = audits[a]
  BY <1>1 DEF IInv, TypeOK, CreateAudit, KeepsRequest
<1>4. \A k \in Keys : idem'[k] \in {0, idem[k]}
  BY DEF CreateAudit
<1>5. NoAudit.req \notin Requests /\ ~NoAudit.passed /\ ~NoAudit.pending
  BY RequestsAssumption DEF NoAudit
<1>6. last[job[t].audit] = "none"
  BY <1>1, <1>2, <1>5 DEF AuditsInv, RecordSound, Created
<1>7. \A a \in Calls : RecordSound(a)'
  <2>1. RecordSound(job[t].audit)'
    BY <1>1, <1>2, <1>3, <1>6 DEF RecordSound, Placed, IInv, TypeOK
  <2>2. \A a \in Calls \ {job[t].audit} : RecordSound(a)'
    BY <1>1, <1>3 DEF AuditsInv, RecordSound, Created, Traced, Backed
  <2> QED BY <1>1, <2>1, <2>2
<1>8. OrdersPassed'
  BY <1>1, <1>2, <1>3, <1>5
  DEF AuditsInv, OrdersPassed, Created, IInv, TypeOK, OrderRecord
<1>9. EntriesSound'
  BY <1>1, <1>3, <1>4, <1>6 DEF AuditsInv, EntriesSound, IInv, TypeOK
<1>10. \A u \in Workers \ {t} : WorkerSound(u)'
  <2>1. ASSUME NEW u \in Workers \ {t}, pc[u] # "idle" PROVE WorkerSound(u)'
    <3>1. job[u].audit \in Calls /\ job[u] \in Job /\ job[u].call # job[t].call
      BY <1>1, <2>1, WorkerTyped DEF CallsInv, CallsApart
    <3>2. job[u].audit # job[t].audit
      BY <1>1, <1>2, <1>5, <2>1, <3>1
      DEF AuditsInv, WorkerSound, OwnRecord, KeptRecord, IInv, WorkerInv, WorkerBusy,
          Job, Ops
    <3> QED BY <1>1, <1>3, <3>1, <3>2
        DEF AuditsInv, WorkerSound, OwnRecord, KeptRecord, AnswerSound, Traced, Backed
  <2>2. ASSUME NEW u \in Workers \ {t}, pc[u] = "idle" PROVE WorkerSound(u)'
    BY <1>1, <2>2, IdleSound
  <2> QED BY <2>1, <2>2
<1>11. WorkerSound(t)'
  BY <1>1, <1>2, <1>3
  DEF AuditsInv, WorkerSound, OwnRecord, KeptRecord, AnswerSound, Early
<1> QED BY <1>7, <1>8, <1>9, <1>10, <1>11 DEF AuditsInv

----------------------------------------------------------------------------

\* A call number nobody has used changes nothing that was said.
LEMMA CountKeeps ==
  ASSUME IInv, AuditsInv, UNCHANGED <<audits, idem, last, orders>>, calls' = calls + 1,
         NEW S \in SUBSET Workers,
         \A u \in S : pc'[u] = pc[u] /\ job'[u] = job[u]
  PROVE  /\ \A a \in Calls : RecordSound(a)'
         /\ OrdersPassed' /\ EntriesSound'
         /\ \A u \in S : WorkerSound(u)'
<1>1. \A a \in Calls : a > calls' => a > calls
  BY DEF IInv, TypeOK, Calls
<1>2. \A a \in Calls : RecordSound(a)'
  BY <1>1 DEF AuditsInv, RecordSound, Created, Traced, Backed
<1>3. OrdersPassed' /\ EntriesSound'
  BY DEF AuditsInv, OrdersPassed, EntriesSound, Created
<1>4. \A u \in S : WorkerSound(u)'
  BY DEF AuditsInv, WorkerSound, OwnRecord, KeptRecord, AnswerSound, Traced, Backed
<1> QED BY <1>2, <1>3, <1>4

\* A key names the intent it was computed for, and is never that of a precheck.
LEMMA KeyNames ==
  ASSUME NEW r \in Requests
  PROVE  KeyOf(r)[1] = NameOf(r) /\ KeyOf(r) # NoKey
BY RequestsAssumption DEF KeyOf, NameOf, NoKey

\* A replay, or an approve of an audit nobody has, starts no handler.
LEMMA AnswerAtOnceAudits ==
  ASSUME IInv, AuditsInv, NEW t \in Workers,
         \/ \E r \in Requests : SubmitReplay(t, r)
         \/ \E a \in Calls : ApproveUnknown(t, a)
  PROVE  AuditsInv'
<1>1. UNCHANGED <<audits, idem, last, orders, pc, job>> /\ calls' = calls + 1
  BY DEF SubmitReplay, ApproveUnknown, shared
<1> QED BY <1>1, CountKeeps DEF AuditsInv

\* A call that starts a handler brings the number of a record nobody wrote.
LEMMA BeginAudits ==
  ASSUME IInv, AuditsInv, NEW t \in Workers, NEW op \in Ops, NEW r \in Requests,
         NEW a \in Calls, NEW k \in Keys \cup {NoKey}, Begin(t, op, r, a, k),
         UNCHANGED <<audits, idem, last, orders>>,
         \/ /\ op = "submit" /\ k = KeyOf(r) /\ a = calls + 1
         \/ /\ op = "precheck" /\ k = NoKey /\ a = calls + 1
         \/ /\ op = "approve" /\ k = KeyOf(r)
            /\ audits[a].pending /\ audits[a].req = r
  PROVE  AuditsInv'
<1>1. /\ pc[t] = "idle" /\ pc'[t] = "resolve" /\ calls' = calls + 1
      /\ \A u \in Workers \ {t} : pc'[u] = pc[u] /\ job'[u] = job[u]
      /\ job'[t] = [IdleJob EXCEPT !.op = op, !.req = r, !.call = calls + 1,
                                   !.audit = a, !.key = k]
  BY DEF IInv, TypeOK, Begin, Step
<1>2. /\ job'[t].op = op /\ job'[t].req = r /\ job'[t].call = calls + 1
      /\ job'[t].audit = a /\ job'[t].key = k /\ job'[t].order = 0
  BY <1>1 DEF IdleJob
<1>3. a = calls + 1 => audits[a] = NoAudit
  BY DEF AuditsInv, RecordSound, IInv, TypeOK
<1>4. WorkerSound(t)'
  BY <1>1, <1>2, <1>3, KeyNames
  DEF WorkerSound, OwnRecord, KeptRecord, AnswerSound, Early, NameOf
<1> QED BY ZenonT(60), <1>1, <1>4, CountKeeps DEF AuditsInv

\* Every call that comes in keeps the invariant.
LEMMA ArriveAudits ==
  ASSUME IInv, AuditsInv, NEW t \in Workers, Arrive(t)
  PROVE  AuditsInv'
<1>1. ASSUME NEW r \in Requests, NEW asserted \in BOOLEAN, SubmitFresh(t, r, asserted)
      PROVE  AuditsInv'
  <2>1. KeyOf(r) \in Keys
    BY KeyTyped DEF IInv
  <2>2. PICK k \in Keys : k = KeyOf(r)
    BY <2>1
  <2>3. calls + 1 \in Calls
    BY <1>1, ConfigAssumption DEF SubmitFresh, Begin, IInv, TypeOK, Calls
  <2>4. PICK a \in Calls : a = calls + 1
    BY <2>3
  <2>5. Begin(t, "submit", r, a, k) /\ UNCHANGED <<audits, idem, last, orders>>
    BY <1>1, <2>2, <2>4 DEF SubmitFresh, Begin
  <2> QED BY <2>2, <2>4, <2>5, BeginAudits DEF Ops
<1>2. ASSUME NEW r \in Requests, PrecheckOnly(t, r)
      PROVE  AuditsInv'
  <2>1. calls + 1 \in Calls
    BY <1>2, ConfigAssumption DEF PrecheckOnly, Begin, IInv, TypeOK, Calls
  <2>2. PICK a \in Calls : a = calls + 1
    BY <2>1
  <2>3. Begin(t, "precheck", r, a, NoKey) /\ UNCHANGED <<audits, idem, last, orders>>
    BY <1>2, <2>2 DEF PrecheckOnly, Begin, shared
  <2> QED BY <2>2, <2>3, BeginAudits DEF Ops
<1>3. ASSUME NEW a \in Calls, Approve(t, a)
      PROVE  AuditsInv'
  <2>1. PICK r \in Requests : r = audits[a].req
    BY <1>3 DEF Approve, IInv, AuditInv
  <2>2. PICK k \in Keys : k = KeyOf(r)
    BY KeyTyped DEF IInv
  <2>3. /\ Begin(t, "approve", r, a, k) /\ UNCHANGED <<audits, idem, last, orders>>
        /\ audits[a].pending
    BY <1>3, <2>1, <2>2 DEF Approve, Begin, KeyOf
  <2> QED BY <2>1, <2>2, <2>3, BeginAudits DEF Ops
<1> QED BY <1>1, <1>2, <1>3, AnswerAtOnceAudits DEF Arrive

\* Every step of a handler keeps the invariant.
LEMMA ProceedAudits ==
  ASSUME IInv, CallsInv, AuditsInv, NEW t \in Workers, Proceed(t)
  PROVE  AuditsInv'
<1>1. CASE \/ \E verdict \in BOOLEAN : RunPrechecks(t, verdict)
           \/ ExecutionPrecheck(t) \/ BlockApprove(t) \/ CreateAudit(t)
  BY <1>1, RunPrechecksAudits, ExecutionPrecheckAudits, BlockApproveAudits,
     CreateAuditAudits
<1>2. CASE \/ FinishPrecheck(t) \/ BlockSubmit(t) \/ MarkPending(t)
           \/ RecordOutcome(t) \/ Register(t)
  BY <1>2, FinishPrecheckAudits, BlockSubmitAudits, MarkPendingAudits,
     RecordOutcomeAudits, RegisterAudits
<1>3. CASE \/ HoldForApproval(t) \/ PassGates(t) \/ RouteToBroker(t)
           \/ RouteSimulated(t) \/ RouteRefused(t) \/ BrokerReplyHollow(t) \/ BrokerRefuses(t)
  BY <1>3, GateAudits, NoOrderAudits
<1>4. CASE \/ \E status \in OrderStatus : BrokerAccepts(t, status)
           \/ BrokerReplyUnreadable(t) \/ BrokerReplyLost(t)
  BY <1>4, PostAudits DEF OrderStatus
<1> QED BY <1>1, <1>2, <1>3, <1>4 DEF Proceed

\* After a restart nobody is at work and nothing is remembered.
LEMMA RestartAudits ==
  ASSUME IInv, AuditsInv, Restart
  PROVE  AuditsInv'
<1>1. \A t \in Workers : WorkerSound(t)'
  BY IdleSound DEF Restart
<1>2. \A a \in Calls : RecordSound(a)'
  BY DEF Restart, AuditsInv, RecordSound, Traced, Backed, Created, Placed
<1>3. OrdersPassed' /\ EntriesSound'
  BY DEF Restart, AuditsInv, OrdersPassed, EntriesSound, Created
<1> QED BY <1>1, <1>2, <1>3 DEF AuditsInv

\* No step leaves the invariant.
LEMMA NextAudits ==
  ASSUME IInv, CallsInv, AuditsInv, [Next]_vars
  PROVE  AuditsInv'
<1>1. ASSUME NEW g \in OperatorGates, FlipGate(g) PROVE AuditsInv'
  BY <1>1
  DEF FlipGate, shared, AuditsInv, RecordSound, WorkerSound, OwnRecord, KeptRecord,
      AnswerSound, OrdersPassed, EntriesSound, Traced, Backed, Created
<1>2. CASE NextBucket \/ UNCHANGED vars
  BY <1>2
  DEF NextBucket, vars, shared, AuditsInv, RecordSound, WorkerSound, OwnRecord,
      KeptRecord, AnswerSound, OrdersPassed, EntriesSound, Traced, Backed, Created
<1> QED BY <1>1, <1>2, ArriveAudits, ProceedAudits, RejectAudits, StatusAudits,
        RestartAudits DEF Next

\* Every reachable state satisfies the invariant about the audit log.
THEOREM AuditsInductive == Spec => []AuditsInv
BY Inductive, CallsInductive, InitAudits, NextAudits, PTL DEF Spec

----------------------------------------------------------------------------

\* No order belongs to a record that was blocked or made by the precheck-only
\* route, however approves, rejects and evictions overlap.
THEOREM BlockedSafety == Spec => []BlockedNeverOrdered
<1>1. IInv /\ AuditsInv => BlockedNeverOrdered
  BY DEF IInv, TypeOK, OrderRecord, AuditsInv, OrdersPassed, RecordSound,
         BlockedNeverOrdered
<1> QED BY <1>1, Inductive, AuditsInductive, PTL

\* What an audit record or a cached answer reports as placed is simulated or on
\* record at the broker, and a recorded order number is that of such an order.
THEOREM PlacedSafety == Spec => []PlacedIsBacked
<1>1. IInv /\ AuditsInv => PlacedIsBacked
  BY DEF IInv, TypeOK, AuditsInv, RecordSound, PlacedIsBacked, Traced
<1> QED BY <1>1, Inductive, AuditsInductive, PTL

\* A replay answers for an audit under the key of the request, and what it says is
\* placed is an order under this key, or simulated.
THEOREM ReplaySafety == Spec => []ReplayMatchesKey
<1>1. IInv /\ AuditsInv => ReplayMatchesKey
  <2> SUFFICES ASSUME IInv, AuditsInv, NEW k \in Keys, idem[k] # 0
               PROVE  /\ last[idem[k]] # "none"
                      /\ NameOf(audits[idem[k]].req) = k[1]
                      /\ last[idem[k]] \in Placed =>
                           \/ ModeOf[audits[idem[k]].req] = "simulated"
                           \/ ~SuccessMeansPlaced
                           \/ \E o \in orders : o.audit = idem[k] /\ NameOf(o.req) = k[1]
    BY DEF ReplayMatchesKey
  <2>1. idem[k] \in Calls
    BY DEF IInv, TypeOK
  <2>2. last[idem[k]] # "none" /\ k[1] = NameOf(audits[idem[k]].req)
    BY DEF AuditsInv, EntriesSound
  <2>3. last[idem[k]] \in Placed => Backed(idem[k], audits[idem[k]].req)
    BY <2>1 DEF AuditsInv, RecordSound
  <2>4. \A o \in orders : audits[o.audit].req = o.req
    BY DEF AuditsInv, OrdersPassed
  <2> QED BY <2>2, <2>3, <2>4 DEF Backed
<1> QED BY <1>1, Inductive, AuditsInductive, PTL

----------------------------------------------------------------------------

\* update_audit never takes the broker order id out of a record.
LEMMA UpdateKeepsOrder ==
  ASSUME IInv, NEW a \in Calls, NEW s \in Status, NEW n \in Calls \cup {0},
         UpdateAudit(a, s, n)
  PROVE  \A b \in Calls : audits[b].order # 0 => audits'[b].order # 0
<1>1. audits \in [Calls -> AuditRecord]
  BY DEF IInv, TypeOK
<1>2. CASE n = 0
  BY <1>1, <1>2 DEF UpdateAudit, AuditRecord
<1>3. CASE n # 0
  BY <1>1, <1>3 DEF UpdateAudit, AuditRecord
<1> QED BY <1>2, <1>3

\* No step of a handler does, either: create_audit writes a record of its own.
LEMMA ProceedKeepsOrder ==
  ASSUME IInv, AuditsInv, NEW t \in Workers, Proceed(t),
         NEW b \in Calls, audits[b].order # 0
  PROVE  audits'[b].order # 0
<1>1. CASE \/ \E verdict \in BOOLEAN : RunPrechecks(t, verdict)
           \/ ExecutionPrecheck(t) \/ BlockApprove(t) \/ HoldForApproval(t)
           \/ PassGates(t) \/ RouteToBroker(t) \/ RouteSimulated(t)
           \/ RouteRefused(t) \/ BrokerReplyHollow(t) \/ BrokerRefuses(t) \/ BrokerReplyUnreadable(t)
           \/ BrokerReplyLost(t) \/ Register(t)
           \/ \E status \in OrderStatus : BrokerAccepts(t, status)
  BY <1>1 DEF RunPrechecks, ExecutionPrecheck, BlockApprove, HoldForApproval,
              PassGates, RouteToBroker, RouteSimulated, RouteRefused, BrokerReplyHollow, BrokerRefuses,
              BrokerReplyUnreadable, BrokerReplyLost, BrokerAccepts, Register, shared
<1>2. CASE FinishPrecheck(t) \/ BlockSubmit(t) \/ MarkPending(t) \/ RecordOutcome(t)
  <2>1. job[t] \in Job /\ job[t].audit \in Calls
    BY <1>2, WorkerTyped
    DEF FinishPrecheck, BlockSubmit, MarkPending, RecordOutcome, Return, Step,
        IInv, TypeOK
  <2>2. PICK a \in Calls, n \in Calls \cup {0} : a = job[t].audit /\ n = job[t].order
    BY <2>1 DEF Job
  <2>3. \E s \in Status : UpdateAudit(a, s, 0) \/ UpdateAudit(a, s, n)
    <3>1. RecordOutcome(t) => job[t].answer \in Status
      BY <2>1 DEF RecordOutcome, Step, IInv, WorkerInv, WorkerAnswer, Placed, Status
    <3> QED BY <1>2, <2>2, <3>1
        DEF FinishPrecheck, BlockSubmit, MarkPending, RecordOutcome, Status
  <2> QED BY <2>3, UpdateKeepsOrder
<1>3. CASE CreateAudit(t)
  <2>1. /\ pc[t] = "create" /\ job[t].audit \in Calls
        /\ \A c \in Calls \ {job[t].audit} : audits'[c] = audits[c]
    BY <1>3, WorkerTyped DEF CreateAudit, Step, IInv, TypeOK
  <2>2. audits[job[t].audit] = NoAudit
    BY <1>3, <2>1 DEF CreateAudit, IInv, TypeOK, WorkerInv, WorkerBusy, AuditsInv,
                      WorkerSound, OwnRecord, KeptRecord, Early, Job, Ops
  <2> QED BY <2>1, <2>2 DEF NoAudit
<1> QED BY <1>1, <1>2, <1>3 DEF Proceed

\* Once an audit names its broker order it always names one of its orders,
\* whichever rejects, late answers, approves and restarts come after
\* (update_audit, reject_execution, _execute_after_gates).
THEOREM TraceSafety == Spec => OrderTraceKept
<1>1. ASSUME IInv, AuditsInv, AuditsInv', [Next]_vars,
             NEW a \in present, audits[a].order # 0
      PROVE  \E o \in orders' : o.audit = a /\ o.id = audits'[a].order
  <2>1. a \in Calls
    BY <1>1 DEF IInv, TypeOK
  <2>2. audits'[a].order # 0
    <3>1. ASSUME NEW t \in Workers, Arrive(t) PROVE audits' = audits
      BY <3>1 DEF Arrive, SubmitReplay, SubmitFresh, PrecheckOnly, Approve,
                  ApproveUnknown, shared
    <3>2. ASSUME NEW b \in Calls, Reject(b) PROVE audits'[a].order # 0
      BY <1>1, <2>1, <3>2, UpdateKeepsOrder DEF Reject, Status
    <3>3. CASE \/ \E o \in orders : CancelOrder(o) \/ BrokerFills(o)
               \/ \E g \in OperatorGates : FlipGate(g)
               \/ NextBucket \/ Restart \/ UNCHANGED vars
      BY <1>1, <3>3 DEF CancelOrder, BrokerFills, SetOrderStatus, FlipGate,
                        NextBucket, Restart, vars, shared
    <3> QED BY <1>1, <2>1, <3>1, <3>2, <3>3, ProceedKeepsOrder DEF Next
  <2> QED BY <1>1, <2>1, <2>2 DEF AuditsInv, RecordSound, Traced
<1>2. IInv /\ AuditsInv /\ AuditsInv' /\ [Next]_vars =>
        [\A a \in present : audits[a].order # 0 =>
           \E o \in orders' : o.audit = a /\ o.id = audits'[a].order]_vars
  BY <1>1
<1> QED BY <1>2, Inductive, AuditsInductive, PTL DEF Spec, OrderTraceKept

----------------------------------------------------------------------------

\* At most one handler is at work.
NoOverlap ==
  \A t, u \in Workers : pc[t] # "idle" /\ pc[u] # "idle" => t = u

KeyTaken(k) == \E a \in present : audits[a].key = k

\* The submit that wrote this record has not returned yet.
SubmitsOn(t, a) ==
  /\ pc[t] \notin Early \cup {"idle"}
  /\ job[t].op = "submit" /\ job[t].audit = a

\* The key of a record on file has an answer, or its submit is still at work.
KeysRegistered ==
  \A a \in present : audits[a].key # NoKey =>
    Cached(audits[a].key) \/ \E t \in Workers : SubmitsOn(t, a)

\* A submit that has not written its record yet is the only one with its key.
KeysAwaited ==
  \A t \in Workers :
    pc[t] \in Early /\ job[t].op = "submit" => ~KeyTaken(job[t].key)

KeysInv == OneAuditPerKey /\ KeysRegistered /\ KeysAwaited

\* A step that leaves the keys and the cached answers alone, and in which no
\* submit of the worker begins or returns.
LEMMA KeysKept ==
  ASSUME IInv, KeysInv, NEW t \in Workers,
         UNCHANGED <<present, idem, last>>,
         \A a \in present : audits'[a].key = audits[a].key,
         \A u \in Workers \ {t} : pc'[u] = pc[u] /\ job'[u] = job[u],
         \/ pc'[t] = "idle" /\ job[t].op # "submit"
         \/ /\ pc[t] # "idle" /\ pc'[t] # "idle"
            /\ pc[t] \in Early <=> pc'[t] \in Early
            /\ \A f \in {"op", "audit", "key"} : job'[t][f] = job[t][f]
  PROVE  KeysInv'
<1>1. OneAuditPerKey'
  BY DEF KeysInv, OneAuditPerKey
<1>2. \A k \in Keys : Cached(k) => Cached(k)'
  BY DEF Cached
<1>3. \A u \in Workers, a \in present : SubmitsOn(u, a) => SubmitsOn(u, a)'
  BY DEF SubmitsOn, Early
<1>4. \A a \in present : audits[a].key \in Keys \cup {NoKey}
  BY DEF IInv, TypeOK, AuditRecord
<1>5. KeysRegistered'
  BY <1>2, <1>3, <1>4 DEF KeysInv, KeysRegistered
<1>6. KeysAwaited'
  BY DEF KeysInv, KeysAwaited, KeyTaken, Early
<1> QED BY <1>1, <1>5, <1>6 DEF KeysInv

\* update_audit does not touch the key of a record.
LEMMA UpdateKeepsKey ==
  ASSUME IInv, NEW a \in Calls, NEW s \in Status, NEW n \in Calls \cup {0},
         UpdateAudit(a, s, n)
  PROVE  \A b \in Calls : audits'[b].key = audits[b].key
<1>1. audits \in [Calls -> AuditRecord]
  BY DEF IInv, TypeOK
<1>2. CASE n = 0
  BY <1>1, <1>2 DEF UpdateAudit, AuditRecord
<1>3. CASE n # 0
  BY <1>1, <1>3 DEF UpdateAudit, AuditRecord
<1> QED BY <1>2, <1>3

\* The steps of a handler that do not touch the audit log.
LEMMA LocalKeys ==
  ASSUME IInv, KeysInv, NEW t \in Workers,
         \/ \E verdict \in BOOLEAN : RunPrechecks(t, verdict)
         \/ BlockApprove(t) \/ HoldForApproval(t) \/ PassGates(t)
         \/ RouteToBroker(t) \/ RouteSimulated(t) \/ RouteRefused(t)
         \/ BrokerReplyHollow(t) \/ BrokerRefuses(t) \/ BrokerReplyUnreadable(t) \/ BrokerReplyLost(t)
         \/ \E status \in OrderStatus : BrokerAccepts(t, status)
  PROVE  KeysInv'
<1>1. /\ UNCHANGED <<present, idem, last, audits>>
      /\ \A u \in Workers \ {t} : pc'[u] = pc[u] /\ job'[u] = job[u]
  BY DEF IInv, TypeOK, RunPrechecks, BlockApprove, HoldForApproval, PassGates,
         RouteToBroker, RouteSimulated, RouteRefused, BrokerReplyHollow, BrokerRefuses,
         BrokerReplyUnreadable, BrokerReplyLost, BrokerAccepts, Step, Return, Answer,
         shared
<1>2. /\ pc[t] # "idle" /\ job[t] \in Job
      /\ pc'[t] # "idle" => (pc[t] \in Early <=> pc'[t] \in Early)
      /\ pc'[t] = "idle" => job[t].op # "submit"
  BY DEF IInv, TypeOK, RunPrechecks, BlockApprove, HoldForApproval, PassGates,
         RouteToBroker, RouteSimulated, RouteRefused, BrokerReplyHollow, BrokerRefuses,
         BrokerReplyUnreadable, BrokerReplyLost, BrokerAccepts, Step, Return, Early
<1>3. pc'[t] # "idle" => \A f \in {"op", "audit", "key"} : job'[t][f] = job[t][f]
  <2>1. CASE \/ \E verdict \in BOOLEAN : RunPrechecks(t, verdict)
             \/ BlockApprove(t) \/ HoldForApproval(t) \/ PassGates(t)
             \/ RouteToBroker(t)
    BY <1>2, <2>1 DEF IInv, TypeOK, Job, RunPrechecks, BlockApprove,
       HoldForApproval, PassGates, RouteToBroker, Return, Step
  <2>2. CASE \/ RouteSimulated(t) \/ RouteRefused(t)
             \/ BrokerReplyHollow(t) \/ BrokerRefuses(t) \/ BrokerReplyUnreadable(t) \/ BrokerReplyLost(t)
    <3>1. \E s : Answer(t, s)
      BY <2>2 DEF RouteSimulated, RouteRefused, BrokerReplyHollow, BrokerRefuses,
                  BrokerReplyUnreadable, BrokerReplyLost
    <3> QED BY <1>2, <3>1 DEF Answer, IInv, TypeOK, Job
  <2>3. ASSUME NEW status \in OrderStatus, BrokerAccepts(t, status)
        PROVE  \A f \in {"op", "audit", "key"} : job'[t][f] = job[t][f]
    <3>1. PICK s, n : job' = [job EXCEPT ![t].answer = s, ![t].order = n]
      BY <2>3 DEF BrokerAccepts
    <3> QED BY <1>2, <3>1 DEF IInv, TypeOK, Job
  <2> QED BY <2>1, <2>2, <2>3
<1> QED BY <1>1, <1>2, <1>3, KeysKept

\* The switch checks take a submit to its create_audit, an approve to the router.
LEMMA ExecutionPrecheckKeys ==
  ASSUME IInv, KeysInv, NEW t \in Workers, ExecutionPrecheck(t)
  PROVE  KeysInv'
<1>1. /\ UNCHANGED <<present, idem, last, audits>>
      /\ \A u \in Workers \ {t} : pc'[u] = pc[u] /\ job'[u] = job[u]
      /\ pc[t] = "gates" /\ job[t] \in Job
      /\ pc'[t] = IF job[t].op = "approve" THEN "route" ELSE "create"
  BY DEF IInv, TypeOK, ExecutionPrecheck, Step, shared
<1>2. \A f \in {"op", "audit", "key"} : job'[t][f] = job[t][f]
  BY <1>1 DEF ExecutionPrecheck, IInv, TypeOK, Job
<1>3. CASE job[t].op # "approve"
  BY <1>1, <1>2, <1>3, KeysKept DEF Early
<1>4. CASE job[t].op = "approve"
  <2>1. \A a \in present : audits[a].key \in Keys \cup {NoKey}
    BY DEF IInv, TypeOK, AuditRecord
  <2>2. \A u \in Workers, a \in present : SubmitsOn(u, a) => SubmitsOn(u, a)'
    BY <1>1, <1>4 DEF SubmitsOn, Early
  <2>3. KeysRegistered'
    BY <1>1, <2>1, <2>2 DEF KeysInv, KeysRegistered, Cached
  <2>4. OneAuditPerKey' /\ KeysAwaited'
    BY <1>1, <1>2, <1>4 DEF KeysInv, OneAuditPerKey, KeysAwaited, KeyTaken
  <2> QED BY <2>3, <2>4 DEF KeysInv
<1> QED BY <1>3, <1>4

\* A new status, whoever writes it.
LEMMA StatusKeys ==
  ASSUME IInv, KeysInv, NEW t \in Workers,
         FinishPrecheck(t) \/ BlockSubmit(t) \/ MarkPending(t) \/ RecordOutcome(t)
  PROVE  KeysInv'
<1>1. /\ UNCHANGED <<present, idem, last>>
      /\ \A u \in Workers \ {t} : pc'[u] = pc[u] /\ job'[u] = job[u]
      /\ pc[t] \in {"branch", "hold", "record"} /\ job[t] \in Job
      /\ job[t].audit \in Calls
      /\ pc'[t] \in {"idle", "register"}
      /\ pc'[t] = "idle" => job[t].op = "precheck"
  <2>1. pc[t] \in {"branch", "hold", "record"}
    BY DEF FinishPrecheck, BlockSubmit, MarkPending, RecordOutcome, Return, Step
  <2> QED BY <2>1, WorkerTyped
      DEF IInv, TypeOK, FinishPrecheck, BlockSubmit, MarkPending, RecordOutcome,
          Return, Step, Answer
<1>2. pc'[t] # "idle" => \A f \in {"op", "audit", "key"} : job'[t][f] = job[t][f]
  <2>1. CASE FinishPrecheck(t)
    BY <1>1, <2>1 DEF FinishPrecheck, Return, Step, IInv, TypeOK
  <2>2. CASE BlockSubmit(t) \/ MarkPending(t) \/ RecordOutcome(t)
    BY <1>1, <2>2 DEF BlockSubmit, MarkPending, RecordOutcome, Answer, IInv, TypeOK, Job
  <2> QED BY <2>1, <2>2
<1>3. PICK a \in Calls, n \in Calls \cup {0} : a = job[t].audit /\ n = job[t].order
  BY <1>1 DEF Job
<1>4. \E s \in Status : UpdateAudit(a, s, 0) \/ UpdateAudit(a, s, n)
  <2>1. RecordOutcome(t) => job[t].answer \in Status
    BY DEF RecordOutcome, Step, IInv, WorkerInv, WorkerAnswer, Placed, Status
  <2> QED BY <1>3, <2>1
      DEF FinishPrecheck, BlockSubmit, MarkPending, RecordOutcome, Status
<1>5. \A b \in present : audits'[b].key = audits[b].key
  BY <1>4, UpdateKeepsKey DEF IInv, TypeOK
<1> QED BY <1>1, <1>2, <1>5, KeysKept DEF Early

\* create_audit with its _trim: the record of the new key comes in, and a record
\* that leaves takes an entry along which no record that stays relies on.
LEMMA CreateAuditKeys ==
  ASSUME IInv, AuditsInv, KeysInv, NoOverlap, NEW t \in Workers, CreateAudit(t)
  PROVE  KeysInv'
<1>1. /\ pc[t] = "create" /\ pc'[t] = "branch" /\ job[t] \in Job /\ job' = job
      /\ job[t].audit \in Calls
      /\ \A u \in Workers \ {t} : pc[u] = "idle" /\ pc'[u] = "idle"
      /\ last' = last
  <2>1. pc[t] = "create"
    BY DEF CreateAudit, Step
  <2> QED BY <2>1, WorkerTyped DEF IInv, TypeOK, CreateAudit, Step, NoOverlap
<1>2. /\ job[t].op \in {"submit", "precheck"}
      /\ job[t].op = "submit" <=> job[t].key # NoKey
      /\ job[t].op = "submit" => ~KeyTaken(job[t].key)
  BY <1>1 DEF IInv, WorkerInv, WorkerBusy, AuditsInv, WorkerSound, OwnRecord,
              KeptRecord, Early, Job, Ops, KeysInv, KeysAwaited
<1> DEFINE own == job[t].audit
<1>3. /\ audits'[own].key = job[t].key
      /\ \A a \in Calls \ {own} : audits'[a] = audits[a]
  BY <1>1 DEF IInv, TypeOK, CreateAudit
<1>4. PICK dropped :
        /\ present' = (present \cup {own}) \ dropped
        /\ dropped \subseteq present \cup {own}
        /\ idem' = [k \in Keys |-> IF \E d \in dropped : audits'[d].key = k
                                   THEN 0 ELSE idem[k]]
  BY ZenonT(60) DEF CreateAudit, Overflow
<1>5. own \in Calls /\ present \subseteq Calls
  BY <1>1 DEF IInv, TypeOK
<1> HIDE DEF own
\* Of the old and the new records together, no two share a key.
<1>6. \A a, b \in present \cup {own} :
        audits'[a].key # NoKey /\ audits'[a].key = audits'[b].key => a = b
  BY <1>2, <1>3, <1>5 DEF KeysInv, OneAuditPerKey, KeyTaken
<1>7. OneAuditPerKey'
  BY <1>4, <1>6 DEF OneAuditPerKey
<1>8. ASSUME NEW a \in present', audits'[a].key # NoKey
      PROVE  Cached(audits[a].key)' \/ \E u \in Workers : SubmitsOn(u, a)'
  <2>1. CASE a = own
    BY <1>1, <1>2, <1>3, <1>8, <2>1 DEF SubmitsOn, Early, own
  <2>2. CASE a # own
    <3>1. /\ a \in present /\ audits'[a].key = audits[a].key
          /\ audits[a].key \in Keys /\ audits[a].key # NoKey
      BY <1>3, <1>4, <1>5, <1>8, <2>2 DEF IInv, TypeOK, AuditRecord
    <3>2. \A u \in Workers : ~SubmitsOn(u, a)
      BY <1>1 DEF SubmitsOn, Early
    <3>3. Cached(audits[a].key)
      BY <3>1, <3>2 DEF KeysInv, KeysRegistered
    <3>4. idem'[audits[a].key] = idem[audits[a].key]
      BY <1>4, <1>6, <1>8, <3>1
    <3> QED BY <1>1, <3>1, <3>3, <3>4 DEF Cached
  <2> QED BY <2>1, <2>2
<1>9. KeysRegistered'
  BY <1>8 DEF KeysRegistered
<1>10. KeysAwaited'
  BY <1>1 DEF KeysAwaited, Early
<1> QED BY <1>7, <1>9, <1>10 DEF KeysInv

\* register_idempotency leaves no key without its answer, whichever audit an
\* approve puts under it.
LEMMA RegisterKeys ==
  ASSUME IInv, AuditsInv, KeysInv, NoOverlap, NEW t \in Workers, Register(t)
  PROVE  KeysInv'
<1>1. /\ pc[t] = "register" /\ job[t] \in Job /\ job[t].audit \in Calls
      /\ \A u \in Workers : pc'[u] = "idle"
      /\ \A u \in Workers \ {t} : pc[u] = "idle"
      /\ UNCHANGED <<audits, present>>
      /\ idem' = [idem EXCEPT ![job[t].key] = job[t].audit]
      /\ last' = [last EXCEPT ![job[t].audit] = job[t].answer]
  <2>1. pc[t] = "register"
    BY DEF Register, Return, Step
  <2> QED BY <2>1, WorkerTyped DEF IInv, TypeOK, Register, Return, Step, NoOverlap
<1>2. job[t].answer # "none"
  BY <1>1 DEF AuditsInv, WorkerSound, AnswerSound
<1>3. \A a \in Calls : last'[a] = IF a = job[t].audit THEN job[t].answer ELSE last[a]
  BY <1>1 DEF IInv, TypeOK
<1>4. \A k \in Keys : idem'[k] = IF k = job[t].key THEN job[t].audit ELSE idem[k]
  BY <1>1 DEF IInv, TypeOK
<1>5. 0 \notin Calls
  BY ConfigAssumption DEF Calls
<1>6. \A k \in Keys : Cached(k) \/ k = job[t].key => Cached(k)'
  <2>1. \A k \in Keys : idem[k] \in Calls \cup {0}
    BY DEF IInv, TypeOK
  <2> QED BY <1>1, <1>2, <1>3, <1>4, <1>5, <2>1 DEF Cached
<1>7. ASSUME NEW a \in present, audits[a].key # NoKey
      PROVE  Cached(audits[a].key)'
  <2>1. audits[a].key \in Keys
    BY <1>7 DEF IInv, TypeOK, AuditRecord
  <2>2. CASE Cached(audits[a].key)
    BY <1>1, <1>6, <2>1, <2>2 DEF Cached
  <2>3. CASE ~Cached(audits[a].key)
    <3>1. job[t].op = "submit" /\ job[t].audit = a
      BY <1>1, <1>7, <2>3 DEF KeysInv, KeysRegistered, SubmitsOn
    <3>2. audits[a].key = job[t].key
      BY <1>1, <3>1 DEF AuditsInv, WorkerSound, OwnRecord, Early
    <3> QED BY <1>1, <1>6, <2>1, <3>2 DEF Cached
  <2> QED BY <2>2, <2>3
<1>8. KeysRegistered'
  BY <1>1, <1>7 DEF KeysRegistered
<1>9. OneAuditPerKey' /\ KeysAwaited'
  BY <1>1 DEF KeysInv, OneAuditPerKey, KeysAwaited, Early
<1> QED BY <1>8, <1>9 DEF KeysInv

\* A submit goes on only with a key that has no answer, and so, while calls do
\* not overlap, no record.
LEMMA ArriveKeys ==
  ASSUME IInv, KeysInv, NoOverlap', NEW t \in Workers, Arrive(t)
  PROVE  KeysInv'
<1>1. CASE \/ \E r \in Requests : SubmitReplay(t, r)
           \/ \E a \in Calls : ApproveUnknown(t, a)
  BY <1>1 DEF SubmitReplay, ApproveUnknown, shared, KeysInv, OneAuditPerKey,
     KeysRegistered, KeysAwaited, KeyTaken, SubmitsOn, Cached
<1>2. ASSUME NEW op \in Ops, NEW r \in Requests, NEW a, NEW k, Begin(t, op, r, a, k),
             UNCHANGED <<audits, present, idem, last>>,
             op = "submit" => k \in Keys /\ k # NoKey /\ ~Cached(k)
      PROVE  KeysInv'
  <2>1. /\ pc[t] = "idle" /\ pc'[t] = "resolve"
        /\ \A u \in Workers \ {t} : pc'[u] = pc[u] /\ job'[u] = job[u]
        /\ job'[t] = [IdleJob EXCEPT !.op = op, !.req = r, !.call = calls + 1,
                                     !.audit = a, !.key = k]
    BY <1>2 DEF IInv, TypeOK, Begin, Step
  <2>2. job'[t].op = op /\ job'[t].key = k
    BY <2>1 DEF IdleJob
  <2>3. \A u \in Workers : pc[u] = "idle"
    BY <2>1 DEF NoOverlap
  <2>4. \A u \in Workers, b \in present : ~SubmitsOn(u, b)
    BY <2>3 DEF SubmitsOn
  <2>5. OneAuditPerKey'
    BY <1>2 DEF KeysInv, OneAuditPerKey
  <2>6. KeysRegistered'
    BY <1>2, <2>4 DEF KeysInv, KeysRegistered, Cached
  <2>7. KeysAwaited'
    <3>1. op = "submit" => ~KeyTaken(k)
      BY <1>2, <2>4 DEF KeysInv, KeysRegistered, KeyTaken
    <3> QED BY <1>2, <2>1, <2>2, <2>3, <3>1 DEF KeysAwaited, KeyTaken, Early
  <2> QED BY <2>5, <2>6, <2>7 DEF KeysInv
<1>3. ASSUME NEW r \in Requests, NEW asserted \in BOOLEAN, SubmitFresh(t, r, asserted)
      PROVE  KeysInv'
  <2>1. KeyOf(r) \in Keys /\ KeyOf(r) # NoKey
    BY KeyTyped, KeyNames DEF IInv
  <2> QED BY <1>2, <1>3, <2>1 DEF SubmitFresh, Ops
<1>4. ASSUME NEW r \in Requests, PrecheckOnly(t, r)
      PROVE  KeysInv'
  BY <1>2, <1>4 DEF PrecheckOnly, shared, Ops
<1>5. ASSUME NEW a \in Calls, Approve(t, a)
      PROVE  KeysInv'
  <2>1. audits[a].req \in Requests
    BY <1>5 DEF Approve, IInv, AuditInv
  <2> QED BY <1>2, <1>5, <2>1 DEF Approve, Ops
<1> QED BY <1>1, <1>3, <1>4, <1>5 DEF Arrive

\* No step of calls that do not overlap leaves the invariant.
LEMMA NextKeys ==
  ASSUME IInv, AuditsInv, KeysInv, NoOverlap, NoOverlap', [Next]_vars
  PROVE  KeysInv'
<1>1. ASSUME NEW t \in Workers, Proceed(t) PROVE KeysInv'
  BY <1>1, LocalKeys, ExecutionPrecheckKeys, StatusKeys, CreateAuditKeys,
     RegisterKeys DEF Proceed
<1>2. ASSUME NEW a \in Calls, Reject(a) PROVE KeysInv'
  <2>1. \A b \in present : audits'[b].key = audits[b].key
    BY <1>2, UpdateKeepsKey DEF Reject, Status, IInv, TypeOK
  <2>2. UNCHANGED <<present, idem, last, pc, job>>
    BY <1>2 DEF Reject
  <2> QED BY <2>1, <2>2 DEF KeysInv, OneAuditPerKey, KeysRegistered, KeysAwaited,
                            KeyTaken, SubmitsOn, Cached
<1>3. CASE \/ \E o \in orders : CancelOrder(o) \/ BrokerFills(o)
           \/ \E g \in OperatorGates : FlipGate(g)
           \/ NextBucket \/ UNCHANGED vars
  <2>1. UNCHANGED <<audits, present, idem, last, pc, job>>
    BY <1>3 DEF CancelOrder, BrokerFills, SetOrderStatus, FlipGate, NextBucket, vars,
                shared
  <2> QED BY <2>1 DEF KeysInv, OneAuditPerKey, KeysRegistered, KeysAwaited,
                      KeyTaken, SubmitsOn, Cached
<1>4. CASE Restart
  BY <1>4 DEF Restart, KeysInv, OneAuditPerKey, KeysRegistered, KeysAwaited, Early
<1> QED BY <1>1, <1>2, <1>3, <1>4, ArriveKeys DEF Next

\* As long as no two calls overlap, each idempotency key has one audit record,
\* whichever windows pass, records are evicted and approves register an audit
\* under a second key (submit_execution, create_audit, register_idempotency).
THEOREM OneAuditSafety == Spec /\ []NoOverlap => []OneAuditPerKey
<1>1. Init => KeysInv
  BY DEF Init, KeysInv, OneAuditPerKey, KeysRegistered, KeysAwaited, Early
<1>2. KeysInv => OneAuditPerKey
  BY DEF KeysInv
<1> QED BY <1>1, <1>2, NextKeys, Inductive, AuditsInductive, PTL DEF Spec

=============================================================================
