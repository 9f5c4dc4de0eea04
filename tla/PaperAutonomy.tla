---------------------------- MODULE PaperAutonomy ----------------------------
(***************************************************************************)
(* app/services/paper_autonomy and the agents that drive it: the simulated *)
(* paper account.                                                          *)
(*                                                                         *)
(* execution_approval_agent turns a plan into an order and a position, or  *)
(* asks for a review through the approval queue; position_monitor_agent    *)
(* marks the workflow's latest open position, close_review_agent closes    *)
(* it, post_trade_evaluator_agent turns the latest closed one into an      *)
(* outcome for the learning loop.  Agents run in any thread, for any       *)
(* workflow, at any time: each store is a dictionary or a list of the      *)
(* process without a lock, read and written back in two steps.             *)
(*                                                                         *)
(* A position is named by the number of its order.  Entry, stop and target *)
(* are those of one plan; a price is one of a few numbers around them.     *)
(* Returns, R multiples and labels follow from the exit price and are left *)
(* out.                                                                    *)
(***************************************************************************)
EXTENDS ApprovalQueue, Sequences

CONSTANTS
  Workflows,     \* workflow run ids
  Entry,         \* the entry price of every plan
  Prices,        \* the quotes the market gives
  MaxHistory,    \* MAX_HISTORY, the outcomes kept for a strategy
  MaxOrders,     \* bound: paper orders
  MaxSecond,     \* bound: seconds that go by
  Loads          \* bound: the demands, of which each behaviour has one

ASSUME PaperAssumption ==
  /\ Workflows # {} /\ Entry \in Nat /\ Prices \subseteq Nat
  /\ MaxHistory \in Nat \ {0} /\ MaxOrders \in Nat /\ MaxSecond \in Nat \ {0}
  /\ Loads \subseteq [orders : 0 .. MaxOrders, quotes : Nat, evaluations : Nat,
                      reviews : Nat, calls : Nat, seconds : 1 .. MaxSecond,
                      restarts : Nat]

Orders == 1 .. MaxOrders

VARIABLES
  budget,     \* what is left of the demand
  now,        \* the current second
  placed,     \* orders placed so far
  paperOrders,\* paper_order_store
  positions,  \* paper_position_store
  outcomes,   \* learning_outcomes_store: the positions evaluated, oldest first
  seen,       \* history: the prices each position was marked or closed at
  crossed     \* history: positions two workers wrote back a copy of at the same time

paperStores == <<paperOrders, positions, outcomes>>
paperVars == <<budget, now, placed, paperStores, seen, crossed>>
vars == <<queueVars, task, paperVars>>

Excursions == {p - Entry : p \in Prices} \cup {0}

Position ==
  [status : {"none", "open", "closed"}, wf : Workflows, opened : 0 .. MaxSecond,
   closed : 0 .. MaxSecond, mfe : Excursions, mae : Excursions]

NoPosition == [status |-> "none", wf |-> CHOOSE w \in Workflows : TRUE,
               opened |-> 0, closed |-> 0, mfe |-> 0, mae |-> 0]

PaperTasks ==
  [op : {"open"}, order : Orders, wf : Workflows]
  \cup [op : {"mark", "close"}, order : Orders, price : Prices]
  \cup [op : {"put"}, order : Orders, price : Prices, position : Position]
  \cup [op : {"trim"}, excess : Nat \ {0}]

PaperTypeOK ==
  /\ QueueTypeOK
  /\ task \in [Workers -> {Idle} \cup QueueTasks \cup PaperTasks]
  /\ now \in 1 .. MaxSecond
  /\ placed \in 0 .. MaxOrders
  /\ paperOrders \subseteq Orders
  /\ positions \in [Orders -> Position]
  /\ outcomes \in Seq(Orders)
  /\ seen \in [Orders -> SUBSET Prices]
  /\ crossed \subseteq Orders

PaperInit ==
  /\ QueueInit
  /\ task = [t \in Workers |-> Idle]
  /\ budget \in Loads
  /\ now = 1 /\ placed = 0
  /\ paperOrders = {}
  /\ positions = [o \in Orders |-> NoPosition]
  /\ outcomes = <<>>
  /\ seen = [o \in Orders |-> {}]
  /\ crossed = {}

----------------------------------------------------------------------------
(* Helpers *)

Spend(what) == budget[what] > 0 /\ budget' = [budget EXCEPT ![what] = @ - 1]

PaperOnly == UNCHANGED queueVars

Begins(t, next) == task[t] = Idle /\ task' = [task EXCEPT ![t] = next]

\* The first of a list sorted by a time in seconds, the latest first; the sort is
\* stable, so among equals the oldest record comes first.
LatestOf(ids, at) ==
  CHOOSE o \in ids : \A p \in ids : at[p] < at[o] \/ (at[p] = at[o] /\ o <= p)

Of(w, status) == {o \in Orders : positions[o].status = status /\ positions[o].wf = w}

\* The time a position got its status.
Since(status) ==
  [o \in Orders |-> IF status = "open" THEN positions[o].opened ELSE positions[o].closed]

\* The positions an agent may work on: the workflow's latest one with the status,
\* and if there is none, one of any workflow that the input names.
Picks(w, status) ==
  IF Of(w, status) # {} THEN {LatestOf(Of(w, status), Since(status))}
  ELSE {o \in Orders : positions[o].status = status}

WritingBack(o) == {t \in Workers : task[t].op = "put" /\ task[t].order = o}

----------------------------------------------------------------------------
(* execution_approval_agent: simulate_paper_order_from_plan *)

\* The outcome of the checks: a live route is always blocked, a plan without a
\* route is reviewed if the owner wants it, a paper route needs every switch, the
\* authority and a complete plan.
SimulatorVerdict(route, review, permitted) ==
  CASE route = "live" -> "live_blocked"
    [] route = "none" -> IF review THEN "approval_required" ELSE "plan_only"
    [] route = "paper" -> IF permitted THEN "paper_simulated" ELSE "paper_blocked"

\* paper_simulated: the order, and then its position.
PlacePaperOrder(t, w, route, review, permitted) ==
  /\ SimulatorVerdict(route, review, permitted) = "paper_simulated"
  /\ Spend("orders")
  /\ Begins(t, [op |-> "open", order |-> placed + 1, wf |-> w])
  /\ placed' = placed + 1
  /\ paperOrders' = paperOrders \cup {placed + 1}
  /\ PaperOnly /\ UNCHANGED <<now, positions, outcomes, seen, crossed>>

OpenPosition(t) ==
  /\ Finishes(t, "open")
  /\ positions' = [positions EXCEPT ![task[t].order] =
       [NoPosition EXCEPT !.status = "open", !.wf = task[t].wf, !.opened = now]]
  /\ PaperOnly /\ UNCHANGED <<budget, now, placed, paperOrders, outcomes, seen, crossed>>

\* approval_required: an item for the operator, and no order.
AskForReview(t, i, route, review, permitted) ==
  /\ SimulatorVerdict(route, review, permitted) = "approval_required"
  /\ Spend("reviews")
  /\ CreateItem(t, i)
  /\ UNCHANGED <<now, placed, paperStores, seen, crossed>>

----------------------------------------------------------------------------
(* position_monitor_agent and close_review_agent *)

\* With a quote for an open position; without one the agent is blocked and nothing
\* happens.  The monitor marks the position; the review closes it, whatever the
\* monitor said, unless it was advised to reduce.
TakePosition(t, w, price, op) ==
  /\ Spend("quotes")
  /\ \E o \in Picks(w, "open") : Begins(t, [op |-> op, order |-> o, price |-> price])
  /\ PaperOnly /\ UNCHANGED <<now, placed, paperStores, seen, crossed>>

Larger(a, b)  == IF a > b THEN a ELSE b
Smaller(a, b) == IF a < b THEN a ELSE b

\* Fault: the highest price is kept instead of the largest gain.
MarkedByPrice(p, price) ==
  [p EXCEPT !.mfe = Larger(@, price), !.mae = Smaller(@, price - Entry)]

\* Fault: the largest loss is not kept.
MarkedFavourable(p, price) == [p EXCEPT !.mfe = Larger(@, price - Entry)]

\* The excursions after one more price.
Marked(p, price) ==
  [p EXCEPT !.mfe = Larger(@, price - Entry), !.mae = Smaller(@, price - Entry)]

\* Fault: a record that was closed meanwhile is written back too.
ReadAnyPosition(t, op, result) ==
  LET o == task[t].order IN
  /\ GoesOn(t, op, [op |-> "put", order |-> o, price |-> task[t].price, position |-> result])
  /\ crossed' = IF WritingBack(o) # {} THEN crossed \cup {o} ELSE crossed
  /\ PaperOnly /\ UNCHANGED <<budget, now, placed, paperStores, seen>>

\* mark_to_market and close read the record again; it may be closed by now.
ReadPosition(t, op, result) ==
  LET o == task[t].order IN
  /\ positions[o].status = "open"
  /\ GoesOn(t, op, [op |-> "put", order |-> o, price |-> task[t].price, position |-> result])
  /\ crossed' = IF WritingBack(o) # {} THEN crossed \cup {o} ELSE crossed
  /\ PaperOnly /\ UNCHANGED <<budget, now, placed, paperStores, seen>>

MarkRead(t) ==
  /\ task[t].op = "mark"
  /\ ReadPosition(t, "mark", Marked(positions[task[t].order], task[t].price))

CloseRead(t) ==
  /\ task[t].op = "close"
  /\ ReadPosition(t, "close", [Marked(positions[task[t].order], task[t].price)
                                 EXCEPT !.status = "closed", !.closed = now])

PositionGone(t) ==
  /\ task[t].op \in {"mark", "close"}
  /\ positions[task[t].order].status # "open"
  /\ Finishes(t, task[t].op)
  /\ PaperOnly /\ UNCHANGED paperVars

\* The copy made of the record replaces it.
PutPosition(t) ==
  LET o == task[t].order IN
  /\ Finishes(t, "put")
  /\ positions' = [positions EXCEPT ![o] = task[t].position]
  /\ seen' = [seen EXCEPT ![o] = @ \cup {task[t].price}]
  /\ PaperOnly /\ UNCHANGED <<budget, now, placed, paperOrders, outcomes, crossed>>

----------------------------------------------------------------------------
(* post_trade_evaluator_agent *)

\* A closed position becomes an outcome, once per call.  What the list has too much
\* is counted ...
Evaluate(t, w) ==
  \E o \in Picks(w, "closed") :
    LET longer == Append(outcomes, o) IN
    /\ Spend("evaluations")
    /\ outcomes' = longer
    /\ Begins(t, IF Len(longer) > MaxHistory
                 THEN [op |-> "trim", excess |-> Len(longer) - MaxHistory] ELSE Idle)
    /\ PaperOnly /\ UNCHANGED <<now, placed, paperOrders, positions, seen, crossed>>

\* Fault: the slice ends one too early.
TrimShort(t) ==
  /\ Finishes(t, "trim")
  /\ outcomes' = SubSeq(outcomes, Smaller(task[t].excess, Len(outcomes)), Len(outcomes))
  /\ PaperOnly /\ UNCHANGED <<budget, now, placed, paperOrders, positions, seen, crossed>>

\* ... and deleted from its front.
TrimOutcomes(t) ==
  /\ Finishes(t, "trim")
  /\ outcomes' = SubSeq(outcomes, Smaller(task[t].excess, Len(outcomes)) + 1, Len(outcomes))
  /\ PaperOnly /\ UNCHANGED <<budget, now, placed, paperOrders, positions, seen, crossed>>

----------------------------------------------------------------------------

QueueCalls(t) ==
  /\ Spend("calls")
  /\ QueueCall(t)
  /\ UNCHANGED <<now, placed, paperStores, seen, crossed>>

QueueSteps(t) == QueueStep(t) /\ UNCHANGED paperVars

NextSecond ==
  /\ now < budget.seconds
  /\ now' = now + 1
  /\ UNCHANGED <<queueVars, task, budget, placed, paperStores, seen, crossed>>

\* The paper account and the memory of the queue do not survive a restart.
RestartPaper ==
  /\ Spend("restarts")
  /\ task' = [t \in Workers |-> Idle]
  /\ memItems' = [i \in Items |-> "none"]
  /\ paperOrders' = {}
  /\ positions' = [o \in Orders |-> NoPosition]
  /\ outcomes' = <<>>
  /\ UNCHANGED <<dbItems, contested, unsaved, now, placed, seen, crossed>>

AgentCall(t) ==
  \/ \E w \in Workflows, route \in {"paper", "none", "live"}, review, permitted \in BOOLEAN :
       \/ PlacePaperOrder(t, w, route, review, permitted)
       \/ \E i \in Items : AskForReview(t, i, route, review, permitted)
  \/ \E w \in Workflows, price \in Prices, op \in {"mark", "close"} :
       TakePosition(t, w, price, op)
  \/ \E w \in Workflows : Evaluate(t, w)

AgentStep(t) ==
  \/ OpenPosition(t)
  \/ MarkRead(t) \/ CloseRead(t) \/ PositionGone(t) \/ PutPosition(t)
  \/ TrimOutcomes(t)

PaperNext ==
  \/ \E t \in Workers : AgentCall(t) \/ AgentStep(t) \/ QueueCalls(t) \/ QueueSteps(t)
  \/ NextSecond
  \/ RestartPaper

PaperSpec == PaperInit /\ [][PaperNext]_vars

----------------------------------------------------------------------------
(* Properties *)

Spread(o) == {p - Entry : p \in seen[o]} \cup {0}

\* The record of a position never loses a price: its excursions are those of the
\* prices it was marked and closed at (paper_position_store.py:71-147), unless two
\* agents wrote copies of the record back at the same time.
ExcursionsExact ==
  \A o \in Orders \ crossed :
    positions[o].status # "none" =>
      /\ positions[o].mfe \in Spread(o) /\ \A x \in Spread(o) : x <= positions[o].mfe
      /\ positions[o].mae \in Spread(o) /\ \A x \in Spread(o) : x >= positions[o].mae

\* The exit of a position is final: no later mark or review touches its record,
\* unless it wrote back a copy read before the close.
ClosedStaysClosed ==
  [][\A o \in Orders \ crossed :
       positions[o].status = "closed" => positions'[o] \in {positions[o], NoPosition}]_vars

\* The learning loop never has more than MAX_HISTORY outcomes of a strategy except
\* those whose append is not over yet, whichever threads trim at the same time.
HistoryBounded ==
  Len(outcomes) <= MaxHistory + Cardinality({t \in Workers : task[t].op = "trim"})

\* What the learning loop learns from is the outcome of a trade that is over,
\* unless two agents wrote the position back at the same time.
OutcomesClosed ==
  \A k \in DOMAIN outcomes :
    outcomes[k] \in crossed \/ positions[outcomes[k]].status = "closed"

=============================================================================
