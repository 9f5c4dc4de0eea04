---------------------------- MODULE PaperProofs ----------------------------
(***************************************************************************)
(* Theorems of PaperAutonomy, for every set of workers, items, workflows   *)
(* and prices, every demand and every number of orders and of restarts.    *)
(***************************************************************************)
EXTENDS PaperAutonomy, FiniteSetTheorems, SequenceTheorems, WellFoundedInduction, TLAPS

----------------------------------------------------------------------------
(* The inductive invariants *)

\* What is left of the demand, and that no order is placed beyond the bound.
BudgetInv ==
  /\ budget \in [orders : Nat, quotes : Nat, evaluations : Nat, reviews : Nat,
                 calls : Nat, seconds : 1 .. MaxSecond, restarts : Nat]
  /\ placed + budget.orders <= MaxOrders

Typed == PaperTypeOK /\ BudgetInv

\* What every worker knows of the rows: a row once written stays.
RowsInv ==
  /\ \A i \in Items \ unsaved : memItems[i] # "none" => dbItems[i] # "none"
  /\ \A t \in Workers :
       task[t].op \in {"remember", "decide", "save"} =>
         task[t].item \in unsaved \/ dbItems[task[t].item] # "none"
  /\ \A t \in Workers : task[t].op = "overwrite" =>
       \A i \in Items : task[t].rows[i] # "none" => dbItems[i] # "none"

\* Whether a task has the item in hand, as InHand says of a worker.
Holds(k, i) ==
  \/ k.op \in {"insert", "remember", "decide", "save"} /\ k.item = i
  \/ k.op = "overwrite" /\ k.rows[i] # "none"

Saves(t, i) == task[t].op = "save" /\ task[t].item = i

\* Of an item that two workers never had in hand together: who has it in hand is
\* alone with it, what a list has read is still the row, a decision on its way to
\* the row is in memory, and otherwise memory differs from the row only when the
\* latest write of the row was lost.
HandInv(i) ==
  /\ \A t, u \in Workers : Holds(task[t], i) /\ Holds(task[u], i) => t = u
  /\ \A t \in Workers :
       task[t].op = "insert" /\ task[t].item = i => memItems[i] = "none" /\ dbItems[i] = "none"
  /\ \A t \in Workers : task[t].op = "remember" /\ task[t].item = i =>
       dbItems[i] = "pending" \/ i \in unsaved
  /\ \A t \in Workers :
       task[t].op = "overwrite" /\ task[t].rows[i] # "none" => task[t].rows[i] = dbItems[i]
  /\ \A t \in Workers : Saves(t, i) => memItems[i] = task[t].status
  /\ (\A t \in Workers : ~ Saves(t, i)) => memItems[i] \in {"none", dbItems[i]} \/ i \in unsaved

QueueInv == RowsInv /\ \A i \in Items \ contested : HandInv(i)

\* A copy of a record that is about to be written back: the record it replaces is
\* open and holds everything the copy was made from.
CopyInv(t, o) ==
  LET copy == task[t].position IN
  /\ positions[o].status = "open"
  /\ copy.status \in {"open", "closed"}
  /\ copy.mfe = Larger(positions[o].mfe, task[t].price - Entry)
  /\ copy.mae = Smaller(positions[o].mae, task[t].price - Entry)

AtPosition == {"open", "mark", "close", "put"}

\* Numbers of orders are not used twice, and until the position of an order is
\* there nobody but the agent that opens it works on it, and nobody has marked it.
FreshInv ==
  /\ \A o \in Orders : o > placed => positions[o].status = "none" /\ seen[o] = {}
  /\ \A t \in Workers : task[t].op \in AtPosition => task[t].order <= placed
  /\ \A t \in Workers : task[t].op = "open" =>
       positions[task[t].order].status = "none" /\ seen[task[t].order] = {}
  /\ \A t, u \in Workers :
       /\ task[t].op = "open" /\ task[u].op \in AtPosition
       /\ task[t].order = task[u].order
       => t = u

Exact(o) ==
  positions[o].status # "none" =>
    /\ positions[o].mfe \in Spread(o) /\ \A x \in Spread(o) : x <= positions[o].mfe
    /\ positions[o].mae \in Spread(o) /\ \A x \in Spread(o) : x >= positions[o].mae

TradeInv ==
  /\ FreshInv
  /\ \A o \in Orders \ crossed :
       /\ Exact(o)
       /\ \A t \in WritingBack(o) : CopyInv(t, o)
       /\ \A t, u \in WritingBack(o) : t = u
  /\ OutcomesClosed

Trimming == {t \in Workers : task[t].op = "trim"}

\* Only finitely many calls have begun, so their trims can be counted.
HistoryInv == IsFiniteSet(Trimming) /\ HistoryBounded

----------------------------------------------------------------------------
(* Types *)

PaperAgent == {"open", "mark", "close", "put", "trim"}
QueueAgent == {"insert", "remember", "overwrite", "decide", "save"}

AllTasks == {Idle} \cup QueueTasks \cup PaperTasks

\* The fields of a task follow from its kind.
LEMMA TaskShape ==
  ASSUME NEW k \in AllTasks
  PROVE  /\ k.op \in {"idle"} \cup QueueAgent \cup PaperAgent
         /\ k.op = "idle" => k = Idle
         /\ k.op \in {"insert", "remember"} => k \in [op : {k.op}, item : Items]
         /\ k.op = "overwrite" => k.rows \in [Items -> ItemStatus]
         /\ k.op \in {"decide", "save"} =>
              k \in [op : {k.op}, item : Items, status : Decisions]
         /\ k.op = "open" => k \in [op : {"open"}, order : Orders, wf : Workflows]
         /\ k.op \in {"mark", "close"} =>
              k \in [op : {k.op}, order : Orders, price : Prices]
         /\ k.op = "put" =>
              k \in [op : {"put"}, order : Orders, price : Prices, position : Position]
         /\ k.op = "trim" => k \in [op : {"trim"}, excess : Nat \ {0}]
<1>1. CASE k = Idle
  BY <1>1 DEF Idle, QueueAgent, PaperAgent
<1>2. CASE k \in [op : {"insert", "remember"}, item : Items]
  BY <1>2 DEF QueueAgent, PaperAgent
<1>3. CASE k \in [op : {"overwrite"}, rows : [Items -> ItemStatus]]
  BY <1>3 DEF QueueAgent, PaperAgent
<1>4. CASE k \in [op : {"decide", "save"}, item : Items, status : Decisions]
  BY <1>4 DEF QueueAgent, PaperAgent
<1>5. CASE k \in [op : {"open"}, order : Orders, wf : Workflows]
  BY <1>5 DEF QueueAgent, PaperAgent
<1>6. CASE k \in [op : {"mark", "close"}, order : Orders, price : Prices]
  BY <1>6 DEF QueueAgent, PaperAgent
<1>7. CASE k \in [op : {"put"}, order : Orders, price : Prices, position : Position]
  BY <1>7 DEF QueueAgent, PaperAgent
<1>8. CASE k \in [op : {"trim"}, excess : Nat \ {0}]
  BY <1>8 DEF QueueAgent, PaperAgent
<1> QED
  BY <1>1, <1>2, <1>3, <1>4, <1>5, <1>6, <1>7, <1>8 DEF AllTasks, QueueTasks, PaperTasks

LEMMA NoPositionTyped == NoPosition \in Position
<1>1. (CHOOSE w \in Workflows : TRUE) \in Workflows
  BY PaperAssumption
<1>2. 0 \in 0 .. MaxSecond /\ 0 \in Excursions
  BY PaperAssumption DEF Excursions
<1> QED
  BY <1>1, <1>2 DEF NoPosition, Position

LEMMA LeastNumber ==
  ASSUME NEW S \in SUBSET Nat, S # {}
  PROVE  \E n \in S : \A m \in S : n <= m
<1> DEFINE Below == {pair \in Nat \X Nat : pair[1] < pair[2]}
<1>1. IsWellFoundedOn(Below, Nat)
  BY NatLessThanWellFounded DEF OpToRel
<1>2. PICK n \in S : \A m \in S : <<m, n>> \notin Below
  <2> HIDE DEF Below
  <2> QED
    BY <1>1, WFMin
<1>3. ASSUME NEW m \in S PROVE ~ (m < n)
  <2>1. m \in Nat /\ n \in Nat /\ <<m, n>> \notin Below
    BY <1>2
  <2> QED
    BY <2>1
<1>4. ASSUME NEW m \in S PROVE n <= m
  <2>1. m \in Nat /\ n \in Nat
    OBVIOUS
  <2> QED
    BY <1>3, <2>1
<1> QED
  BY <1>4

\* A list sorted by time has a first record.
LEMMA LatestExists ==
  ASSUME NEW ids \in SUBSET Orders, ids # {}, NEW at \in [Orders -> 0 .. MaxSecond]
  PROVE  LatestOf(ids, at) \in ids
<1>1. MaxOrders \in Nat /\ MaxSecond \in Nat
  BY PaperAssumption
<1> DEFINE ages == {MaxSecond - at[o] : o \in ids}
<1>2. ages \in SUBSET Nat /\ ages # {}
  <2>1. \A o \in ids : at[o] \in 0 .. MaxSecond
    OBVIOUS
  <2> QED
    BY <1>1, <2>1
<1>3. PICK age \in ages : \A a \in ages : age <= a
  <2> HIDE DEF ages
  <2> QED
    BY <1>2, LeastNumber
<1> DEFINE latest == {o \in ids : MaxSecond - at[o] = age}
<1>4. latest \in SUBSET Nat /\ latest # {}
  <2>1. \A o \in ids : o \in Nat
    BY <1>1 DEF Orders
  <2>2. PICK o \in ids : age = MaxSecond - at[o]
    BY <1>3
  <2>3. o \in latest
    BY <2>2
  <2> QED
    BY <2>1, <2>3
<1>5. PICK o \in latest : \A p \in latest : o <= p
  <2> HIDE DEF latest
  <2> QED
    BY <1>4, LeastNumber
<1>6. \A p \in ids : at[p] < at[o] \/ (at[p] = at[o] /\ o <= p)
  <2> SUFFICES ASSUME NEW p \in ids PROVE at[p] < at[o] \/ (at[p] = at[o] /\ o <= p)
    OBVIOUS
  <2>1. at[p] \in Nat /\ at[o] \in Nat /\ MaxSecond - at[o] <= MaxSecond - at[p]
    <3>1. MaxSecond - at[p] \in ages
      OBVIOUS
    <3> QED
      BY <1>1, <1>3, <1>5, <3>1
  <2>2. CASE at[p] = at[o]
    BY <1>5, <2>2
  <2>3. CASE at[p] # at[o]
    BY <1>1, <2>1, <2>3
  <2> QED
    BY <2>2, <2>3
<1>7. o \in ids
  BY <1>5
<1> QED
  BY <1>6, <1>7 DEF LatestOf

LEMMA PicksHaveStatus ==
  ASSUME positions \in [Orders -> Position], NEW w \in Workflows,
         NEW status \in {"open", "closed"}, NEW o \in Picks(w, status)
  PROVE  o \in Orders /\ positions[o].status = status
<1>1. CASE Of(w, status) = {}
  BY <1>1 DEF Picks
<1>2. CASE Of(w, status) # {}
  <2>1. Of(w, status) \in SUBSET Orders
    BY DEF Of
  <2>2. Since(status) \in [Orders -> 0 .. MaxSecond]
    BY DEF Since, Position
  <2>3. o \in Of(w, status)
    BY <1>2, <2>1, <2>2, LatestExists DEF Picks
  <2> QED
    BY <2>3 DEF Of
<1> QED
  BY <1>1, <1>2

Budgets == [orders : Nat, quotes : Nat, evaluations : Nat, reviews : Nat,
            calls : Nat, seconds : 1 .. MaxSecond, restarts : Nat]

LEMMA SpendTyped ==
  ASSUME BudgetInv, Spend("quotes") \/ Spend("evaluations") \/ Spend("reviews")
                    \/ Spend("calls") \/ Spend("restarts"),
         placed' = placed
  PROVE  BudgetInv'
<1>1. budget \in Budgets
  BY DEF BudgetInv, Budgets
<1>2. budget' \in Budgets /\ budget'.orders = budget.orders
  <2>1. CASE Spend("quotes")
    BY <1>1, <2>1 DEF Spend, Budgets
  <2>2. CASE Spend("evaluations")
    BY <1>1, <2>2 DEF Spend, Budgets
  <2>3. CASE Spend("reviews")
    BY <1>1, <2>3 DEF Spend, Budgets
  <2>4. CASE Spend("calls")
    BY <1>1, <2>4 DEF Spend, Budgets
  <2>5. CASE Spend("restarts")
    BY <1>1, <2>5 DEF Spend, Budgets
  <2> QED
    BY <2>1, <2>2, <2>3, <2>4, <2>5
<1> QED
  BY <1>2 DEF BudgetInv, Budgets

\* The seven fields of the type invariant that are not the worker's task.
StoresTyped ==
  /\ QueueTypeOK
  /\ now \in 1 .. MaxSecond /\ placed \in 0 .. MaxOrders
  /\ paperOrders \subseteq Orders /\ positions \in [Orders -> Position]
  /\ outcomes \in Seq(Orders)
  /\ seen \in [Orders -> SUBSET Prices] /\ crossed \subseteq Orders

LEMMA TypedParts ==
  Typed <=> StoresTyped /\ task \in [Workers -> AllTasks] /\ BudgetInv
BY DEF Typed, PaperTypeOK, StoresTyped, AllTasks

LEMMA TypedPartsNext ==
  Typed' <=> StoresTyped' /\ task' \in [Workers -> AllTasks] /\ BudgetInv'
BY DEF Typed, PaperTypeOK, StoresTyped, AllTasks, Idle, QueueTasks, PaperTasks, Position,
       Orders, Excursions, ItemStatus

\* A worker takes a task of a known kind.
LEMMA TaskTyped ==
  ASSUME task \in [Workers -> AllTasks], NEW t \in Workers, NEW k \in AllTasks,
         task' = [task EXCEPT ![t] = k]
  PROVE  /\ task' \in [Workers -> AllTasks]
         /\ task'[t] = k
         /\ \A u \in Workers : u # t => task'[u] = task[u]
OBVIOUS

LEMMA TaskKinds ==
  /\ Idle \in AllTasks
  /\ \A i \in Items : /\ [op |-> "insert", item |-> i] \in AllTasks
                      /\ [op |-> "remember", item |-> i] \in AllTasks
  /\ \A r \in [Items -> ItemStatus] : [op |-> "overwrite", rows |-> r] \in AllTasks
  /\ \A i \in Items, d \in Decisions :
       /\ [op |-> "decide", item |-> i, status |-> d] \in AllTasks
       /\ [op |-> "save", item |-> i, status |-> d] \in AllTasks
  /\ \A o \in Orders, w \in Workflows : [op |-> "open", order |-> o, wf |-> w] \in AllTasks
  /\ \A o \in Orders, p \in Prices :
       /\ [op |-> "mark", order |-> o, price |-> p] \in AllTasks
       /\ [op |-> "close", order |-> o, price |-> p] \in AllTasks
  /\ \A o \in Orders, p \in Prices, r \in Position :
       [op |-> "put", order |-> o, price |-> p, position |-> r] \in AllTasks
  /\ \A n \in Nat \ {0} : [op |-> "trim", excess |-> n] \in AllTasks
BY DEF AllTasks, QueueTasks, PaperTasks

LEMMA InitTyped == PaperInit => Typed
<1> SUFFICES ASSUME PaperInit PROVE Typed
  OBVIOUS
<1>1. StoresTyped
  BY PaperAssumption, NoPositionTyped
  DEF StoresTyped, PaperInit, QueueInit, QueueTypeOK, ItemStatus, Orders
<1>2. task \in [Workers -> AllTasks]
  BY TaskKinds DEF PaperInit
<1>3. BudgetInv
  <2>1. budget \in [orders : 0 .. MaxOrders, quotes : Nat, evaluations : Nat,
                    reviews : Nat, calls : Nat, seconds : 1 .. MaxSecond, restarts : Nat]
    BY PaperAssumption DEF PaperInit
  <2>2. placed = 0
    BY DEF PaperInit
  <2> QED
    BY <2>1, <2>2, PaperAssumption DEF BudgetInv
<1> QED
  BY <1>1, <1>2, <1>3, TypedParts

\* The record after one more price.
LEMMA MarkTyped ==
  ASSUME NEW p \in Position, NEW price \in Prices
  PROVE  /\ Marked(p, price) \in Position
         /\ Marked(p, price).status = p.status
         /\ Marked(p, price).mfe = Larger(p.mfe, price - Entry)
         /\ Marked(p, price).mae = Smaller(p.mae, price - Entry)
<1>1. price - Entry \in Excursions
  BY DEF Excursions
<1>2. Larger(p.mfe, price - Entry) \in Excursions /\ Smaller(p.mae, price - Entry) \in Excursions
  BY <1>1 DEF Larger, Smaller, Position
<1> QED
  BY <1>2 DEF Marked, Position

LEMMA CloseTyped ==
  ASSUME NEW p \in Position, NEW price \in Prices, NEW second \in 1 .. MaxSecond
  PROVE  LET r == [Marked(p, price) EXCEPT !.status = "closed", !.closed = second] IN
         /\ r \in Position
         /\ r.status = "closed"
         /\ r.mfe = Larger(p.mfe, price - Entry)
         /\ r.mae = Smaller(p.mae, price - Entry)
<1>1. PICK q \in Position : q = Marked(p, price)
  BY MarkTyped
<1>2. second \in 0 .. MaxSecond
  BY PaperAssumption
<1>3. q.mfe = Larger(p.mfe, price - Entry) /\ q.mae = Smaller(p.mae, price - Entry)
  BY <1>1, MarkTyped
<1>4. [q EXCEPT !.status = "closed", !.closed = second] \in Position
  BY <1>2 DEF Position
<1> QED
  BY <1>1, <1>3, <1>4 DEF Position

LEMMA OpenTyped ==
  ASSUME NEW w \in Workflows, NEW second \in 1 .. MaxSecond
  PROVE  LET r == [NoPosition EXCEPT !.status = "open", !.wf = w, !.opened = second] IN
         r \in Position /\ r.status = "open" /\ r.mfe = 0 /\ r.mae = 0
<1>1. second \in 0 .. MaxSecond
  BY PaperAssumption
<1>2. [NoPosition EXCEPT !.status = "open", !.wf = w, !.opened = second] \in Position
  BY <1>1, NoPositionTyped DEF Position
<1> QED
  BY <1>2 DEF NoPosition, Position

\* The steps of the queue, whoever takes them.
LEMMA QueueCallTyped ==
  ASSUME Typed, NEW t \in Workers, QueueCall(t)
  PROVE  QueueTypeOK' /\ task' \in [Workers -> AllTasks]
<1> USE TypedParts DEF StoresTyped, QueueTypeOK
<1>1. CASE \E filter \in {ItemStatus, {"pending"}} : ListItems(t, filter)
  <2>1. PICK filter \in {ItemStatus, {"pending"}} : ListItems(t, filter)
    BY <1>1
  <2> DEFINE rows == [i \in Items |-> IF dbItems[i] \in filter THEN dbItems[i] ELSE "none"]
  <2>2. rows \in [Items -> ItemStatus]
    BY DEF ItemStatus
  <2>3. [op |-> "overwrite", rows |-> rows] \in AllTasks
    <3> HIDE DEF rows
    <3> QED
      BY <2>2, TaskKinds
  <2>4. task' = [task EXCEPT ![t] = [op |-> "overwrite", rows |-> rows]]
    BY <2>1 DEF ListItems, TakesUp
  <2>5. task' \in [Workers -> AllTasks]
    <3> HIDE DEF rows
    <3> QED
      BY <2>3, <2>4, TaskTyped
  <2> QED
    BY <2>1, <2>5 DEF ListItems, TakesUp
<1>2. ASSUME NEW i \in Items, NEW status \in Decisions,
             DecideItem(t, i, status) \/ DecideListed(t, i, status)
      PROVE  QueueTypeOK' /\ task' \in [Workers -> AllTasks]
  <2>1. [op |-> "decide", item |-> i, status |-> status] \in AllTasks
    BY TaskKinds
  <2>2. task' = [task EXCEPT ![t] = [op |-> "decide", item |-> i, status |-> status]]
    BY <1>2 DEF DecideItem, DecideListed, TakesUp
  <2>3. task' \in [Workers -> AllTasks]
    BY <2>1, <2>2, TaskTyped
  <2>4. memItems' \in [Items -> ItemStatus]
    BY <1>2 DEF DecideItem, DecideListed
  <2>5. contested' \subseteq Items
    BY <1>2 DEF DecideItem, DecideListed, TakesUp
  <2> QED
    BY <1>2, <2>3, <2>4, <2>5 DEF DecideItem, DecideListed
<1> QED
  BY <1>1, <1>2 DEF QueueCall

LEMMA QueueStepTyped ==
  ASSUME Typed, NEW t \in Workers, QueueStep(t)
  PROVE  QueueTypeOK' /\ task' \in [Workers -> AllTasks]
<1> USE TypedParts DEF StoresTyped, QueueTypeOK
<1>0. task[t] \in AllTasks
  OBVIOUS
<1>1. CASE InsertItem(t)
  <2>1. task[t].item \in Items
    BY <1>0, <1>1, TaskShape DEF InsertItem, GoesOn
  <2>2. task' \in [Workers -> AllTasks]
    BY <1>1, <2>1, TaskKinds, TaskTyped DEF InsertItem, GoesOn
  <2> QED
    BY <1>1, <2>1, <2>2 DEF InsertItem, Writes, ItemStatus
<1>2. CASE RememberItem(t)
  <2>1. task[t].item \in Items
    BY <1>0, <1>2, TaskShape DEF RememberItem, Finishes, GoesOn
  <2>2. task' \in [Workers -> AllTasks]
    BY <1>2, TaskKinds, TaskTyped DEF RememberItem, Finishes, GoesOn
  <2> QED
    BY <1>2, <2>1, <2>2 DEF RememberItem, ItemStatus
<1>3. CASE OverwriteItems(t)
  <2>1. task[t].rows \in [Items -> ItemStatus]
    BY <1>0, <1>3, TaskShape DEF OverwriteItems, Finishes, GoesOn
  <2>2. task' \in [Workers -> AllTasks]
    BY <1>3, TaskKinds, TaskTyped DEF OverwriteItems, Finishes, GoesOn
  <2> QED
    BY <1>3, <2>1, <2>2 DEF OverwriteItems
<1>4. CASE RememberDecision(t)
  <2>1. /\ task[t] \in [op : {"decide"}, item : Items, status : Decisions]
    BY <1>0, <1>4, TaskShape DEF RememberDecision, GoesOn
  <2>2. [task[t] EXCEPT !.op = "save"] \in [op : {"save"}, item : Items, status : Decisions]
    BY <2>1
  <2>3. [task[t] EXCEPT !.op = "save"] \in AllTasks
    BY <2>2 DEF AllTasks, QueueTasks
  <2>4. task' \in [Workers -> AllTasks]
    BY <1>4, <2>3, TaskTyped DEF RememberDecision, GoesOn
  <2>5. task[t].item \in Items /\ task[t].status \in ItemStatus
    BY <2>1 DEF ItemStatus
  <2> QED
    BY <1>4, <2>4, <2>5 DEF RememberDecision
<1>5. CASE SaveDecision(t)
  <2>1. task[t].item \in Items /\ task[t].status \in Decisions
    BY <1>0, <1>5, TaskShape DEF SaveDecision, Finishes, GoesOn
  <2>2. task' \in [Workers -> AllTasks]
    BY <1>5, TaskKinds, TaskTyped DEF SaveDecision, Finishes, GoesOn
  <2> QED
    BY <1>5, <2>1, <2>2 DEF SaveDecision, Writes, ItemStatus
<1> QED
  BY <1>1, <1>2, <1>3, <1>4, <1>5 DEF QueueStep

LEMMA PlaceTyped ==
  ASSUME Typed, NEW t \in Workers, NEW w \in Workflows, NEW route, NEW review,
         NEW permitted, PlacePaperOrder(t, w, route, review, permitted)
  PROVE  Typed' /\ placed + 1 \in Orders
<1> USE DEF PlacePaperOrder
<1>1. budget \in Budgets /\ budget.orders > 0 /\ placed + budget.orders <= MaxOrders
  BY TypedParts DEF BudgetInv, Budgets, Spend
<1>2. placed \in Nat /\ MaxOrders \in Nat
  BY TypedParts, PaperAssumption DEF StoresTyped
<1>3. placed + 1 \in Orders
  BY <1>1, <1>2 DEF Orders, Budgets
<1>4. task' \in [Workers -> AllTasks]
  BY <1>3, TypedParts, TaskKinds, TaskTyped DEF Begins
<1>5. BudgetInv'
  BY <1>1, <1>2 DEF BudgetInv, Budgets, Spend
<1>6. StoresTyped'
  <2>1. placed' \in 0 .. MaxOrders
    BY <1>2, <1>3 DEF Orders
  <2>2. paperOrders' \subseteq Orders
    BY <1>3, TypedParts DEF StoresTyped
  <2>3. QueueTypeOK'
    BY TypedParts DEF StoresTyped, PaperOnly, queueVars, QueueTypeOK, ItemStatus
  <2> QED
    BY <2>1, <2>2, <2>3, TypedParts
    DEF StoresTyped, Orders, Position, Excursions
<1> QED
  BY <1>3, <1>4, <1>5, <1>6, TypedPartsNext

\* A step that leaves the queue alone and keeps budget, second and orders.
LEMMA StoresKept ==
  ASSUME StoresTyped, PaperOnly, UNCHANGED <<now, placed, paperOrders>>,
         positions' \in [Orders -> Position], outcomes' \in Seq(Orders),
         seen' \in [Orders -> SUBSET Prices], crossed' \subseteq Orders
  PROVE  StoresTyped'
BY DEF StoresTyped, PaperOnly, queueVars, QueueTypeOK, ItemStatus, Orders, Position, Excursions

LEMMA OpenPositionTyped ==
  ASSUME Typed, NEW t \in Workers, OpenPosition(t)
  PROVE  Typed'
<1>1. task[t] \in [op : {"open"}, order : Orders, wf : Workflows]
  BY TypedParts, TaskShape DEF OpenPosition, Finishes, GoesOn
<1>2. positions' \in [Orders -> Position]
  <2>1. [NoPosition EXCEPT !.status = "open", !.wf = task[t].wf, !.opened = now] \in Position
    BY <1>1, TypedParts, OpenTyped DEF StoresTyped
  <2> QED
    BY <1>1, <2>1, TypedParts DEF StoresTyped, OpenPosition
<1>3. StoresTyped'
  BY <1>2, TypedParts, StoresKept DEF StoresTyped, OpenPosition
<1>4. task' \in [Workers -> AllTasks]
  BY TypedParts, TaskKinds, TaskTyped DEF OpenPosition, Finishes, GoesOn
<1>5. BudgetInv'
  BY TypedParts DEF BudgetInv, OpenPosition
<1> QED
  BY <1>3, <1>4, <1>5, TypedPartsNext

LEMMA TakeTyped ==
  ASSUME Typed, NEW t \in Workers, NEW w \in Workflows, NEW price \in Prices,
         NEW op \in {"mark", "close"}, TakePosition(t, w, price, op)
  PROVE  Typed'
<1>1. PICK o \in Picks(w, "open") : Begins(t, [op |-> op, order |-> o, price |-> price])
  BY DEF TakePosition
<1>2. o \in Orders
  BY <1>1, TypedParts, PicksHaveStatus DEF StoresTyped
<1>3. [op |-> op, order |-> o, price |-> price] \in AllTasks
  BY <1>2, TaskKinds
<1>4. task' \in [Workers -> AllTasks]
  BY <1>1, <1>3, TypedParts, TaskTyped DEF Begins
<1>5. StoresTyped'
  BY TypedParts, StoresKept DEF StoresTyped, TakePosition, paperStores
<1>6. BudgetInv'
  BY TypedParts, SpendTyped DEF TakePosition
<1> QED
  BY <1>4, <1>5, <1>6, TypedPartsNext

\* What both agents do with the record they read.
LEMMA ReadTyped ==
  ASSUME Typed, NEW t \in Workers, NEW op \in {"mark", "close"}, NEW result \in Position,
         ReadPosition(t, op, result)
  PROVE  Typed'
<1>1. task[t].op = op
  BY DEF ReadPosition, GoesOn
<1>2. task[t].order \in Orders /\ task[t].price \in Prices
  <2>1. task[t] \in AllTasks
    BY TypedParts
  <2> QED
    BY <1>1, <2>1, TaskShape
<1>3. [op |-> "put", order |-> task[t].order, price |-> task[t].price, position |-> result]
        \in AllTasks
  BY <1>2, TaskKinds
<1>4. task' \in [Workers -> AllTasks]
  BY <1>3, TypedParts, TaskTyped DEF ReadPosition, GoesOn
<1>5. crossed' \subseteq Orders
  BY <1>2, TypedParts DEF StoresTyped, ReadPosition
<1>6. StoresTyped'
  BY <1>5, TypedParts, StoresKept DEF StoresTyped, ReadPosition, paperStores
<1>7. BudgetInv'
  BY TypedParts DEF BudgetInv, ReadPosition
<1> QED
  BY <1>4, <1>6, <1>7, TypedPartsNext

LEMMA PutTyped ==
  ASSUME Typed, NEW t \in Workers, PutPosition(t)
  PROVE  Typed'
<1>1. task[t] \in [op : {"put"}, order : Orders, price : Prices, position : Position]
  BY TypedParts, TaskShape DEF PutPosition, Finishes, GoesOn
<1>2. positions' \in [Orders -> Position] /\ seen' \in [Orders -> SUBSET Prices]
  BY <1>1, TypedParts DEF StoresTyped, PutPosition
<1>3. StoresTyped'
  BY <1>2, TypedParts, StoresKept DEF StoresTyped, PutPosition
<1>4. task' \in [Workers -> AllTasks]
  BY TypedParts, TaskKinds, TaskTyped DEF PutPosition, Finishes, GoesOn
<1>5. BudgetInv'
  BY TypedParts DEF BudgetInv, PutPosition
<1> QED
  BY <1>3, <1>4, <1>5, TypedPartsNext

\* The outcome appended, and the task it leaves behind.
LEMMA EvaluateEffect ==
  ASSUME Typed, NEW t \in Workers, NEW w \in Workflows, NEW o \in Picks(w, "closed"),
         NEW next,
         next = IF Len(Append(outcomes, o)) > MaxHistory
                THEN [op |-> "trim", excess |-> Len(Append(outcomes, o)) - MaxHistory]
                ELSE Idle
  PROVE  /\ o \in Orders /\ positions[o].status = "closed"
         /\ Append(outcomes, o) \in Seq(Orders)
         /\ Len(Append(outcomes, o)) = Len(outcomes) + 1
         /\ \A k \in 1 .. Len(outcomes) : Append(outcomes, o)[k] = outcomes[k]
         /\ Append(outcomes, o)[Len(outcomes) + 1] = o
         /\ next \in AllTasks
         /\ next.op = "trim" \/ (next = Idle /\ Len(outcomes) + 1 <= MaxHistory)
<1>1. o \in Orders /\ positions[o].status = "closed"
  BY TypedParts, PicksHaveStatus DEF StoresTyped
<1>2. outcomes \in Seq(Orders)
  BY TypedParts DEF StoresTyped
<1>3. /\ Append(outcomes, o) \in Seq(Orders)
      /\ Len(Append(outcomes, o)) = Len(outcomes) + 1
      /\ \A k \in 1 .. Len(outcomes) : Append(outcomes, o)[k] = outcomes[k]
      /\ Append(outcomes, o)[Len(outcomes) + 1] = o
  BY <1>1, <1>2, AppendProperties
<1>4. Len(outcomes) \in Nat /\ MaxHistory \in Nat
  BY <1>2, LenProperties, PaperAssumption
<1>5. CASE Len(outcomes) + 1 > MaxHistory
  <2>1. PICK n \in Nat : n = Len(Append(outcomes, o))
    BY <1>3, <1>4
  <2>2. n > MaxHistory /\ n - MaxHistory \in Nat \ {0}
    BY <1>3, <1>4, <1>5, <2>1
  <2>3. next = [op |-> "trim", excess |-> n - MaxHistory]
    BY <2>1, <2>2
  <2>4. next \in AllTasks /\ next.op = "trim"
    BY <2>2, <2>3, TaskKinds
  <2> QED
    BY <1>1, <1>3, <2>4
<1>6. CASE ~ (Len(outcomes) + 1 > MaxHistory)
  BY <1>1, <1>3, <1>4, <1>6, TaskKinds
<1> QED
  BY <1>5, <1>6

LEMMA EvaluateTyped ==
  ASSUME Typed, NEW t \in Workers, NEW w \in Workflows, Evaluate(t, w)
  PROVE  Typed'
<1> DEFINE next(o) == IF Len(Append(outcomes, o)) > MaxHistory
                      THEN [op |-> "trim", excess |-> Len(Append(outcomes, o)) - MaxHistory]
                      ELSE Idle
<1>1. PICK o \in Picks(w, "closed") :
        /\ Spend("evaluations") /\ outcomes' = Append(outcomes, o)
        /\ Begins(t, next(o))
        /\ PaperOnly /\ UNCHANGED <<now, placed, paperOrders, positions, seen, crossed>>
  BY DEF Evaluate
<1>2. outcomes' \in Seq(Orders) /\ next(o) \in AllTasks
  BY <1>1, EvaluateEffect
<1> HIDE DEF next
<1>3. task' \in [Workers -> AllTasks]
  BY <1>1, <1>2, TypedParts, TaskTyped DEF Begins
<1>4. StoresTyped'
  BY <1>1, <1>2, TypedParts, StoresKept DEF StoresTyped
<1>5. BudgetInv'
  BY <1>1, TypedParts, SpendTyped
<1> QED
  BY <1>3, <1>4, <1>5, TypedPartsNext

\* What a trim leaves is what stood behind the records it counted.
LEMMA TrimEffect ==
  ASSUME Typed, NEW t \in Workers, TrimOutcomes(t)
  PROVE  LET cut == Smaller(task[t].excess, Len(outcomes)) IN
         /\ cut \in Nat /\ cut <= Len(outcomes) /\ (Len(outcomes) > 0 => cut >= 1)
         /\ outcomes' \in Seq(Orders)
         /\ Len(outcomes') = Len(outcomes) - cut
         /\ \A k \in 1 .. Len(outcomes') :
              k + cut \in 1 .. Len(outcomes) /\ outcomes'[k] = outcomes[k + cut]
<1> DEFINE cut == Smaller(task[t].excess, Len(outcomes))
           len == Len(outcomes)
<1>1. task[t] \in [op : {"trim"}, excess : Nat \ {0}]
  BY TypedParts, TaskShape DEF TrimOutcomes, Finishes, GoesOn
<1>2. outcomes \in Seq(Orders) /\ len \in Nat /\ \A k \in 1 .. len : outcomes[k] \in Orders
  BY TypedParts, LenProperties, ElementOfSeq DEF StoresTyped
<1>3. cut \in Nat /\ cut <= len /\ (len > 0 => cut >= 1)
  BY <1>1, <1>2 DEF Smaller
<1>4. outcomes' = SubSeq(outcomes, cut + 1, len)
  BY DEF TrimOutcomes
<1> HIDE DEF cut, len
<1>5. /\ SubSeq(outcomes, cut + 1, len) \in Seq(Orders)
      /\ Len(SubSeq(outcomes, cut + 1, len)) =
           IF cut + 1 <= len THEN len - (cut + 1) + 1 ELSE 0
      /\ \A k \in 1 .. len - (cut + 1) + 1 :
           SubSeq(outcomes, cut + 1, len)[k] = outcomes[(cut + 1) + k - 1]
  <2>1. cut + 1 \in Int /\ len \in Int /\ \A k \in cut + 1 .. len : outcomes[k] \in Orders
    BY <1>2, <1>3
  <2> QED
    BY <2>1, SubSeqProperties
<1>6. Len(outcomes') = len - cut
  BY <1>2, <1>3, <1>4, <1>5
<1>7. \A k \in 1 .. len - cut : k + cut \in 1 .. len /\ outcomes'[k] = outcomes[k + cut]
  <2> SUFFICES ASSUME NEW k \in 1 .. len - cut
               PROVE  k + cut \in 1 .. len /\ outcomes'[k] = outcomes[k + cut]
    OBVIOUS
  <2>1. k \in 1 .. len - (cut + 1) + 1 /\ (cut + 1) + k - 1 = k + cut /\ k + cut \in 1 .. len
    BY <1>2, <1>3
  <2> QED
    BY <1>4, <1>5, <2>1
<1> QED
  BY <1>3, <1>4, <1>5, <1>6, <1>7 DEF cut, len

LEMMA TrimTyped ==
  ASSUME Typed, NEW t \in Workers, TrimOutcomes(t)
  PROVE  Typed'
<1>1. outcomes' \in Seq(Orders)
  BY TrimEffect
<1>2. task' \in [Workers -> AllTasks]
  BY TypedParts, TaskKinds, TaskTyped DEF TrimOutcomes, Finishes, GoesOn
<1>3. StoresTyped'
  BY <1>1, TypedParts, StoresKept DEF StoresTyped, TrimOutcomes
<1>4. BudgetInv'
  BY TypedParts DEF BudgetInv, TrimOutcomes
<1> QED
  BY <1>2, <1>3, <1>4, TypedPartsNext

\* A step of the queue leaves the paper account alone.
LEMMA QueueAloneTyped ==
  ASSUME Typed, QueueTypeOK', task' \in [Workers -> AllTasks], BudgetInv',
         UNCHANGED <<now, placed, paperStores, seen, crossed>>
  PROVE  Typed'
BY TypedParts, TypedPartsNext
DEF StoresTyped, paperStores, Orders, Position, Excursions

LEMMA AskTyped ==
  ASSUME Typed, NEW t \in Workers, NEW i \in Items, NEW route, NEW review, NEW permitted,
         AskForReview(t, i, route, review, permitted)
  PROVE  Typed'
<1>1. /\ task' = [task EXCEPT ![t] = [op |-> "insert", item |-> i]]
      /\ contested' \subseteq Items
  BY TypedParts DEF StoresTyped, QueueTypeOK, AskForReview, CreateItem, TakesUp
<1>2. task' \in [Workers -> AllTasks]
  BY <1>1, TypedParts, TaskKinds, TaskTyped
<1>3. QueueTypeOK'
  BY <1>1, TypedParts DEF StoresTyped, QueueTypeOK, AskForReview, CreateItem, ItemStatus
<1>4. BudgetInv'
  BY TypedParts, SpendTyped DEF AskForReview
<1> QED
  BY <1>2, <1>3, <1>4, QueueAloneTyped DEF AskForReview

LEMMA MarkReadTyped ==
  ASSUME Typed, NEW t \in Workers, MarkRead(t)
  PROVE  Typed'
<1>1. task[t].order \in Orders /\ task[t].price \in Prices
  <2>1. task[t] \in AllTasks /\ task[t].op = "mark"
    BY TypedParts DEF MarkRead
  <2> QED
    BY <2>1, TaskShape
<1>2. Marked(positions[task[t].order], task[t].price) \in Position
  BY <1>1, TypedParts, MarkTyped DEF StoresTyped
<1> QED
  BY <1>2, ReadTyped DEF MarkRead

LEMMA CloseReadTyped ==
  ASSUME Typed, NEW t \in Workers, CloseRead(t)
  PROVE  Typed'
<1>1. task[t].order \in Orders /\ task[t].price \in Prices
  <2>1. task[t] \in AllTasks /\ task[t].op = "close"
    BY TypedParts DEF CloseRead
  <2> QED
    BY <2>1, TaskShape
<1>2. [Marked(positions[task[t].order], task[t].price)
         EXCEPT !.status = "closed", !.closed = now] \in Position
  BY <1>1, TypedParts, CloseTyped DEF StoresTyped
<1> QED
  BY <1>2, ReadTyped DEF CloseRead

LEMMA GoneTyped ==
  ASSUME Typed, NEW t \in Workers, PositionGone(t)
  PROVE  Typed'
<1>1. task' \in [Workers -> AllTasks]
  BY TypedParts, TaskKinds, TaskTyped DEF PositionGone, Finishes, GoesOn
<1>2. StoresTyped'
  BY TypedParts, StoresKept DEF StoresTyped, PositionGone, paperVars, paperStores
<1>3. BudgetInv'
  BY TypedParts DEF BudgetInv, PositionGone, paperVars
<1> QED
  BY <1>1, <1>2, <1>3, TypedPartsNext

LEMMA SecondTyped ==
  ASSUME Typed, NextSecond
  PROVE  Typed'
<1>1. now' \in 1 .. MaxSecond
  BY TypedParts, PaperAssumption DEF StoresTyped, BudgetInv, NextSecond
<1>2. StoresTyped'
  BY <1>1, TypedParts
  DEF StoresTyped, NextSecond, queueVars, paperStores, QueueTypeOK, ItemStatus, Orders,
      Position, Excursions
<1> QED
  BY <1>2, TypedParts, TypedPartsNext DEF NextSecond, BudgetInv

LEMMA RestartTyped ==
  ASSUME Typed, RestartPaper
  PROVE  Typed'
<1>1. StoresTyped'
  <2>1. positions' \in [Orders -> Position]
    BY NoPositionTyped DEF RestartPaper
  <2>2. memItems' \in [Items -> ItemStatus]
    BY DEF RestartPaper, ItemStatus
  <2>3. outcomes' \in Seq(Orders) /\ paperOrders' \subseteq Orders
    BY EmptySeq DEF RestartPaper
  <2> QED
    BY <2>1, <2>2, <2>3, TypedParts
    DEF StoresTyped, QueueTypeOK, RestartPaper, Orders, Position, Excursions, ItemStatus
<1>2. task' \in [Workers -> AllTasks]
  BY TaskKinds DEF RestartPaper
<1>3. BudgetInv'
  BY TypedParts, SpendTyped DEF RestartPaper
<1> QED
  BY <1>1, <1>2, <1>3, TypedPartsNext

LEMMA StutterTyped ==
  ASSUME Typed, UNCHANGED vars
  PROVE  Typed'
BY DEF Typed, PaperTypeOK, QueueTypeOK, BudgetInv, vars, queueVars, paperVars, paperStores,
       Idle, QueueTasks, PaperTasks, Position, Orders, Excursions, ItemStatus

LEMMA StepTyped == Typed /\ [PaperNext]_vars => Typed'
<1> SUFFICES ASSUME Typed, [PaperNext]_vars PROVE Typed'
  OBVIOUS
<1>1. ASSUME NEW t \in Workers, AgentCall(t) PROVE Typed'
  BY <1>1, PlaceTyped, AskTyped, TakeTyped, EvaluateTyped DEF AgentCall
<1>2. ASSUME NEW t \in Workers, AgentStep(t) PROVE Typed'
  BY <1>2, OpenPositionTyped, MarkReadTyped, CloseReadTyped, GoneTyped, PutTyped, TrimTyped
  DEF AgentStep
<1>3. ASSUME NEW t \in Workers, QueueCalls(t) PROVE Typed'
  <2>1. BudgetInv'
    BY <1>3, TypedParts, SpendTyped DEF QueueCalls
  <2> QED
    BY <1>3, <2>1, QueueCallTyped, QueueAloneTyped DEF QueueCalls
<1>4. ASSUME NEW t \in Workers, QueueSteps(t) PROVE Typed'
  <2>1. BudgetInv'
    BY <1>4, TypedParts DEF QueueSteps, BudgetInv, paperVars
  <2> QED
    BY <1>4, <2>1, QueueStepTyped, QueueAloneTyped DEF QueueSteps, paperVars
<1>5. CASE NextSecond
  BY <1>5, SecondTyped
<1>6. CASE RestartPaper
  BY <1>6, RestartTyped
<1>7. CASE UNCHANGED vars
  BY <1>7, StutterTyped
<1> QED
  BY <1>1, <1>2, <1>3, <1>4, <1>5, <1>6, <1>7 DEF PaperNext

LEMMA AlwaysTyped == PaperSpec => []Typed
BY InitTyped, StepTyped, PTL DEF PaperSpec

\* Every variable of the paper account and of the queue stays in its type, and no
\* demand places an order beyond the bound.
THEOREM PaperTypes == PaperSpec => []PaperTypeOK
BY AlwaysTyped, PTL DEF Typed

----------------------------------------------------------------------------
(* The approval queue *)

LEMMA InHandIs ==
  ASSUME NEW t \in Workers, NEW i \in Items
  PROVE  i \in InHand(t) <=> Holds(task[t], i)
BY DEF InHand, Holds

\* Of an item not contested after a call was taken up, nobody else has it in hand.
LEMMA TakenAlone ==
  ASSUME NEW t \in Workers, NEW k, NEW touched, TakesUp(t, k, touched),
         NEW i \in Items \ contested'
  PROVE  /\ i \notin contested
         /\ i \in touched => \A u \in Workers : ~ Holds(task[u], i)
<1>1. i \notin contested /\ i \notin touched \cap UNION {InHand(u) : u \in Workers}
  BY DEF TakesUp
<1>2. ASSUME i \in touched, NEW u \in Workers PROVE ~ Holds(task[u], i)
  <2>1. i \notin InHand(u)
    BY <1>1, <1>2
  <2> QED
    BY <2>1, InHandIs
<1> QED
  BY <1>1, <1>2

LEMMA InitQueue == PaperInit => QueueInv
BY DEF PaperInit, QueueInit, QueueInv, RowsInv, HandInv, Holds, Saves, Idle

\* A step of a worker that has nothing of the queue in hand, before and after.
LEMMA OthersKeepQueue ==
  ASSUME Typed, QueueInv, UNCHANGED queueVars, NEW t \in Workers, NEW k \in AllTasks,
         task' = [task EXCEPT ![t] = k],
         task[t].op \notin QueueAgent, k.op \notin QueueAgent
  PROVE  QueueInv'
<1>1. task'[t] = k /\ \A u \in Workers : u # t => task'[u] = task[u]
  BY TypedParts, TaskTyped
<1>2. \A u \in Workers : task'[u].op \in QueueAgent => u # t /\ task'[u] = task[u]
  BY <1>1
<1>3. \A u \in Workers : task[u].op \in QueueAgent => u # t /\ task'[u] = task[u]
  BY <1>1
<1>4. RowsInv'
  BY <1>2 DEF QueueInv, RowsInv, queueVars, QueueAgent
<1>5. ASSUME NEW i \in Items \ contested PROVE HandInv(i)'
  <2> USE DEF queueVars, QueueAgent, HandInv
  <2>0. HandInv(i)
    BY <1>5 DEF QueueInv
  <2>1. \A u \in Workers : Holds(task'[u], i) => Holds(task[u], i)
    BY <1>2 DEF Holds
  <2>2. \A u \in Workers : Saves(u, i) => Saves(u, i)'
    BY <1>3 DEF Saves
  <2>3. \A u \in Workers : Saves(u, i)' => Saves(u, i) /\ task'[u] = task[u]
    BY <1>2 DEF Saves
  <2> QED
    BY <1>2, <2>0, <2>1, <2>2, <2>3
<1> QED
  BY <1>4, <1>5 DEF QueueInv, queueVars

\* A call that is taken up, with an item or with rows that are those of Postgres.
LEMMA TakeUpKeeps ==
  ASSUME Typed, QueueInv, NEW t \in Workers, NEW k \in AllTasks, NEW touched,
         TakesUp(t, k, touched), UNCHANGED <<dbItems, unsaved>>,
         k.op \in {"insert", "decide", "overwrite"},
         \A i \in Items : Holds(k, i) => i \in touched,
         \A i \in Items : memItems'[i] # memItems[i] =>
                            i \in touched /\ memItems'[i] = dbItems[i] /\ dbItems[i] # "none",
         k.op = "insert" => memItems'[k.item] = "none" /\ dbItems[k.item] = "none",
         k.op = "decide" => k.item \in unsaved \/ dbItems[k.item] # "none",
         k.op = "overwrite" => \A i \in Items : k.rows[i] # "none" => k.rows[i] = dbItems[i]
  PROVE  QueueInv'
<1>1. task'[t] = k /\ task[t] = Idle /\ \A u \in Workers : u # t => task'[u] = task[u]
  BY TypedParts, TaskTyped DEF TakesUp
<1>2. RowsInv'
  BY <1>1 DEF QueueInv, RowsInv
<1>3. ASSUME NEW i \in Items \ contested' PROVE HandInv(i)'
  <2>1. HandInv(i) /\ RowsInv
    BY <1>3, TakenAlone DEF QueueInv
  <2>2. Holds(k, i) => \A u \in Workers : ~ Holds(task[u], i)
    BY <1>3, TakenAlone
  <2>3. ~ Holds(Idle, i)
    BY DEF Idle, Holds
  <2>4. \A u, v \in Workers : Holds(task'[u], i) /\ Holds(task'[v], i) => u = v
    BY <1>1, <2>1, <2>2, <2>3 DEF HandInv
  <2>5. \A u \in Workers : task'[u].op = "insert" /\ task'[u].item = i =>
          memItems'[i] = "none" /\ dbItems'[i] = "none"
    BY <1>1, <2>1 DEF HandInv
  <2>6. \A u \in Workers : task'[u].op = "remember" /\ task'[u].item = i =>
          dbItems'[i] = "pending" \/ i \in unsaved'
    BY <1>1, <2>1 DEF HandInv
  <2>7. \A u \in Workers : task'[u].op = "overwrite" /\ task'[u].rows[i] # "none" =>
          task'[u].rows[i] = dbItems'[i]
    BY <1>1, <2>1 DEF HandInv
  <2>8. \A u \in Workers : Saves(u, i)' <=> Saves(u, i)
    BY <1>1 DEF Saves, Idle
  <2>9. CASE memItems'[i] = memItems[i]
    <3>1. \A u \in Workers : Saves(u, i)' => memItems'[i] = task'[u].status
      BY <1>1, <2>1, <2>8, <2>9 DEF HandInv, Saves, Idle
    <3>2. (\A u \in Workers : ~ Saves(u, i)') =>
            memItems'[i] \in {"none", dbItems'[i]} \/ i \in unsaved'
      BY <2>1, <2>8, <2>9 DEF HandInv
    <3> QED
      BY <2>4, <2>5, <2>6, <2>7, <3>1, <3>2 DEF HandInv
  <2>10. CASE memItems'[i] # memItems[i]
    <3>1. i \in touched /\ memItems'[i] = dbItems'[i]
      BY <2>10
    <3>2. \A u \in Workers : ~ Saves(u, i)
      BY <1>3, <3>1, TakenAlone DEF Holds, Saves
    <3> QED
      BY <2>4, <2>5, <2>6, <2>7, <2>8, <3>1, <3>2 DEF HandInv
  <2> QED
    BY <2>9, <2>10
<1> QED
  BY <1>2, <1>3 DEF QueueInv

LEMMA CreateQueue ==
  ASSUME Typed, QueueInv, NEW t \in Workers, NEW i \in Items, CreateItem(t, i)
  PROVE  QueueInv'
<1>1. PICK k \in AllTasks : k = [op |-> "insert", item |-> i]
  BY TaskKinds
<1>2. /\ TakesUp(t, k, {i}) /\ memItems[i] = "none" /\ dbItems[i] = "none"
      /\ UNCHANGED <<memItems, dbItems, unsaved>>
  BY <1>1 DEF CreateItem
<1>3. \A j \in Items : Holds(k, j) => j \in {i}
  BY <1>1 DEF Holds
<1> QED
  BY <1>1, <1>2, <1>3, TakeUpKeeps

LEMMA ListQueue ==
  ASSUME Typed, QueueInv, NEW t \in Workers, NEW filter, ListItems(t, filter)
  PROVE  QueueInv'
<1> DEFINE rows == [i \in Items |-> IF dbItems[i] \in filter THEN dbItems[i] ELSE "none"]
<1>1. rows \in [Items -> ItemStatus] /\ \A i \in Items : rows[i] # "none" => rows[i] = dbItems[i]
  BY TypedParts DEF StoresTyped, QueueTypeOK, ItemStatus
<1>2. /\ TakesUp(t, [op |-> "overwrite", rows |-> rows], {i \in Items : rows[i] # "none"})
      /\ UNCHANGED <<memItems, dbItems, unsaved>>
  BY DEF ListItems
<1> HIDE DEF rows
<1>3. PICK k \in AllTasks : k = [op |-> "overwrite", rows |-> rows]
  BY <1>1, TaskKinds
<1>4. TakesUp(t, k, {i \in Items : rows[i] # "none"})
  BY <1>2, <1>3
<1>5. \A i \in Items : Holds(k, i) => i \in {j \in Items : rows[j] # "none"}
  BY <1>3 DEF Holds
<1> QED
  BY <1>1, <1>2, <1>3, <1>4, <1>5, TakeUpKeeps

LEMMA DecideQueue ==
  ASSUME Typed, QueueInv, NEW t \in Workers, NEW i \in Items, NEW status \in Decisions,
         DecideItem(t, i, status) \/ DecideListed(t, i, status)
  PROVE  QueueInv'
<1>1. PICK k \in AllTasks : k = [op |-> "decide", item |-> i, status |-> status]
  BY TaskKinds
<1>2. \A j \in Items : Holds(k, j) => j = i
  BY <1>1 DEF Holds
<1>3. CASE DecideItem(t, i, status)
  <2>1. TakesUp(t, k, {i}) /\ memItems[i] # "none" /\ UNCHANGED <<memItems, dbItems, unsaved>>
    BY <1>1, <1>3 DEF DecideItem
  <2>2. i \in unsaved \/ dbItems[i] # "none"
    BY <2>1 DEF QueueInv, RowsInv
  <2> QED
    BY <1>1, <1>2, <2>1, <2>2, TakeUpKeeps
<1>4. CASE DecideListed(t, i, status)
  <2> DEFINE listed == {j \in Items : dbItems[j] # "none"}
  <2>1. /\ TakesUp(t, k, listed) /\ dbItems[i] # "none" /\ UNCHANGED <<dbItems, unsaved>>
    BY <1>1, <1>4 DEF DecideListed
  <2>2. \A j \in Items : memItems'[j] # memItems[j] =>
          j \in listed /\ memItems'[j] = dbItems[j] /\ dbItems[j] # "none"
    BY <1>4, TypedParts DEF DecideListed, StoresTyped, QueueTypeOK
  <2>3. i \in listed
    BY <2>1
  <2> HIDE DEF listed
  <2> QED
    BY <1>1, <1>2, <2>1, <2>2, <2>3, TakeUpKeeps
<1> QED
  BY <1>3, <1>4

\* What the items the worker has in hand were to the others, before and after it
\* goes on with the same item.
LEMMA StillAlone ==
  ASSUME Typed, NEW t \in Workers, NEW k \in AllTasks, task' = [task EXCEPT ![t] = k],
         NEW i \in Items, HandInv(i), Holds(k, i) => Holds(task[t], i)
  PROVE  /\ \A u, v \in Workers : Holds(task'[u], i) /\ Holds(task'[v], i) => u = v
         /\ Holds(task[t], i) => \A u \in Workers : Holds(task[u], i) => u = t
<1>1. task'[t] = k /\ \A u \in Workers : u # t => task'[u] = task[u]
  BY TypedParts, TaskTyped
<1>2. \A u \in Workers : Holds(task'[u], i) => Holds(task[u], i)
  BY <1>1
<1> QED
  BY <1>2 DEF HandInv

LEMMA InsertQueue ==
  ASSUME Typed, QueueInv, NEW t \in Workers, InsertItem(t)
  PROVE  QueueInv'
<1>1. PICK item \in Items : item = task[t].item /\ task[t].op = "insert"
  BY TypedParts, TaskShape DEF InsertItem, GoesOn
<1>2. PICK k \in AllTasks : k = [op |-> "remember", item |-> item]
  BY TaskKinds
<1>3. PICK written \in BOOLEAN :
        /\ task' = [task EXCEPT ![t] = k]
        /\ dbItems' = IF written THEN [dbItems EXCEPT ![item] = "pending"] ELSE dbItems
        /\ unsaved' = IF written THEN unsaved \ {item} ELSE unsaved \cup {item}
        /\ UNCHANGED <<memItems, contested>>
  BY <1>1, <1>2 DEF InsertItem, GoesOn, Writes
<1>4. task'[t] = k /\ \A u \in Workers : u # t => task'[u] = task[u]
  BY <1>3, TypedParts, TaskTyped
<1>5. dbItems \in [Items -> ItemStatus]
  BY TypedParts DEF StoresTyped, QueueTypeOK
<1>6. RowsInv'
  BY <1>1, <1>2, <1>3, <1>4, <1>5 DEF QueueInv, RowsInv
<1>7. ASSUME NEW i \in Items \ contested' PROVE HandInv(i)'
  <2>1. HandInv(i)
    BY <1>3, <1>7 DEF QueueInv
  <2>2. \A u, v \in Workers : Holds(task'[u], i) /\ Holds(task'[v], i) => u = v
    <3>1. Holds(k, i) => Holds(task[t], i)
      BY <1>1, <1>2 DEF Holds
    <3> QED
      BY <1>3, <2>1, <3>1, StillAlone
  <2>3. \A u \in Workers : Saves(u, i)' <=> Saves(u, i)
    BY <1>1, <1>2, <1>4 DEF Saves
  <2>4. CASE i # item
    <3>1. dbItems'[i] = dbItems[i] /\ (i \in unsaved' <=> i \in unsaved)
      BY <1>3, <1>5, <2>4
    <3> QED
      BY <1>2, <1>3, <1>4, <2>1, <2>2, <2>3, <2>4, <3>1 DEF HandInv, Saves
  <2>5. CASE i = item
    <3>1. memItems'[i] = "none" /\ (dbItems'[i] = "pending" \/ i \in unsaved')
      BY <1>1, <1>3, <1>5, <2>1, <2>5 DEF HandInv
    <3>2. \A u \in Workers : u # t => ~ Holds(task'[u], i)
      BY <1>1, <1>4, <2>1, <2>5 DEF HandInv, Holds
    <3>3. \A u \in Workers : ~ Saves(u, i)'
      BY <1>2, <1>4, <3>2 DEF Saves, Holds
    <3> QED
      BY <1>2, <1>4, <2>2, <3>1, <3>2, <3>3 DEF HandInv, Holds
  <2> QED
    BY <2>4, <2>5
<1> QED
  BY <1>3, <1>6, <1>7 DEF QueueInv

LEMMA RememberQueue ==
  ASSUME Typed, QueueInv, NEW t \in Workers, RememberItem(t)
  PROVE  QueueInv'
<1>1. PICK item \in Items : item = task[t].item /\ task[t].op = "remember"
  BY TypedParts, TaskShape DEF RememberItem, Finishes, GoesOn
<1>2. /\ task' = [task EXCEPT ![t] = Idle]
      /\ memItems' = [memItems EXCEPT ![item] = "pending"]
      /\ UNCHANGED <<dbItems, contested, unsaved>>
  BY <1>1 DEF RememberItem, Finishes, GoesOn
<1>3. task'[t] = Idle /\ \A u \in Workers : u # t => task'[u] = task[u]
  BY <1>2, TypedParts, TaskTyped, TaskKinds
<1>4. memItems \in [Items -> ItemStatus]
  BY TypedParts DEF StoresTyped, QueueTypeOK
<1>5. RowsInv'
  BY <1>1, <1>2, <1>3, <1>4 DEF QueueInv, RowsInv, Idle
<1>6. ASSUME NEW i \in Items \ contested' PROVE HandInv(i)'
  <2>1. HandInv(i)
    BY <1>2, <1>6 DEF QueueInv
  <2>2. \A u, v \in Workers : Holds(task'[u], i) /\ Holds(task'[v], i) => u = v
    <3>1. Holds(Idle, i) => Holds(task[t], i)
      BY DEF Holds, Idle
    <3> QED
      BY <1>2, <2>1, <3>1, StillAlone, TaskKinds
  <2>3. \A u \in Workers : Saves(u, i)' <=> Saves(u, i)
    BY <1>1, <1>3 DEF Saves, Idle
  <2>4. CASE i # item
    BY <1>2, <1>3, <1>4, <2>1, <2>2, <2>3, <2>4 DEF HandInv, Saves, Idle
  <2>5. CASE i = item
    <3>1. memItems'[i] = "pending" /\ (dbItems'[i] = "pending" \/ i \in unsaved')
      BY <1>1, <1>2, <1>4, <2>1, <2>5 DEF HandInv
    <3>2. \A u \in Workers : ~ Holds(task'[u], i)
      BY <1>1, <1>3, <2>1, <2>5 DEF HandInv, Holds, Idle
    <3> QED
      BY <2>2, <3>1, <3>2 DEF HandInv, Holds, Saves
  <2> QED
    BY <2>4, <2>5
<1> QED
  BY <1>2, <1>5, <1>6 DEF QueueInv

LEMMA OverwriteQueue ==
  ASSUME Typed, QueueInv, NEW t \in Workers, OverwriteItems(t)
  PROVE  QueueInv'
<1>1. PICK rows \in [Items -> ItemStatus] : rows = task[t].rows /\ task[t].op = "overwrite"
  BY TypedParts, TaskShape DEF OverwriteItems, Finishes, GoesOn
<1>2. /\ task' = [task EXCEPT ![t] = Idle]
      /\ memItems' = [i \in Items |-> IF rows[i] # "none" THEN rows[i] ELSE memItems[i]]
      /\ UNCHANGED <<dbItems, contested, unsaved>>
  BY <1>1 DEF OverwriteItems, Finishes, GoesOn
<1>3. task'[t] = Idle /\ \A u \in Workers : u # t => task'[u] = task[u]
  BY <1>2, TypedParts, TaskTyped, TaskKinds
<1>4. RowsInv'
  BY <1>1, <1>2, <1>3 DEF QueueInv, RowsInv, Idle
<1>5. ASSUME NEW i \in Items \ contested' PROVE HandInv(i)'
  <2>1. HandInv(i)
    BY <1>2, <1>5 DEF QueueInv
  <2>2. \A u, v \in Workers : Holds(task'[u], i) /\ Holds(task'[v], i) => u = v
    <3>1. Holds(Idle, i) => Holds(task[t], i)
      BY DEF Holds, Idle
    <3> QED
      BY <1>2, <2>1, <3>1, StillAlone, TaskKinds
  <2>3. \A u \in Workers : Saves(u, i)' <=> Saves(u, i)
    BY <1>1, <1>3 DEF Saves, Idle
  <2>4. CASE rows[i] = "none"
    <3>1. memItems'[i] = memItems[i]
      BY <1>2, <2>4
    <3> QED
      BY <1>2, <1>3, <2>1, <2>2, <2>3, <3>1 DEF HandInv, Saves, Idle
  <2>5. CASE rows[i] # "none"
    <3>1. memItems'[i] = dbItems'[i]
      BY <1>1, <1>2, <2>1, <2>5 DEF HandInv
    <3>2. \A u \in Workers : ~ Holds(task'[u], i)
      BY <1>1, <1>3, <2>1, <2>5 DEF HandInv, Holds, Idle
    <3> QED
      BY <2>2, <3>1, <3>2 DEF HandInv, Holds, Saves
  <2> QED
    BY <2>4, <2>5
<1> QED
  BY <1>2, <1>4, <1>5 DEF QueueInv

LEMMA RememberDecisionQueue ==
  ASSUME Typed, QueueInv, NEW t \in Workers, RememberDecision(t)
  PROVE  QueueInv'
<1>1. /\ task[t] \in [op : {"decide"}, item : Items, status : Decisions]
      /\ task[t].op = "decide"
  BY TypedParts, TaskShape DEF RememberDecision, GoesOn
<1>2. PICK item \in Items, status \in Decisions :
        task[t] = [op |-> "decide", item |-> item, status |-> status]
  BY <1>1
<1>3. PICK k \in AllTasks : k = [op |-> "save", item |-> item, status |-> status]
  BY TaskKinds
<1>4. /\ task' = [task EXCEPT ![t] = k]
      /\ memItems' = [memItems EXCEPT ![item] = status]
      /\ UNCHANGED <<dbItems, contested, unsaved>>
  <2>1. [task[t] EXCEPT !.op = "save"] = k /\ task[t].item = item /\ task[t].status = status
    BY <1>2, <1>3
  <2> QED
    BY <2>1 DEF RememberDecision, GoesOn
<1>5. task'[t] = k /\ \A u \in Workers : u # t => task'[u] = task[u]
  BY <1>4, TypedParts, TaskTyped
<1>6. memItems \in [Items -> ItemStatus]
  BY TypedParts DEF StoresTyped, QueueTypeOK
<1>7. RowsInv'
  BY <1>2, <1>3, <1>4, <1>5, <1>6 DEF QueueInv, RowsInv
<1>8. ASSUME NEW i \in Items \ contested' PROVE HandInv(i)'
  <2>1. HandInv(i)
    BY <1>4, <1>8 DEF QueueInv
  <2>2. \A u, v \in Workers : Holds(task'[u], i) /\ Holds(task'[v], i) => u = v
    <3>1. Holds(k, i) => Holds(task[t], i)
      BY <1>2, <1>3 DEF Holds
    <3> QED
      BY <1>4, <2>1, <3>1, StillAlone
  <2>3. CASE i # item
    <3>1. memItems'[i] = memItems[i]
      BY <1>4, <1>6, <2>3
    <3>2. \A u \in Workers : Saves(u, i)' <=> Saves(u, i)
      BY <1>2, <1>3, <1>5, <2>3 DEF Saves
    <3> QED
      BY <1>2, <1>3, <1>4, <1>5, <2>1, <2>2, <2>3, <3>1, <3>2 DEF HandInv, Saves
  <2>4. CASE i = item
    <3>1. memItems'[i] = status
      BY <1>4, <1>6, <2>4
    <3>2. \A u \in Workers : u # t => ~ Holds(task'[u], i)
      BY <1>2, <1>5, <2>1, <2>4 DEF HandInv, Holds
    <3>3. Saves(t, i)'
      BY <1>3, <1>5, <2>4 DEF Saves
    <3>4. \A u \in Workers : Saves(u, i)' => u = t
      BY <3>2 DEF Saves, Holds
    <3> QED
      BY <1>3, <1>5, <2>2, <3>1, <3>2, <3>3, <3>4 DEF HandInv, Holds
  <2> QED
    BY <2>3, <2>4
<1> QED
  BY <1>4, <1>7, <1>8 DEF QueueInv

LEMMA SaveQueue ==
  ASSUME Typed, QueueInv, NEW t \in Workers, SaveDecision(t)
  PROVE  QueueInv'
<1>1. PICK item \in Items, status \in Decisions :
        task[t].op = "save" /\ task[t].item = item /\ task[t].status = status
  BY TypedParts, TaskShape DEF SaveDecision, Finishes, GoesOn
<1>2. status # "none"
  BY DecisionsAssumption
<1>3. PICK written \in {FALSE, dbItems[item] # "none"} :
        /\ task' = [task EXCEPT ![t] = Idle]
        /\ dbItems' = IF written THEN [dbItems EXCEPT ![item] = status] ELSE dbItems
        /\ unsaved' = IF written THEN unsaved \ {item} ELSE unsaved \cup {item}
        /\ UNCHANGED <<memItems, contested>>
  BY <1>1 DEF SaveDecision, Finishes, GoesOn, Writes
<1>4. task'[t] = Idle /\ \A u \in Workers : u # t => task'[u] = task[u]
  BY <1>3, TypedParts, TaskTyped, TaskKinds
<1>5. dbItems \in [Items -> ItemStatus]
  BY TypedParts DEF StoresTyped, QueueTypeOK
<1>6. \A i \in Items :
        /\ i # item => dbItems'[i] = dbItems[i] /\ (i \in unsaved' <=> i \in unsaved)
        /\ i = item => dbItems'[i] = status \/ (i \in unsaved' /\ dbItems'[i] = dbItems[i])
  BY <1>3, <1>5
<1>7. RowsInv'
  BY <1>1, <1>2, <1>3, <1>4, <1>6 DEF QueueInv, RowsInv, Idle
<1>8. ASSUME NEW i \in Items \ contested' PROVE HandInv(i)'
  <2>1. HandInv(i)
    BY <1>3, <1>8 DEF QueueInv
  <2>2. \A u, v \in Workers : Holds(task'[u], i) /\ Holds(task'[v], i) => u = v
    <3>1. Holds(Idle, i) => Holds(task[t], i)
      BY DEF Holds, Idle
    <3> QED
      BY <1>3, <2>1, <3>1, StillAlone, TaskKinds
  <2>3. CASE i # item
    <3>1. dbItems'[i] = dbItems[i] /\ (i \in unsaved' <=> i \in unsaved)
      BY <1>6, <1>8, <2>3
    <3>2. \A u \in Workers : Saves(u, i)' <=> Saves(u, i)
      BY <1>1, <1>4, <2>3 DEF Saves, Idle
    <3> QED
      BY <1>3, <1>4, <2>1, <2>2, <3>1, <3>2 DEF HandInv, Saves, Idle
  <2>4. CASE i = item
    <3>1. memItems'[i] = status /\ (dbItems'[i] = status \/ i \in unsaved')
      <4>1. Saves(t, i)
        BY <1>1, <2>4 DEF Saves
      <4> QED
        BY <1>1, <1>3, <1>6, <1>8, <2>1, <2>4, <4>1 DEF HandInv
    <3>2. \A u \in Workers : ~ Holds(task'[u], i)
      BY <1>1, <1>4, <2>1, <2>4 DEF HandInv, Holds, Idle
    <3> QED
      BY <2>2, <3>1, <3>2 DEF HandInv, Holds, Saves
  <2> QED
    BY <2>3, <2>4
<1> QED
  BY <1>3, <1>7, <1>8 DEF QueueInv

LEMMA RestartQueue ==
  ASSUME Typed, QueueInv, RestartPaper
  PROVE  QueueInv'
<1>1. /\ \A u \in Workers : task'[u] = Idle
      /\ \A i \in Items : memItems'[i] = "none"
      /\ UNCHANGED <<dbItems, contested, unsaved>>
  BY DEF RestartPaper
<1> QED
  BY <1>1 DEF QueueInv, RowsInv, HandInv, Holds, Saves, Idle

\* What the agents of the paper account do, the queue does not notice.
LEMMA AgentQueue ==
  ASSUME Typed, QueueInv, NEW t \in Workers, AgentStep(t)
  PROVE  QueueInv'
<1>1. CASE MarkRead(t) \/ CloseRead(t)
  <2>0. task[t] \in AllTasks /\ task[t].op \in {"mark", "close"}
    BY <1>1, TypedParts DEF MarkRead, CloseRead
  <2>1. task[t].order \in Orders /\ task[t].price \in Prices
    BY <2>0, TaskShape
  <2>2. PICK result \in Position, op \in {"mark", "close"} : ReadPosition(t, op, result)
    <3>1. /\ Marked(positions[task[t].order], task[t].price) \in Position
          /\ [Marked(positions[task[t].order], task[t].price)
                EXCEPT !.status = "closed", !.closed = now] \in Position
      BY <2>1, TypedParts, MarkTyped, CloseTyped DEF StoresTyped
    <3> QED
      BY <1>1, <3>1 DEF MarkRead, CloseRead
  <2>3. PICK k \in AllTasks :
          /\ k = [op |-> "put", order |-> task[t].order, price |-> task[t].price,
                  position |-> result]
          /\ k.op = "put"
    BY <2>1, TaskKinds
  <2>4. task' = [task EXCEPT ![t] = k] /\ UNCHANGED queueVars
    BY <2>2, <2>3 DEF ReadPosition, GoesOn, PaperOnly
  <2> QED
    BY <2>0, <2>3, <2>4, OthersKeepQueue DEF QueueAgent
<1>2. CASE OpenPosition(t) \/ PositionGone(t) \/ PutPosition(t) \/ TrimOutcomes(t)
  <2>1. task[t].op \in PaperAgent /\ task' = [task EXCEPT ![t] = Idle] /\ UNCHANGED queueVars
    BY <1>2 DEF OpenPosition, PositionGone, PutPosition, TrimOutcomes, Finishes, GoesOn,
                PaperOnly, PaperAgent
  <2>2. task[t].op \notin QueueAgent /\ Idle.op \notin QueueAgent
    BY <2>1 DEF PaperAgent, QueueAgent, Idle
  <2> QED
    BY <2>1, <2>2, OthersKeepQueue, TaskKinds
<1> QED
  BY <1>1, <1>2 DEF AgentStep

LEMMA CallQueue ==
  ASSUME Typed, QueueInv, NEW t \in Workers, AgentCall(t)
  PROVE  QueueInv'
<1>0. Idle.op \notin QueueAgent
  BY DEF Idle, QueueAgent
<1>1. ASSUME NEW w \in Workflows, NEW route, NEW review, NEW permitted,
             PlacePaperOrder(t, w, route, review, permitted)
      PROVE  QueueInv'
  <2>1. placed + 1 \in Orders
    BY <1>1, PlaceTyped
  <2>2. PICK k \in AllTasks :
          k = [op |-> "open", order |-> placed + 1, wf |-> w] /\ k.op = "open"
    BY <2>1, TaskKinds
  <2>3. task[t] = Idle /\ task' = [task EXCEPT ![t] = k] /\ UNCHANGED queueVars
    BY <1>1, <2>2 DEF PlacePaperOrder, Begins, PaperOnly
  <2> QED
    BY <1>0, <2>2, <2>3, OthersKeepQueue DEF QueueAgent
<1>2. ASSUME NEW i \in Items, NEW route, NEW review, NEW permitted,
             AskForReview(t, i, route, review, permitted)
      PROVE  QueueInv'
  BY <1>2, CreateQueue DEF AskForReview
<1>3. ASSUME NEW w \in Workflows, NEW price \in Prices, NEW op \in {"mark", "close"},
             TakePosition(t, w, price, op)
      PROVE  QueueInv'
  <2>1. PICK o \in Picks(w, "open") : Begins(t, [op |-> op, order |-> o, price |-> price])
    BY <1>3 DEF TakePosition
  <2>2. o \in Orders
    BY <2>1, TypedParts, PicksHaveStatus DEF StoresTyped
  <2>3. PICK k \in AllTasks : k = [op |-> op, order |-> o, price |-> price] /\ k.op = op
    BY <2>2, TaskKinds
  <2>4. task[t] = Idle /\ task' = [task EXCEPT ![t] = k] /\ UNCHANGED queueVars
    BY <1>3, <2>1, <2>3 DEF TakePosition, Begins, PaperOnly
  <2> QED
    BY <1>0, <2>3, <2>4, OthersKeepQueue DEF QueueAgent
<1>4. ASSUME NEW w \in Workflows, Evaluate(t, w) PROVE QueueInv'
  <2> DEFINE next(o) == IF Len(Append(outcomes, o)) > MaxHistory
                        THEN [op |-> "trim", excess |-> Len(Append(outcomes, o)) - MaxHistory]
                        ELSE Idle
  <2>1. PICK o \in Picks(w, "closed") : Begins(t, next(o)) /\ PaperOnly
    BY <1>4 DEF Evaluate
  <2>2. next(o) \in AllTasks /\ (next(o).op = "trim" \/ next(o) = Idle)
    BY <2>1, EvaluateEffect
  <2> HIDE DEF next
  <2>3. task[t] = Idle /\ task' = [task EXCEPT ![t] = next(o)] /\ UNCHANGED queueVars
    BY <2>1 DEF Begins, PaperOnly
  <2>4. next(o).op \notin QueueAgent
    BY <1>0, <2>2 DEF QueueAgent
  <2> QED
    BY <1>0, <2>2, <2>3, <2>4, OthersKeepQueue
<1> QED
  BY <1>1, <1>2, <1>3, <1>4 DEF AgentCall

LEMMA StepQueue == Typed /\ QueueInv /\ [PaperNext]_vars => QueueInv'
<1> SUFFICES ASSUME Typed, QueueInv, [PaperNext]_vars PROVE QueueInv'
  OBVIOUS
<1>1. ASSUME NEW t \in Workers, QueueCalls(t) PROVE QueueInv'
  BY <1>1, ListQueue, DecideQueue DEF QueueCalls, QueueCall
<1>2. ASSUME NEW t \in Workers, QueueSteps(t) PROVE QueueInv'
  BY <1>2, InsertQueue, RememberQueue, OverwriteQueue, RememberDecisionQueue, SaveQueue
  DEF QueueSteps, QueueStep
<1>3. CASE NextSecond \/ UNCHANGED vars
  <2>1. UNCHANGED <<memItems, dbItems, contested, unsaved, task>>
    BY <1>3 DEF NextSecond, vars, queueVars
  <2>2. RowsInv => RowsInv'
    BY <2>1 DEF RowsInv
  <2>3. ASSUME NEW i \in Items, HandInv(i) PROVE HandInv(i)'
    BY <2>1, <2>3 DEF HandInv, Holds, Saves
  <2> QED
    BY <2>1, <2>2, <2>3 DEF QueueInv
<1> QED
  BY <1>1, <1>2, <1>3, AgentQueue, CallQueue, RestartQueue DEF PaperNext

\* Memory and the row agree on every item that nobody has in hand, that no two calls
\* had in hand together and whose latest row was written: such a decision survives a
\* restart, and no list brings an old status back.
THEOREM QueueConsistent == PaperSpec => []QueueAgrees
<1>1. Typed /\ QueueInv => QueueAgrees
  <2> SUFFICES ASSUME QueueInv, NEW i \in Items \ (contested \cup unsaved),
                      \A t \in Workers : i \notin InHand(t)
               PROVE  memItems[i] \in {"none", dbItems[i]}
    BY DEF QueueAgrees
  <2>1. \A t \in Workers : ~ Saves(t, i)
    <3>1. \A t \in Workers : ~ Holds(task[t], i)
      BY InHandIs
    <3> QED
      BY <3>1 DEF Holds, Saves
  <2> QED
    BY <2>1 DEF QueueInv, HandInv
<1>2. PaperSpec => []QueueInv
  BY AlwaysTyped, InitQueue, StepQueue, PTL DEF PaperSpec
<1> QED
  BY <1>1, <1>2, AlwaysTyped, PTL

----------------------------------------------------------------------------
(* Positions: what a price adds to the record *)

\* The excursions of a record grow as the set of prices it has seen.
LEMMA ExactAfter ==
  ASSUME NEW S \in SUBSET Int, NEW high \in S, NEW low \in S, NEW x \in Int,
         \A y \in S : y <= high, \A y \in S : low <= y
  PROVE  LET T == S \cup {x} IN
         /\ Larger(high, x) \in T /\ \A y \in T : y <= Larger(high, x)
         /\ Smaller(low, x) \in T /\ \A y \in T : y >= Smaller(low, x)
<1>1. high \in Int /\ low \in Int
  OBVIOUS
<1>2. \A y \in S \cup {x} : y <= Larger(high, x)
  BY <1>1 DEF Larger
<1>3. \A y \in S \cup {x} : y >= Smaller(low, x)
  BY <1>1 DEF Smaller
<1> QED
  BY <1>2, <1>3 DEF Larger, Smaller

LEMMA SpreadInt ==
  ASSUME seen \in [Orders -> SUBSET Prices], NEW o \in Orders
  PROVE  Spread(o) \in SUBSET Int
BY PaperAssumption DEF Spread

LEMMA InitTrade == PaperInit => TradeInv
<1> SUFFICES ASSUME PaperInit PROVE TradeInv
  OBVIOUS
<1>1. /\ \A o \in Orders : positions[o] = NoPosition /\ seen[o] = {}
      /\ \A t \in Workers : task[t].op = "idle"
      /\ outcomes = <<>>
  BY DEF PaperInit, Idle
<1>2. NoPosition.status = "none"
  BY DEF NoPosition
<1>3. OutcomesClosed
  BY <1>1 DEF OutcomesClosed
<1> QED
  BY <1>1, <1>2, <1>3 DEF TradeInv, FreshInv, AtPosition, Exact, WritingBack

\* A step that changes no record and no outcome, and no copy of a record.
LEMMA RecordsKeepTrade ==
  ASSUME Typed, TradeInv, NEW t \in Workers, NEW k \in AllTasks,
         task' = [task EXCEPT ![t] = k],
         k.op \notin {"open", "put"},
         task[t].op # "put",
         k.op \in {"mark", "close"} =>
           k.order \in Orders /\ positions[k.order].status # "none",
         UNCHANGED <<placed, positions, seen, crossed>>,
         OutcomesClosed'
  PROVE  TradeInv'
<1>1. task'[t] = k /\ \A u \in Workers : u # t => task'[u] = task[u]
  BY TypedParts, TaskTyped
<1>2. FreshInv'
  <2>1. \A o \in Orders : o > placed => positions[o].status = "none" /\ seen[o] = {}
    BY DEF TradeInv, FreshInv
  <2>2. \A u \in Workers : task'[u].op \in AtPosition =>
          task'[u].order <= placed
    <3>1. k.op \in {"mark", "close"} => k.order <= placed
      BY <2>1, TypedParts, PaperAssumption DEF StoresTyped, Orders
    <3>2. k.op \in AtPosition => k.op \in {"mark", "close"}
      BY DEF AtPosition
    <3> QED
      BY <1>1, <3>1, <3>2 DEF TradeInv, FreshInv
  <2>3. \A u \in Workers : task'[u].op = "open" => u # t /\ task'[u] = task[u]
    BY <1>1
  <2>4. \A u \in Workers : task[u].op = "open" =>
          positions[task[u].order].status = "none" /\ seen[task[u].order] = {}
    BY DEF TradeInv, FreshInv
  <2>5. ASSUME NEW u \in Workers, NEW v \in Workers,
               task'[u].op = "open", task'[v].op \in AtPosition,
               task'[u].order = task'[v].order
        PROVE  u = v
    <3>1. u # t /\ task'[u] = task[u]
      BY <2>3, <2>5
    <3>2. CASE v = t
      <4>1. k.op \in {"mark", "close"}
        BY <1>1, <2>5, <3>2 DEF AtPosition
      <4> QED
        BY <1>1, <2>4, <2>5, <3>1, <3>2, <4>1
    <3>3. CASE v # t
      BY <1>1, <2>5, <3>1, <3>3 DEF TradeInv, FreshInv
    <3> QED
      BY <3>2, <3>3
  <2> QED
    BY <2>1, <2>2, <2>3, <2>4, <2>5 DEF FreshInv
<1>3. \A o : WritingBack(o)' = WritingBack(o)
  BY <1>1 DEF WritingBack
<1>4. ASSUME NEW o \in Orders \ crossed
      PROVE  /\ Exact(o)'
             /\ \A u \in WritingBack(o)' : CopyInv(u, o)'
             /\ \A u, v \in WritingBack(o)' : u = v
  <2>1. Exact(o) /\ (\A u \in WritingBack(o) : CopyInv(u, o))
        /\ \A u, v \in WritingBack(o) : u = v
    BY <1>4 DEF TradeInv
  <2>2. \A u \in WritingBack(o) : task'[u] = task[u]
    BY <1>1 DEF WritingBack
  <2>3. \A u \in WritingBack(o)' : CopyInv(u, o)'
    BY <1>3, <2>1, <2>2 DEF CopyInv
  <2>4. Exact(o)'
    BY <2>1 DEF Exact, Spread
  <2> QED
    BY <1>3, <2>1, <2>3, <2>4
<1> QED
  BY <1>2, <1>4 DEF TradeInv

LEMMA OutcomesKept ==
  ASSUME OutcomesClosed, UNCHANGED <<outcomes, positions, crossed>>
  PROVE  OutcomesClosed'
BY DEF OutcomesClosed

LEMMA PlaceTrade ==
  ASSUME Typed, TradeInv, NEW t \in Workers, NEW w \in Workflows, NEW route, NEW review,
         NEW permitted, PlacePaperOrder(t, w, route, review, permitted)
  PROVE  TradeInv'
<1>1. placed + 1 \in Orders /\ placed \in Nat /\ placed' = placed + 1
  BY TypedParts, PlaceTyped DEF StoresTyped, PlacePaperOrder
<1>2. PICK k \in AllTasks : /\ k = [op |-> "open", order |-> placed + 1, wf |-> w]
                            /\ k.op = "open" /\ k.order = placed + 1
  BY <1>1, TaskKinds
<1>3. /\ task[t] = Idle /\ task' = [task EXCEPT ![t] = k]
      /\ UNCHANGED <<positions, outcomes, seen, crossed>>
  BY <1>2 DEF PlacePaperOrder, Begins
<1>4. task'[t] = k /\ \A u \in Workers : u # t => task'[u] = task[u]
  BY <1>3, TypedParts, TaskTyped
<1>5. \A u \in Workers : task[u].op \in AtPosition =>
        task[u].order \in Nat /\ task[u].order <= placed
  <2> SUFFICES ASSUME NEW u \in Workers, task[u].op \in AtPosition
               PROVE  task[u].order \in Orders
    BY DEF TradeInv, FreshInv, Orders
  <2>1. task[u] \in AllTasks
    BY TypedParts
  <2> QED
    BY <2>1, TaskShape DEF AtPosition
<1>6. FreshInv'
  <2>1. \A o \in Orders : o > placed' => positions'[o].status = "none" /\ seen'[o] = {}
    BY <1>1, <1>3 DEF TradeInv, FreshInv, Orders
  <2>2. \A u \in Workers : task'[u].op \in AtPosition =>
          task'[u].order <= placed'
    BY <1>1, <1>2, <1>3, <1>4, <1>5
  <2>3. positions[placed + 1].status = "none" /\ seen[placed + 1] = {}
    BY <1>1 DEF TradeInv, FreshInv
  <2>4. \A u \in Workers : task'[u].op = "open" =>
          positions'[task'[u].order].status = "none" /\ seen'[task'[u].order] = {}
    <3> SUFFICES ASSUME NEW u \in Workers, task'[u].op = "open"
                 PROVE  positions[task'[u].order].status = "none" /\ seen[task'[u].order] = {}
      BY <1>3
    <3>1. CASE u = t
      BY <1>2, <1>4, <2>3, <3>1
    <3>2. CASE u # t
      BY <1>4, <3>2 DEF TradeInv, FreshInv
    <3> QED
      BY <3>1, <3>2
  <2>5. \A u, v \in Workers : /\ task'[u].op = "open" /\ task'[v].op \in AtPosition
                              /\ task'[u].order = task'[v].order
                              => u = v
    <3> SUFFICES ASSUME NEW u \in Workers, NEW v \in Workers,
                        task'[u].op = "open", task'[v].op \in AtPosition,
                        task'[u].order = task'[v].order
                 PROVE  u = v
      OBVIOUS
    <3>1. CASE u # t /\ v # t
      BY <1>4, <3>1 DEF TradeInv, FreshInv
    <3>2. CASE u = t /\ v # t
      BY <1>1, <1>2, <1>4, <1>5, <3>2 DEF AtPosition
    <3>3. CASE u # t /\ v = t
      BY <1>1, <1>2, <1>4, <1>5, <3>3 DEF AtPosition
    <3> QED
      BY <3>1, <3>2, <3>3
  <2> QED
    BY <2>1, <2>2, <2>4, <2>5 DEF FreshInv
<1>7. \A o : WritingBack(o)' = WritingBack(o)
  BY <1>2, <1>3, <1>4 DEF WritingBack, Idle
<1>8. ASSUME NEW o \in Orders \ crossed
      PROVE  /\ Exact(o)'
             /\ \A u \in WritingBack(o)' : CopyInv(u, o)'
             /\ \A u, v \in WritingBack(o)' : u = v
  <2>1. Exact(o) /\ (\A u \in WritingBack(o) : CopyInv(u, o))
        /\ \A u, v \in WritingBack(o) : u = v
    BY <1>8 DEF TradeInv
  <2>2. \A u \in WritingBack(o) : task'[u] = task[u]
    BY <1>3, <1>4 DEF WritingBack, Idle
  <2>3. \A u \in WritingBack(o)' : CopyInv(u, o)'
    BY <1>3, <1>7, <2>1, <2>2 DEF CopyInv
  <2>4. Exact(o)'
    BY <1>3, <2>1 DEF Exact, Spread
  <2> QED
    BY <1>7, <2>1, <2>3, <2>4
<1>9. OutcomesClosed'
  BY <1>3, OutcomesKept DEF TradeInv
<1> QED
  BY <1>3, <1>6, <1>8, <1>9 DEF TradeInv

LEMMA OpenTrade ==
  ASSUME Typed, TradeInv, NEW t \in Workers, OpenPosition(t)
  PROVE  TradeInv'
<1>1. PICK o \in Orders, w \in Workflows :
        task[t].op = "open" /\ task[t].order = o /\ task[t].wf = w
  <2>1. task[t] \in [op : {"open"}, order : Orders, wf : Workflows]
    BY TypedParts, TaskShape DEF OpenPosition, Finishes, GoesOn
  <2> QED
    BY <2>1
<1>2. PICK p \in Position : /\ p = [NoPosition EXCEPT !.status = "open", !.wf = w,
                                                      !.opened = now]
                            /\ p.status = "open" /\ p.mfe = 0 /\ p.mae = 0
  BY TypedParts, OpenTyped DEF StoresTyped
<1>3. /\ task' = [task EXCEPT ![t] = Idle]
      /\ positions' = [positions EXCEPT ![o] = p]
      /\ UNCHANGED <<placed, outcomes, seen, crossed>>
  BY <1>1, <1>2 DEF OpenPosition, Finishes, GoesOn
<1>4. task'[t] = Idle /\ \A u \in Workers : u # t => task'[u] = task[u]
  BY <1>3, TypedParts, TaskTyped, TaskKinds
<1>5. positions \in [Orders -> Position] /\ seen \in [Orders -> SUBSET Prices]
  BY TypedParts DEF StoresTyped
<1>6. positions[o].status = "none" /\ seen[o] = {} /\ o <= placed
  BY <1>1 DEF TradeInv, FreshInv, AtPosition
<1>7. positions'[o] = p /\ \A q \in Orders : q # o => positions'[q] = positions[q]
  BY <1>3, <1>5
<1>8. FreshInv'
  <2>1. \A q \in Orders : q > placed' => positions'[q].status = "none" /\ seen'[q] = {}
    <3> SUFFICES ASSUME NEW q \in Orders, q > placed
                 PROVE  positions'[q].status = "none" /\ seen'[q] = {}
      BY <1>3
    <3>1. q # o
      BY <1>6, TypedParts, PaperAssumption DEF StoresTyped, Orders
    <3> QED
      BY <1>3, <1>7, <3>1 DEF TradeInv, FreshInv
  <2>2. \A u \in Workers : task'[u].op \in AtPosition => u # t /\ task'[u] = task[u]
    BY <1>4 DEF Idle, AtPosition
  <2>3. \A u \in Workers : task'[u].op = "open" =>
          positions'[task'[u].order].status = "none" /\ seen'[task'[u].order] = {}
    <3> SUFFICES ASSUME NEW u \in Workers, u # t, task[u].op = "open"
                 PROVE  positions'[task[u].order].status = "none" /\ seen'[task[u].order] = {}
      BY <2>2 DEF AtPosition
    <3>1. task[u] \in AllTasks
      BY TypedParts
    <3>2. task[u].order # o /\ task[u].order \in Orders
      BY <1>1, <3>1, TaskShape DEF TradeInv, FreshInv, AtPosition
    <3> QED
      BY <1>3, <1>7, <3>2 DEF TradeInv, FreshInv
  <2>4. \A u \in Workers : task'[u].op \in AtPosition => task'[u].order <= placed'
    BY <1>3, <2>2 DEF TradeInv, FreshInv
  <2>5. \A u, v \in Workers : /\ task'[u].op = "open" /\ task'[v].op \in AtPosition
                              /\ task'[u].order = task'[v].order
                              => u = v
    BY <2>2 DEF TradeInv, FreshInv, AtPosition
  <2> QED
    BY <2>1, <2>3, <2>4, <2>5 DEF FreshInv
<1>9. \A q : WritingBack(q)' = WritingBack(q)
  BY <1>1, <1>4 DEF WritingBack, Idle
<1>10. ASSUME NEW q \in Orders \ crossed
       PROVE  /\ Exact(q)'
              /\ \A u \in WritingBack(q)' : CopyInv(u, q)'
              /\ \A u, v \in WritingBack(q)' : u = v
  <2>1. Exact(q) /\ (\A u \in WritingBack(q) : CopyInv(u, q))
        /\ \A u, v \in WritingBack(q) : u = v
    BY <1>10 DEF TradeInv
  <2>2. \A u \in WritingBack(q) : task'[u] = task[u]
    BY <1>1, <1>4 DEF WritingBack
  <2>3. CASE q = o
    <3>1. WritingBack(q) = {}
      BY <1>6, <2>1, <2>3 DEF CopyInv
    <3>2. Spread(o)' = {0}
      BY <1>3, <1>6 DEF Spread
    <3>3. Exact(o)'
      BY <1>2, <1>7, <3>2 DEF Exact
    <3> QED
      BY <1>9, <2>3, <3>1, <3>3
  <2>4. CASE q # o
    <3>1. positions'[q] = positions[q]
      BY <1>7, <2>4
    <3>2. Exact(q)'
      BY <1>3, <2>1, <3>1 DEF Exact, Spread
    <3>3. \A u \in WritingBack(q)' : CopyInv(u, q)'
      BY <1>9, <2>1, <2>2, <3>1 DEF CopyInv
    <3> QED
      BY <1>9, <2>1, <3>2, <3>3
  <2> QED
    BY <2>3, <2>4
<1>11. OutcomesClosed'
  <2> SUFFICES ASSUME NEW k \in DOMAIN outcomes
               PROVE  outcomes[k] \in crossed \/ positions'[outcomes[k]].status = "closed"
    BY <1>3 DEF OutcomesClosed
  <2>1. outcomes[k] \in Orders
    BY TypedParts, ElementOfSeq, LenProperties DEF StoresTyped
  <2>2. outcomes[k] \in crossed \/ positions[outcomes[k]].status = "closed"
    BY DEF TradeInv, OutcomesClosed
  <2> QED
    BY <1>6, <1>7, <2>1, <2>2
<1> QED
  BY <1>3, <1>8, <1>10, <1>11 DEF TradeInv

\* The record read is open; if nobody else is writing a copy of it back, the copy
\* made of it is the only one.
LEMMA ReadTrade ==
  ASSUME Typed, TradeInv, NEW t \in Workers, NEW op \in {"mark", "close"},
         NEW result \in Position, ReadPosition(t, op, result),
         result.status \in {"open", "closed"},
         result.mfe = Larger(positions[task[t].order].mfe, task[t].price - Entry),
         result.mae = Smaller(positions[task[t].order].mae, task[t].price - Entry)
  PROVE  TradeInv'
<1>1. PICK o \in Orders, price \in Prices :
        task[t].op = op /\ task[t].order = o /\ task[t].price = price
  <2>1. task[t] \in AllTasks /\ task[t].op = op
    BY TypedParts DEF ReadPosition, GoesOn
  <2> QED
    BY <2>1, TaskShape
<1>2. PICK k \in AllTasks :
        /\ k = [op |-> "put", order |-> o, price |-> price, position |-> result]
        /\ k.op = "put" /\ k.order = o /\ k.price = price /\ k.position = result
  BY TaskKinds
<1>3. /\ task' = [task EXCEPT ![t] = k]
      /\ positions[o].status = "open"
      /\ crossed' = IF WritingBack(o) # {} THEN crossed \cup {o} ELSE crossed
      /\ UNCHANGED <<placed, positions, outcomes, seen>>
  BY <1>1, <1>2 DEF ReadPosition, GoesOn, paperStores
<1>4. task'[t] = k /\ \A u \in Workers : u # t => task'[u] = task[u]
  BY <1>3, TypedParts, TaskTyped
<1>5. FreshInv'
  <2>1. \A u \in Workers : task'[u].op = "open" => u # t /\ task'[u] = task[u]
    BY <1>2, <1>4
  <2>2. o <= placed
    BY <1>1 DEF TradeInv, FreshInv, AtPosition
  <2>3. \A u \in Workers : task'[u].op \in AtPosition => task'[u].order <= placed
    BY <1>2, <1>4, <2>2 DEF TradeInv, FreshInv
  <2>4. \A q \in Orders : q > placed => positions[q].status = "none" /\ seen[q] = {}
    BY DEF TradeInv, FreshInv
  <2>5. \A u \in Workers : task[u].op = "open" =>
          positions[task[u].order].status = "none" /\ seen[task[u].order] = {}
    BY DEF TradeInv, FreshInv
  <2>6. \A u, v \in Workers : /\ task[u].op = "open" /\ task[v].op \in AtPosition
                              /\ task[u].order = task[v].order
                              => u = v
    BY DEF TradeInv, FreshInv
  <2>7. ASSUME NEW u \in Workers, NEW v \in Workers,
               task'[u].op = "open", task'[v].op \in AtPosition,
               task'[u].order = task'[v].order
        PROVE  u = v
    <3>1. u # t /\ task'[u] = task[u]
      BY <2>1, <2>7
    <3>2. CASE v = t
      BY <1>1, <1>2, <1>4, <2>6, <2>7, <3>1, <3>2 DEF AtPosition
    <3>3. CASE v # t
      BY <1>4, <2>6, <2>7, <3>1, <3>3
    <3> QED
      BY <3>2, <3>3
  <2> QED
    BY <1>3, <2>1, <2>3, <2>4, <2>5, <2>7 DEF FreshInv
<1>6. ASSUME NEW q \in Orders \ crossed'
      PROVE  /\ Exact(q)'
             /\ \A u \in WritingBack(q)' : CopyInv(u, q)'
             /\ \A u, v \in WritingBack(q)' : u = v
  <2>1. Exact(q) /\ (\A u \in WritingBack(q) : CopyInv(u, q))
        /\ \A u, v \in WritingBack(q) : u = v
    BY <1>3, <1>6 DEF TradeInv
  <2>2. Exact(q)'
    BY <1>3, <2>1 DEF Exact, Spread
  <2>3. CASE q = o
    <3>1. WritingBack(o) = {}
      BY <1>3, <1>6, <2>3
    <3>2. WritingBack(o)' = {t}
      BY <1>2, <1>4, <3>1 DEF WritingBack
    <3>3. CopyInv(t, o)'
      BY <1>1, <1>2, <1>3, <1>4 DEF CopyInv
    <3> QED
      BY <2>2, <2>3, <3>2, <3>3
  <2>4. CASE q # o
    <3>1. WritingBack(q)' = WritingBack(q) /\ t \notin WritingBack(q)
      BY <1>1, <1>2, <1>4, <2>4 DEF WritingBack
    <3>2. \A u \in WritingBack(q) : task'[u] = task[u]
      BY <1>4, <3>1 DEF WritingBack
    <3>3. \A u \in WritingBack(q)' : CopyInv(u, q)'
      BY <1>3, <2>1, <3>1, <3>2 DEF CopyInv
    <3> QED
      BY <2>1, <2>2, <3>1, <3>3
  <2> QED
    BY <2>3, <2>4
<1>7. OutcomesClosed'
  BY <1>3 DEF TradeInv, OutcomesClosed
<1> QED
  BY <1>5, <1>6, <1>7 DEF TradeInv

LEMMA AgentReadTrade ==
  ASSUME Typed, TradeInv, NEW t \in Workers, MarkRead(t) \/ CloseRead(t)
  PROVE  TradeInv'
<1>1. task[t].order \in Orders /\ task[t].price \in Prices
  <2>1. task[t] \in AllTasks /\ task[t].op \in {"mark", "close"}
    BY TypedParts DEF MarkRead, CloseRead
  <2> QED
    BY <2>1, TaskShape
<1>2. positions[task[t].order] \in Position /\ now \in 1 .. MaxSecond
  BY <1>1, TypedParts DEF StoresTyped
<1>3. CASE MarkRead(t)
  <2>1. PICK result \in Position :
          /\ result = Marked(positions[task[t].order], task[t].price)
          /\ result.status = positions[task[t].order].status
          /\ result.mfe = Larger(positions[task[t].order].mfe, task[t].price - Entry)
          /\ result.mae = Smaller(positions[task[t].order].mae, task[t].price - Entry)
    BY <1>1, <1>2, MarkTyped
  <2>2. ReadPosition(t, "mark", result) /\ result.status = "open"
    BY <1>3, <2>1 DEF MarkRead, ReadPosition
  <2> QED
    BY <2>1, <2>2, ReadTrade
<1>4. CASE CloseRead(t)
  <2> DEFINE result == [Marked(positions[task[t].order], task[t].price)
                          EXCEPT !.status = "closed", !.closed = now]
  <2>1. /\ result \in Position /\ result.status = "closed"
        /\ result.mfe = Larger(positions[task[t].order].mfe, task[t].price - Entry)
        /\ result.mae = Smaller(positions[task[t].order].mae, task[t].price - Entry)
    <3>1. PICK p \in Position, price \in Prices, second \in 1 .. MaxSecond :
            p = positions[task[t].order] /\ price = task[t].price /\ second = now
      BY <1>1, <1>2
    <3>2. LET r == [Marked(p, price) EXCEPT !.status = "closed", !.closed = second] IN
          /\ r \in Position /\ r.status = "closed"
          /\ r.mfe = Larger(p.mfe, price - Entry) /\ r.mae = Smaller(p.mae, price - Entry)
      BY CloseTyped
    <3> QED
      BY <3>1, <3>2
  <2>2. ReadPosition(t, "close", result)
    BY <1>4 DEF CloseRead
  <2> HIDE DEF result
  <2> QED
    BY <2>1, <2>2, ReadTrade
<1> QED
  BY <1>3, <1>4

\* The copy replaces the record it was made from, with one price more.
LEMMA PutTrade ==
  ASSUME Typed, TradeInv, NEW t \in Workers, PutPosition(t)
  PROVE  TradeInv'
<1>1. PICK o \in Orders, price \in Prices, p \in Position :
        /\ task[t].op = "put" /\ task[t].order = o /\ task[t].price = price
        /\ task[t].position = p
  <2>1. task[t] \in [op : {"put"}, order : Orders, price : Prices, position : Position]
    BY TypedParts, TaskShape DEF PutPosition, Finishes, GoesOn
  <2> QED
    BY <2>1
<1>2. /\ task' = [task EXCEPT ![t] = Idle]
      /\ positions' = [positions EXCEPT ![o] = p]
      /\ seen' = [seen EXCEPT ![o] = seen[o] \cup {price}]
      /\ UNCHANGED <<placed, outcomes, crossed>>
  BY <1>1 DEF PutPosition, Finishes, GoesOn
<1>3. task'[t] = Idle /\ \A u \in Workers : u # t => task'[u] = task[u]
  BY <1>2, TypedParts, TaskTyped, TaskKinds
<1>4. positions \in [Orders -> Position] /\ seen \in [Orders -> SUBSET Prices]
  BY TypedParts DEF StoresTyped
<1>5. /\ positions'[o] = p /\ seen'[o] = seen[o] \cup {price}
      /\ \A q \in Orders : q # o => positions'[q] = positions[q] /\ seen'[q] = seen[q]
  BY <1>2, <1>4
<1>6. o <= placed /\ \A u \in Workers : task[u].op = "open" => task[u].order # o
  BY <1>1 DEF TradeInv, FreshInv, AtPosition
<1>7. o \notin crossed => CopyInv(t, o) /\ \A u \in WritingBack(o) : u = t
  BY <1>1 DEF TradeInv, WritingBack
<1>8. FreshInv'
  <2>1. \A q \in Orders : q > placed' => positions'[q].status = "none" /\ seen'[q] = {}
    <3> SUFFICES ASSUME NEW q \in Orders, q > placed
                 PROVE  positions'[q].status = "none" /\ seen'[q] = {}
      BY <1>2
    <3>1. q # o
      BY <1>6, TypedParts, PaperAssumption DEF StoresTyped, Orders
    <3> QED
      BY <1>5, <3>1 DEF TradeInv, FreshInv
  <2>2. \A u \in Workers : task'[u].op \in AtPosition => u # t /\ task'[u] = task[u]
    BY <1>3 DEF Idle, AtPosition
  <2>3. \A u \in Workers : task'[u].op = "open" =>
          positions'[task'[u].order].status = "none" /\ seen'[task'[u].order] = {}
    <3> SUFFICES ASSUME NEW u \in Workers, u # t, task[u].op = "open"
                 PROVE  positions'[task[u].order].status = "none" /\ seen'[task[u].order] = {}
      BY <2>2 DEF AtPosition
    <3>1. task[u] \in AllTasks
      BY TypedParts
    <3>2. task[u].order # o /\ task[u].order \in Orders
      BY <1>6, <3>1, TaskShape
    <3> QED
      BY <1>5, <3>2 DEF TradeInv, FreshInv
  <2>4. \A u \in Workers : task'[u].op \in AtPosition => task'[u].order <= placed'
    BY <1>2, <2>2 DEF TradeInv, FreshInv
  <2>5. \A u, v \in Workers : /\ task'[u].op = "open" /\ task'[v].op \in AtPosition
                              /\ task'[u].order = task'[v].order
                              => u = v
    BY <2>2 DEF TradeInv, FreshInv, AtPosition
  <2> QED
    BY <2>1, <2>3, <2>4, <2>5 DEF FreshInv
<1>9. ASSUME NEW q \in Orders \ crossed
      PROVE  /\ Exact(q)'
             /\ \A u \in WritingBack(q)' : CopyInv(u, q)'
             /\ \A u, v \in WritingBack(q)' : u = v
  <2>1. Exact(q) /\ (\A u \in WritingBack(q) : CopyInv(u, q))
        /\ \A u, v \in WritingBack(q) : u = v
    BY <1>9 DEF TradeInv
  <2>2. CASE q = o
    <3>1. WritingBack(q)' = {}
      BY <1>3, <1>7, <1>9, <2>2 DEF WritingBack, Idle
    <3>2. /\ positions[o].status = "open"
          /\ p.mfe = Larger(positions[o].mfe, price - Entry)
          /\ p.mae = Smaller(positions[o].mae, price - Entry)
      BY <1>1, <1>7, <1>9, <2>2 DEF CopyInv
    <3>3. Spread(o)' = Spread(o) \cup {price - Entry}
      BY <1>5 DEF Spread
    <3>4. /\ positions[o].mfe \in Spread(o) /\ positions[o].mae \in Spread(o)
          /\ \A x \in Spread(o) : x <= positions[o].mfe
          /\ \A x \in Spread(o) : positions[o].mae <= x
      <4>1. Spread(o) \in SUBSET Int
        BY <1>4, SpreadInt
      <4> QED
        BY <2>1, <2>2, <3>2, <4>1 DEF Exact
    <3>5. Spread(o) \in SUBSET Int /\ price - Entry \in Int
      BY <1>4, SpreadInt, PaperAssumption
    <3>6. Exact(o)'
      <4> DEFINE S == Spread(o)
      <4>1. LET T == S \cup {price - Entry} IN
              /\ p.mfe \in T /\ \A y \in T : y <= p.mfe
              /\ p.mae \in T /\ \A y \in T : y >= p.mae
        BY <3>2, <3>4, <3>5, ExactAfter
      <4> QED
        BY <1>5, <3>3, <4>1 DEF Exact
    <3> QED
      BY <2>2, <3>1, <3>6
  <2>3. CASE q # o
    <3>1. positions'[q] = positions[q] /\ seen'[q] = seen[q]
      BY <1>5, <2>3
    <3>2. WritingBack(q)' = WritingBack(q) /\ t \notin WritingBack(q)
      BY <1>1, <1>3, <2>3 DEF WritingBack, Idle
    <3>3. \A u \in WritingBack(q) : task'[u] = task[u]
      BY <1>3, <3>2 DEF WritingBack
    <3>4. \A u \in WritingBack(q)' : CopyInv(u, q)'
      BY <2>1, <3>1, <3>2, <3>3 DEF CopyInv
    <3>5. Exact(q)'
      BY <2>1, <3>1 DEF Exact, Spread
    <3> QED
      BY <2>1, <3>2, <3>4, <3>5
  <2> QED
    BY <2>2, <2>3
<1>10. OutcomesClosed'
  <2> SUFFICES ASSUME NEW k \in DOMAIN outcomes
               PROVE  outcomes[k] \in crossed \/ positions'[outcomes[k]].status = "closed"
    BY <1>2 DEF OutcomesClosed
  <2>1. outcomes[k] \in Orders
    BY TypedParts, ElementOfSeq, LenProperties DEF StoresTyped
  <2>2. outcomes[k] \in crossed \/ positions[outcomes[k]].status = "closed"
    BY DEF TradeInv, OutcomesClosed
  <2>3. o \in crossed \/ positions[o].status = "open"
    BY <1>7 DEF CopyInv
  <2> QED
    BY <1>5, <2>1, <2>2, <2>3
<1> QED
  BY <1>2, <1>8, <1>9, <1>10 DEF TradeInv

\* What is learned from is closed at the time, and a trim only drops records.
LEMMA EvaluateTrade ==
  ASSUME Typed, TradeInv, NEW t \in Workers, NEW w \in Workflows, Evaluate(t, w)
  PROVE  TradeInv'
<1> DEFINE next(o) == IF Len(Append(outcomes, o)) > MaxHistory
                      THEN [op |-> "trim", excess |-> Len(Append(outcomes, o)) - MaxHistory]
                      ELSE Idle
<1>1. PICK o \in Picks(w, "closed") :
        /\ outcomes' = Append(outcomes, o) /\ Begins(t, next(o))
        /\ UNCHANGED <<placed, positions, seen, crossed>>
  BY DEF Evaluate
<1>2. /\ o \in Orders /\ positions[o].status = "closed"
      /\ outcomes' \in Seq(Orders) /\ Len(outcomes') = Len(outcomes) + 1
      /\ \A k \in 1 .. Len(outcomes) : outcomes'[k] = outcomes[k]
      /\ outcomes'[Len(outcomes) + 1] = o
      /\ next(o) \in AllTasks /\ (next(o).op = "trim" \/ next(o) = Idle)
  BY <1>1, EvaluateEffect
<1> HIDE DEF next
<1>3. OutcomesClosed'
  <2>1. Len(outcomes) \in Nat /\ DOMAIN outcomes = 1 .. Len(outcomes)
        /\ DOMAIN outcomes' = 1 .. Len(outcomes')
    BY <1>2, TypedParts, LenProperties DEF StoresTyped
  <2> SUFFICES ASSUME NEW k \in 1 .. Len(outcomes) + 1
               PROVE  \/ outcomes'[k] \in crossed
                      \/ positions[outcomes'[k]].status = "closed"
    BY <1>1, <1>2, <2>1 DEF OutcomesClosed
  <2>2. CASE k = Len(outcomes) + 1
    BY <1>2, <2>2
  <2>3. CASE k \in 1 .. Len(outcomes)
    BY <1>2, <2>1, <2>3 DEF TradeInv, OutcomesClosed
  <2> QED
    BY <2>1, <2>2, <2>3
<1>4. next(o).op \notin {"open", "put", "mark", "close"} /\ task[t].op # "put"
  BY <1>1, <1>2 DEF Begins, Idle
<1> QED
  BY <1>1, <1>2, <1>3, <1>4, RecordsKeepTrade DEF Begins

LEMMA TrimTrade ==
  ASSUME Typed, TradeInv, NEW t \in Workers, TrimOutcomes(t)
  PROVE  TradeInv'
<1>1. /\ task' = [task EXCEPT ![t] = Idle] /\ task[t].op = "trim"
      /\ UNCHANGED <<placed, positions, seen, crossed>>
  BY DEF TrimOutcomes, Finishes, GoesOn
<1>2. OutcomesClosed'
  <2> DEFINE cut == Smaller(task[t].excess, Len(outcomes))
  <2>1. /\ outcomes' \in Seq(Orders)
        /\ \A k \in 1 .. Len(outcomes') :
             k + cut \in 1 .. Len(outcomes) /\ outcomes'[k] = outcomes[k + cut]
    BY TrimEffect
  <2> HIDE DEF cut
  <2>2. DOMAIN outcomes = 1 .. Len(outcomes) /\ DOMAIN outcomes' = 1 .. Len(outcomes')
    BY <2>1, TypedParts, LenProperties DEF StoresTyped
  <2>3. \A k \in DOMAIN outcomes :
          outcomes[k] \in crossed \/ positions[outcomes[k]].status = "closed"
    BY DEF TradeInv, OutcomesClosed
  <2> QED
    BY <1>1, <2>1, <2>2, <2>3 DEF OutcomesClosed
<1>3. Idle.op \notin {"open", "put", "mark", "close"}
  BY DEF Idle
<1> QED
  BY <1>1, <1>2, <1>3, RecordsKeepTrade, TaskKinds

LEMMA TakeTrade ==
  ASSUME Typed, TradeInv, NEW t \in Workers, NEW w \in Workflows, NEW price \in Prices,
         NEW op \in {"mark", "close"}, TakePosition(t, w, price, op)
  PROVE  TradeInv'
<1>1. PICK o \in Picks(w, "open") : Begins(t, [op |-> op, order |-> o, price |-> price])
  BY DEF TakePosition
<1>2. o \in Orders /\ positions[o].status = "open"
  BY <1>1, TypedParts, PicksHaveStatus DEF StoresTyped
<1>3. PICK k \in AllTasks : /\ k = [op |-> op, order |-> o, price |-> price]
                            /\ k.op = op /\ k.order = o
  BY <1>2, TaskKinds
<1>4. task[t] = Idle /\ task' = [task EXCEPT ![t] = k]
      /\ UNCHANGED <<placed, positions, outcomes, seen, crossed>>
  BY <1>1, <1>3 DEF TakePosition, Begins, paperStores
<1>5. OutcomesClosed'
  BY <1>4, OutcomesKept DEF TradeInv
<1>6. k.op \notin {"open", "put"} /\ task[t].op # "put"
  BY <1>3, <1>4 DEF Idle
<1> QED
  BY <1>2, <1>3, <1>4, <1>5, <1>6, RecordsKeepTrade

LEMMA GoneTrade ==
  ASSUME Typed, TradeInv, NEW t \in Workers, PositionGone(t)
  PROVE  TradeInv'
<1>1. /\ task' = [task EXCEPT ![t] = Idle] /\ task[t].op # "put"
      /\ UNCHANGED <<placed, positions, outcomes, seen, crossed>>
  BY DEF PositionGone, Finishes, GoesOn, paperVars, paperStores
<1>2. OutcomesClosed'
  BY <1>1, OutcomesKept DEF TradeInv
<1>3. Idle.op \notin {"open", "put", "mark", "close"}
  BY DEF Idle
<1> QED
  BY <1>1, <1>2, <1>3, RecordsKeepTrade, TaskKinds

\* A step of the queue changes the task of one worker, to one of the queue.
LEMMA QueueTaskOnly ==
  ASSUME Typed, NEW t \in Workers,
         QueueCall(t) \/ QueueStep(t) \/ (\E i \in Items : CreateItem(t, i))
  PROVE  \E k \in AllTasks : /\ task' = [task EXCEPT ![t] = k]
                            /\ k.op \in {"idle"} \cup QueueAgent
                            /\ task[t].op \in {"idle"} \cup QueueAgent
<1> SUFFICES \E k : /\ task' = [task EXCEPT ![t] = k]
                    /\ k.op \in {"idle"} \cup QueueAgent
                    /\ task[t].op \in {"idle"} \cup QueueAgent
  <2>1. task' \in [Workers -> AllTasks] /\ task \in [Workers -> AllTasks]
    <3>1. CASE \E i \in Items : CreateItem(t, i)
      <4>1. PICK i \in Items : task' = [task EXCEPT ![t] = [op |-> "insert", item |-> i]]
        BY <3>1 DEF CreateItem, TakesUp
      <4> QED
        BY <4>1, TypedParts, TaskTyped, TaskKinds
    <3> QED
      BY <3>1, QueueCallTyped, QueueStepTyped, TypedParts
  <2> QED
    BY <2>1
<1> USE DEF QueueAgent
<1>1. CASE \E i \in Items : CreateItem(t, i)
  <2>1. PICK i, k : /\ i \in Items /\ k = [op |-> "insert", item |-> i]
                    /\ task' = [task EXCEPT ![t] = k] /\ task[t] = Idle
    BY <1>1 DEF CreateItem, TakesUp
  <2>2. task[t].op = "idle" /\ k.op = "insert"
    BY <2>1 DEF Idle
  <2> QED
    BY <2>1, <2>2
<1>2. CASE \E filter \in {ItemStatus, {"pending"}} : ListItems(t, filter)
  <2>1. PICK rows, k : /\ task' = [task EXCEPT ![t] = k] /\ task[t] = Idle
                       /\ k = [op |-> "overwrite", rows |-> rows]
    BY <1>2 DEF ListItems, TakesUp
  <2>2. task[t].op = "idle" /\ k.op = "overwrite"
    BY <2>1 DEF Idle
  <2> QED
    BY <2>1, <2>2
<1>3. CASE \E i \in Items, status \in Decisions :
             DecideItem(t, i, status) \/ DecideListed(t, i, status)
  <2>1. PICK i, status, k :
          /\ i \in Items /\ status \in Decisions
          /\ task' = [task EXCEPT ![t] = k] /\ task[t] = Idle
          /\ k = [op |-> "decide", item |-> i, status |-> status]
    BY ZenonT(60), <1>3 DEF DecideItem, DecideListed, TakesUp
  <2>2. task[t].op = "idle" /\ k.op = "decide"
    BY <2>1 DEF Idle
  <2> QED
    BY <2>1, <2>2
<1>4. CASE InsertItem(t)
  <2>1. PICK k : /\ task' = [task EXCEPT ![t] = k] /\ task[t].op = "insert"
                 /\ k = [op |-> "remember", item |-> task[t].item]
    BY <1>4 DEF InsertItem, GoesOn
  <2> QED
    BY <2>1
<1>5. CASE RememberItem(t) \/ OverwriteItems(t) \/ SaveDecision(t)
  <2>1. /\ task' = [task EXCEPT ![t] = Idle]
        /\ task[t].op \in {"remember", "overwrite", "save"}
    BY <1>5 DEF RememberItem, OverwriteItems, SaveDecision, Finishes, GoesOn
  <2>2. Idle.op = "idle"
    BY DEF Idle
  <2> QED
    BY <2>1, <2>2
<1>6. CASE RememberDecision(t)
  <2>1. /\ task[t] \in [op : {"decide"}, item : Items, status : Decisions]
        /\ task[t].op = "decide"
    BY <1>6, TypedParts, TaskShape DEF RememberDecision, GoesOn
  <2>2. PICK k : task' = [task EXCEPT ![t] = k] /\ k = [task[t] EXCEPT !.op = "save"]
    BY <1>6 DEF RememberDecision, GoesOn
  <2> QED
    BY <2>1, <2>2
<1> QED
  BY <1>1, <1>2, <1>3, <1>4, <1>5, <1>6 DEF QueueCall, QueueStep

\* A step of the queue, whose tasks are of no concern to the account.
LEMMA QueueTrade ==
  ASSUME Typed, TradeInv, NEW t \in Workers,
         QueueCall(t) \/ QueueStep(t) \/ (\E i \in Items : CreateItem(t, i)),
         UNCHANGED <<now, placed, paperStores, seen, crossed>>
  PROVE  TradeInv'
<1>1. PICK k \in AllTasks : /\ task' = [task EXCEPT ![t] = k]
                            /\ k.op \in {"idle"} \cup QueueAgent
                            /\ task[t].op \in {"idle"} \cup QueueAgent
  BY QueueTaskOnly
<1>2. OutcomesClosed'
  BY OutcomesKept DEF TradeInv, paperStores
<1>3. k.op \notin {"open", "put", "mark", "close"} /\ task[t].op # "put"
  BY <1>1 DEF QueueAgent
<1> QED
  BY <1>1, <1>2, <1>3, RecordsKeepTrade DEF paperStores

LEMMA RestartTrade ==
  ASSUME Typed, TradeInv, RestartPaper
  PROVE  TradeInv'
<1>1. /\ \A u \in Workers : task'[u] = Idle
      /\ \A o \in Orders : positions'[o] = NoPosition
      /\ outcomes' = <<>>
      /\ UNCHANGED <<placed, seen, crossed>>
  BY DEF RestartPaper
<1>2. NoPosition.status = "none"
  BY DEF NoPosition
<1>3. FreshInv'
  BY <1>1, <1>2 DEF TradeInv, FreshInv, Idle, AtPosition
<1>4. \A o \in Orders : Exact(o)' /\ WritingBack(o)' = {}
  BY <1>1, <1>2 DEF Exact, WritingBack, Idle
<1>5. OutcomesClosed'
  BY <1>1 DEF OutcomesClosed
<1> QED
  BY <1>3, <1>4, <1>5 DEF TradeInv

LEMMA SameTrade ==
  ASSUME TradeInv, UNCHANGED <<task, placed, positions, outcomes, seen, crossed>>
  PROVE  TradeInv'
<1>1. FreshInv'
  BY DEF TradeInv, FreshInv
<1>2. ASSUME NEW o \in Orders \ crossed
      PROVE  /\ Exact(o)'
             /\ \A t \in WritingBack(o)' : CopyInv(t, o)'
             /\ \A t, u \in WritingBack(o)' : t = u
  BY <1>2 DEF TradeInv, Exact, Spread, WritingBack, CopyInv
<1>3. OutcomesClosed'
  BY OutcomesKept DEF TradeInv
<1> QED
  BY <1>1, <1>2, <1>3 DEF TradeInv

LEMMA StepTrade == Typed /\ TradeInv /\ [PaperNext]_vars => TradeInv'
<1> SUFFICES ASSUME Typed, TradeInv, [PaperNext]_vars PROVE TradeInv'
  OBVIOUS
<1>1. ASSUME NEW t \in Workers, AgentCall(t) PROVE TradeInv'
  BY <1>1, PlaceTrade, QueueTrade, TakeTrade, EvaluateTrade DEF AgentCall, AskForReview
<1>2. ASSUME NEW t \in Workers, AgentStep(t) PROVE TradeInv'
  BY <1>2, OpenTrade, AgentReadTrade, GoneTrade, PutTrade, TrimTrade DEF AgentStep
<1>3. ASSUME NEW t \in Workers, QueueCalls(t) \/ QueueSteps(t) PROVE TradeInv'
  BY <1>3, QueueTrade DEF QueueCalls, QueueSteps, paperVars
<1>4. CASE NextSecond \/ UNCHANGED vars
  BY <1>4, SameTrade DEF NextSecond, vars, paperVars, paperStores
<1> QED
  BY <1>1, <1>2, <1>3, <1>4, RestartTrade DEF PaperNext

LEMMA AlwaysTrade == PaperSpec => []TradeInv
BY AlwaysTyped, InitTrade, StepTrade, PTL DEF PaperSpec

\* The record of a position never loses a price, unless two agents wrote copies of
\* it back at the same time.
THEOREM NoPriceLost == PaperSpec => []ExcursionsExact
<1>1. TradeInv => ExcursionsExact
  BY DEF TradeInv, Exact, ExcursionsExact
<1> QED
  BY <1>1, AlwaysTrade, PTL

\* What the learning loop learns from is the outcome of a trade that is over.
THEOREM LearnsFromClosed == PaperSpec => []OutcomesClosed
<1>1. TradeInv => OutcomesClosed
  BY DEF TradeInv
<1> QED
  BY <1>1, AlwaysTrade, PTL

\* The exit of a position is final: no later mark or review touches its record,
\* unless it wrote back a copy read before the close.
THEOREM ClosesFinal == PaperSpec => ClosedStaysClosed
<1> DEFINE Final == \A o \in Orders \ crossed :
                      positions[o].status = "closed" => positions'[o] \in {positions[o], NoPosition}
<1>1. Typed /\ TradeInv /\ [PaperNext]_vars => Final
  <2> SUFFICES ASSUME Typed, TradeInv, [PaperNext]_vars, NEW o \in Orders \ crossed,
                      positions[o].status = "closed"
               PROVE  positions'[o] \in {positions[o], NoPosition}
    OBVIOUS
  <2>1. positions \in [Orders -> Position]
    BY TypedParts DEF StoresTyped
  <2>2. ASSUME NEW t \in Workers, OpenPosition(t) PROVE positions'[o] = positions[o]
    <3>1. task[t].op = "open" /\ task[t].order # o
      BY <2>2 DEF OpenPosition, Finishes, GoesOn, TradeInv, FreshInv
    <3> QED
      BY <2>1, <2>2, <3>1 DEF OpenPosition
  <2>3. ASSUME NEW t \in Workers, PutPosition(t) PROVE positions'[o] = positions[o]
    <3>1. task[t].op = "put"
      BY <2>3 DEF PutPosition, Finishes, GoesOn
    <3>2. task[t].order # o
      BY <3>1 DEF TradeInv, WritingBack, CopyInv
    <3> QED
      BY <2>1, <2>3, <3>2 DEF PutPosition
  <2>4. CASE RestartPaper
    BY <2>4 DEF RestartPaper
  <2>5. CASE UNCHANGED positions
    BY <2>5
  <2>6. ASSUME NEW t \in Workers, AgentCall(t) PROVE UNCHANGED positions
    BY <2>6 DEF AgentCall, PlacePaperOrder, AskForReview, TakePosition, Evaluate, paperStores
  <2>7. ASSUME NEW t \in Workers,
               MarkRead(t) \/ CloseRead(t) \/ PositionGone(t) \/ TrimOutcomes(t)
        PROVE  UNCHANGED positions
    BY <2>7 DEF MarkRead, CloseRead, ReadPosition, PositionGone, TrimOutcomes, paperVars,
                paperStores
  <2>8. ASSUME NEW t \in Workers, QueueCalls(t) \/ QueueSteps(t) PROVE UNCHANGED positions
    BY <2>8 DEF QueueCalls, QueueSteps, paperVars, paperStores
  <2>9. CASE NextSecond \/ UNCHANGED vars
    BY <2>9 DEF NextSecond, vars, paperVars, paperStores
  <2> QED
    BY <2>2, <2>3, <2>4, <2>5, <2>6, <2>7, <2>8, <2>9 DEF PaperNext, AgentStep
<1>2. Typed /\ TradeInv /\ [PaperNext]_vars => [Final]_vars
  BY <1>1
<1> QED
  BY <1>2, AlwaysTyped, AlwaysTrade, PTL DEF PaperSpec, ClosedStaysClosed

----------------------------------------------------------------------------
(* The history of outcomes *)

\* Of the trims that are due, one more or one less.
LEMMA TrimBegins ==
  ASSUME NEW t \in Workers, t \notin Trimming, IsFiniteSet(Trimming),
         Trimming' = Trimming \cup {t}
  PROVE  IsFiniteSet(Trimming') /\ Cardinality(Trimming') = Cardinality(Trimming) + 1
BY FS_AddElement

LEMMA TrimEnds ==
  ASSUME NEW t \in Trimming, IsFiniteSet(Trimming), Trimming' = Trimming \ {t}
  PROVE  IsFiniteSet(Trimming') /\ Cardinality(Trimming') = Cardinality(Trimming) - 1
BY FS_RemoveElement

LEMMA SameTrims ==
  ASSUME NEW t \in Workers, NEW k, task' = [task EXCEPT ![t] = k],
         task \in [Workers -> AllTasks], task[t].op # "trim", k.op # "trim"
  PROVE  Trimming' = Trimming
BY DEF Trimming

LEMMA HistoryKept ==
  ASSUME HistoryInv, Trimming' = Trimming, UNCHANGED outcomes
  PROVE  HistoryInv'
BY DEF HistoryInv, HistoryBounded, Trimming

LEMMA InitHistory == PaperInit => HistoryInv
<1> SUFFICES ASSUME PaperInit PROVE HistoryInv
  OBVIOUS
<1>1. Trimming = {}
  BY DEF PaperInit, Trimming, Idle
<1>2. IsFiniteSet(Trimming) /\ Cardinality(Trimming) = 0
  BY <1>1, FS_EmptySet
<1>3. Len(outcomes) = 0
  BY DEF PaperInit
<1> QED
  BY <1>2, <1>3, PaperAssumption DEF HistoryInv, HistoryBounded, Trimming

LEMMA EvaluateHistory ==
  ASSUME Typed, HistoryInv, NEW t \in Workers, NEW w \in Workflows, Evaluate(t, w)
  PROVE  HistoryInv'
<1> DEFINE next(o) == IF Len(Append(outcomes, o)) > MaxHistory
                      THEN [op |-> "trim", excess |-> Len(Append(outcomes, o)) - MaxHistory]
                      ELSE Idle
<1>1. PICK o \in Picks(w, "closed") : outcomes' = Append(outcomes, o) /\ Begins(t, next(o))
  BY DEF Evaluate
<1>2. /\ Len(outcomes') = Len(outcomes) + 1
      /\ next(o).op = "trim" \/ (next(o) = Idle /\ Len(outcomes) + 1 <= MaxHistory)
  BY <1>1, EvaluateEffect
<1> HIDE DEF next
<1>3. task[t] = Idle /\ task' = [task EXCEPT ![t] = next(o)] /\ t \notin Trimming
  BY <1>1 DEF Begins, Trimming, Idle
<1>4. /\ IsFiniteSet(Trimming) /\ Len(outcomes) <= MaxHistory + Cardinality(Trimming)
      /\ Cardinality(Trimming) \in Nat /\ Len(outcomes) \in Nat /\ MaxHistory \in Nat
  BY TypedParts, LenProperties, FS_CardinalityType, PaperAssumption
  DEF HistoryInv, HistoryBounded, Trimming, StoresTyped
<1>5. CASE next(o).op = "trim"
  <2>1. Trimming' = Trimming \cup {t}
    BY <1>3, <1>5, TypedParts DEF Trimming
  <2>2. IsFiniteSet(Trimming') /\ Cardinality(Trimming') = Cardinality(Trimming) + 1
    BY <1>3, <1>4, <2>1, TrimBegins
  <2>3. Len(outcomes') <= MaxHistory + Cardinality(Trimming')
    BY <1>2, <1>4, <2>2
  <2> QED
    BY <2>2, <2>3 DEF HistoryInv, HistoryBounded, Trimming
<1>6. CASE next(o) = Idle /\ Len(outcomes) + 1 <= MaxHistory
  <2>1. Trimming' = Trimming
    <3>1. Idle.op # "trim" /\ task[t].op # "trim"
      BY <1>3 DEF Idle
    <3> QED
      BY <1>3, <1>6, <3>1, TypedParts, SameTrims
  <2>2. Len(outcomes') <= MaxHistory + Cardinality(Trimming')
    BY <1>2, <1>4, <1>6, <2>1
  <2>3. IsFiniteSet(Trimming')
    BY <1>4, <2>1
  <2> QED
    BY <2>2, <2>3 DEF HistoryInv, HistoryBounded, Trimming
<1> QED
  BY <1>2, <1>5, <1>6

LEMMA TrimHistory ==
  ASSUME Typed, HistoryInv, NEW t \in Workers, TrimOutcomes(t)
  PROVE  HistoryInv'
<1> DEFINE cut == Smaller(task[t].excess, Len(outcomes))
<1>1. /\ cut \in Nat /\ cut <= Len(outcomes) /\ (Len(outcomes) > 0 => cut >= 1)
      /\ Len(outcomes') = Len(outcomes) - cut
  BY TrimEffect
<1> HIDE DEF cut
<1>2. task' = [task EXCEPT ![t] = Idle] /\ t \in Trimming
  BY DEF TrimOutcomes, Finishes, GoesOn, Trimming
<1>3. /\ IsFiniteSet(Trimming) /\ Len(outcomes) <= MaxHistory + Cardinality(Trimming)
      /\ Cardinality(Trimming) \in Nat /\ Len(outcomes) \in Nat /\ MaxHistory \in Nat
  BY TypedParts, LenProperties, FS_CardinalityType, PaperAssumption
  DEF HistoryInv, HistoryBounded, Trimming, StoresTyped
<1>4. Trimming' = Trimming \ {t}
  BY <1>2, TypedParts DEF Trimming, Idle
<1>5. IsFiniteSet(Trimming') /\ Cardinality(Trimming') = Cardinality(Trimming) - 1
  BY <1>2, <1>3, <1>4, TrimEnds
<1>6. Cardinality(Trimming') \in Nat
  BY <1>5, FS_CardinalityType
<1>7. Len(outcomes') <= MaxHistory + Cardinality(Trimming')
  BY <1>1, <1>3, <1>5, <1>6
<1> QED
  BY <1>5, <1>7 DEF HistoryInv, HistoryBounded, Trimming

LEMMA AgentHistory ==
  ASSUME Typed, HistoryInv, NEW t \in Workers,
         OpenPosition(t) \/ MarkRead(t) \/ CloseRead(t) \/ PositionGone(t) \/ PutPosition(t)
  PROVE  HistoryInv'
<1>1. PICK k : task' = [task EXCEPT ![t] = k] /\ k.op # "trim" /\ task[t].op # "trim"
  <2>1. CASE OpenPosition(t) \/ PositionGone(t) \/ PutPosition(t)
    <3>1. task' = [task EXCEPT ![t] = Idle] /\ task[t].op # "trim"
      BY <2>1 DEF OpenPosition, PositionGone, PutPosition, Finishes, GoesOn
    <3>2. Idle.op # "trim"
      BY DEF Idle
    <3> QED
      BY <3>1, <3>2
  <2>2. CASE MarkRead(t) \/ CloseRead(t)
    <3>1. PICK result, k :
            /\ task' = [task EXCEPT ![t] = k]
            /\ k = [op |-> "put", order |-> task[t].order, price |-> task[t].price,
                    position |-> result]
            /\ task[t].op \in {"mark", "close"}
      BY <2>2 DEF MarkRead, CloseRead, ReadPosition, GoesOn
    <3>2. k.op = "put"
      BY <3>1
    <3> QED
      BY <3>1, <3>2
  <2> QED
    BY <2>1, <2>2
<1>2. Trimming' = Trimming
  BY <1>1, TypedParts, SameTrims
<1>3. UNCHANGED outcomes
  BY DEF OpenPosition, MarkRead, CloseRead, ReadPosition, PositionGone, PutPosition,
         paperVars, paperStores
<1> QED
  BY <1>2, <1>3, HistoryKept

LEMMA CallHistory ==
  ASSUME Typed, HistoryInv, NEW t \in Workers, AgentCall(t)
  PROVE  HistoryInv'
<1>0. ASSUME NEW k, task[t] = Idle, task' = [task EXCEPT ![t] = k], k.op # "trim",
             UNCHANGED outcomes
      PROVE  HistoryInv'
  <2>1. task[t].op # "trim"
    BY <1>0 DEF Idle
  <2>2. Trimming' = Trimming
    BY <1>0, <2>1, TypedParts, SameTrims
  <2> QED
    BY <1>0, <2>2, HistoryKept
<1>1. ASSUME NEW w \in Workflows, NEW route, NEW review, NEW permitted,
             PlacePaperOrder(t, w, route, review, permitted)
      PROVE  HistoryInv'
  <2>1. PICK k : /\ task[t] = Idle /\ task' = [task EXCEPT ![t] = k] /\ UNCHANGED outcomes
                 /\ k = [op |-> "open", order |-> placed + 1, wf |-> w]
    BY <1>1 DEF PlacePaperOrder, Begins
  <2>2. k.op # "trim"
    BY <2>1
  <2> QED
    BY <1>0, <2>1, <2>2
<1>2. ASSUME NEW i \in Items, NEW route, NEW review, NEW permitted,
             AskForReview(t, i, route, review, permitted)
      PROVE  HistoryInv'
  <2>1. PICK k : /\ task[t] = Idle /\ task' = [task EXCEPT ![t] = k] /\ UNCHANGED outcomes
                 /\ k = [op |-> "insert", item |-> i]
    BY <1>2 DEF AskForReview, CreateItem, TakesUp, paperStores
  <2>2. k.op # "trim"
    BY <2>1
  <2> QED
    BY <1>0, <2>1, <2>2
<1>3. ASSUME NEW w \in Workflows, NEW price \in Prices, NEW op \in {"mark", "close"},
             TakePosition(t, w, price, op)
      PROVE  HistoryInv'
  <2>1. PICK o, k : /\ task[t] = Idle /\ task' = [task EXCEPT ![t] = k] /\ UNCHANGED outcomes
                    /\ k = [op |-> op, order |-> o, price |-> price]
    BY <1>3 DEF TakePosition, Begins, paperStores
  <2>2. k.op # "trim"
    BY <2>1
  <2> QED
    BY <1>0, <2>1, <2>2
<1> QED
  BY <1>1, <1>2, <1>3, EvaluateHistory DEF AgentCall

LEMMA StepHistory == Typed /\ HistoryInv /\ [PaperNext]_vars => HistoryInv'
<1> SUFFICES ASSUME Typed, HistoryInv, [PaperNext]_vars PROVE HistoryInv'
  OBVIOUS
<1>1. ASSUME NEW t \in Workers, QueueCalls(t) \/ QueueSteps(t) PROVE HistoryInv'
  <2>1. UNCHANGED outcomes
    BY <1>1 DEF QueueCalls, QueueSteps, paperVars, paperStores
  <2>2. PICK k \in AllTasks : /\ task' = [task EXCEPT ![t] = k]
                              /\ k.op # "trim" /\ task[t].op # "trim"
    BY <1>1, QueueTaskOnly DEF QueueCalls, QueueSteps, QueueAgent
  <2>3. Trimming' = Trimming
    BY <2>2, TypedParts, SameTrims
  <2> QED
    BY <2>1, <2>3, HistoryKept
<1>2. CASE NextSecond \/ UNCHANGED vars
  <2>1. Trimming' = Trimming /\ UNCHANGED outcomes
    BY <1>2 DEF NextSecond, vars, paperVars, paperStores, Trimming
  <2> QED
    BY <2>1, HistoryKept
<1>3. CASE RestartPaper
  <2>1. Trimming' = {} /\ Len(outcomes') = 0
    BY <1>3 DEF RestartPaper, Trimming, Idle
  <2>2. IsFiniteSet(Trimming') /\ Cardinality(Trimming') = 0
    BY <2>1, FS_EmptySet
  <2> QED
    BY <2>1, <2>2, PaperAssumption DEF HistoryInv, HistoryBounded, Trimming
<1> QED
  BY <1>1, <1>2, <1>3, AgentHistory, CallHistory, TrimHistory DEF PaperNext, AgentStep

\* The learning loop never has more than MAX_HISTORY outcomes of a strategy except
\* those whose append is not over yet, whichever threads trim at the same time.
THEOREM HistoryIsBounded == PaperSpec => []HistoryBounded
<1>1. HistoryInv => HistoryBounded
  BY DEF HistoryInv
<1> QED
  BY <1>1, AlwaysTyped, InitHistory, StepHistory, PTL DEF PaperSpec

=============================================================================
