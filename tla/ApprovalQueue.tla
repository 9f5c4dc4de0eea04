---------------------------- MODULE ApprovalQueue ----------------------------
(***************************************************************************)
(* app/services/approval_queue/service.py: items an operator decides on.   *)
(*                                                                         *)
(* Each item is kept in _MEMORY and in Postgres.  A new item goes to       *)
(* Postgres first, a decision to memory first, and list_items copies the   *)
(* rows it has read over memory, all without a lock and in any order.      *)
(* Each call asks for a session of its own, which it may not get, and a    *)
(* commit that fails is swallowed: the write of a row may be lost any time *)
(* while memory keeps what was to be written.  A list without a session    *)
(* answers from memory and changes nothing, so it is not an action.        *)
(*                                                                         *)
(* Of an item only its status is kept; the audit events, the limit on      *)
(* lists and the expiry that nothing reads are left out.                   *)
(***************************************************************************)
EXTENDS Integers, FiniteSets

CONSTANTS
  Workers,   \* threads that run handlers
  Items,     \* approval ids
  Decisions  \* what operators decide: approved, rejected, cancelled

ASSUME DecisionsAssumption ==
  Decisions \subseteq {"approved", "rejected", "cancelled"}

VARIABLES
  memItems,   \* _MEMORY: the status of each item
  dbItems,    \* rows of workflow_approval_items
  task,       \* what each worker is about to do
  contested,  \* history: items two workers had in hand at the same time
  unsaved     \* history: items whose latest row was not written

queueVars == <<memItems, dbItems, contested, unsaved>>

ItemStatus == {"none", "pending"} \cup Decisions

Idle == [op |-> "idle"]

QueueTasks ==
  [op : {"insert", "remember"}, item : Items]
  \cup [op : {"overwrite"}, rows : [Items -> ItemStatus]]
  \cup [op : {"decide", "save"}, item : Items, status : Decisions]

QueueTypeOK ==
  /\ memItems \in [Items -> ItemStatus]
  /\ dbItems \in [Items -> ItemStatus]
  /\ contested \subseteq Items
  /\ unsaved \subseteq Items

QueueInit ==
  /\ memItems = [i \in Items |-> "none"]
  /\ dbItems = [i \in Items |-> "none"]
  /\ contested = {}
  /\ unsaved = {}

----------------------------------------------------------------------------

\* The items a worker is busy with.
InHand(t) ==
  CASE task[t].op \in {"insert", "remember", "decide", "save"} -> {task[t].item}
    [] task[t].op = "overwrite" -> {i \in Items : task[t].rows[i] # "none"}
    [] OTHER -> {}

\* Worker t takes up something that touches the given items.
TakesUp(t, next, touched) ==
  /\ task[t] = Idle
  /\ task' = [task EXCEPT ![t] = next]
  /\ contested' = contested \cup (touched \cap UNION {InHand(u) : u \in Workers})

GoesOn(t, op, next) == task[t].op = op /\ task' = [task EXCEPT ![t] = next]

Finishes(t, op) == GoesOn(t, op, Idle)

\* create_item with a fresh uuid.
CreateItem(t, i) ==
  /\ memItems[i] = "none" /\ dbItems[i] = "none"
  /\ \A u \in Workers : i \notin InHand(u)
  /\ TakesUp(t, [op |-> "insert", item |-> i], {i})
  /\ UNCHANGED <<memItems, dbItems, unsaved>>

\* The row of an item is written, or not: there is no session, or the commit
\* raised, or there is no such row.
Writes(item, status, written) ==
  /\ dbItems' = IF written THEN [dbItems EXCEPT ![item] = status] ELSE dbItems
  /\ unsaved' = IF written THEN unsaved \ {item} ELSE unsaved \cup {item}

\* Lines 65-96: the row.
InsertItem(t) ==
  /\ GoesOn(t, "insert", [op |-> "remember", item |-> task[t].item])
  /\ \E written \in BOOLEAN : Writes(task[t].item, "pending", written)
  /\ UNCHANGED <<memItems, contested>>

\* Line 98.
RememberItem(t) ==
  /\ Finishes(t, "remember")
  /\ memItems' = [memItems EXCEPT ![task[t].item] = "pending"]
  /\ UNCHANGED <<dbItems, contested, unsaved>>

\* list_items, without a filter or with one on the status: the rows are read ...
ListItems(t, filter) ==
  /\ LET rows == [i \in Items |-> IF dbItems[i] \in filter THEN dbItems[i] ELSE "none"]
     IN TakesUp(t, [op |-> "overwrite", rows |-> rows], {i \in Items : rows[i] # "none"})
  /\ UNCHANGED <<memItems, dbItems, unsaved>>

\* ... and copied over memory.
OverwriteItems(t) ==
  /\ Finishes(t, "overwrite")
  /\ memItems' = [i \in Items |-> IF task[t].rows[i] # "none" THEN task[t].rows[i]
                                  ELSE memItems[i]]
  /\ UNCHANGED <<dbItems, contested, unsaved>>

\* _update_status, the item being in memory.  The status it has is not looked at.
DecideItem(t, i, status) ==
  /\ memItems[i] # "none"
  /\ TakesUp(t, [op |-> "decide", item |-> i, status |-> status], {i})
  /\ UNCHANGED <<memItems, dbItems, unsaved>>

\* The item is not: get_item lists the rows, which copies all of them.
DecideListed(t, i, status) ==
  /\ memItems[i] = "none" /\ dbItems[i] # "none"
  /\ TakesUp(t, [op |-> "decide", item |-> i, status |-> status],
             {j \in Items : dbItems[j] # "none"})
  /\ memItems' = [j \in Items |-> IF dbItems[j] # "none" THEN dbItems[j] ELSE memItems[j]]
  /\ UNCHANGED <<dbItems, unsaved>>

\* Fault: the decision stays in memory.
DecideMemoryOnly(t) ==
  /\ Finishes(t, "decide")
  /\ memItems' = [memItems EXCEPT ![task[t].item] = task[t].status]
  /\ UNCHANGED <<dbItems, contested, unsaved>>

\* Line 170: memory first.
RememberDecision(t) ==
  /\ GoesOn(t, "decide", [task[t] EXCEPT !.op = "save"])
  /\ memItems' = [memItems EXCEPT ![task[t].item] = task[t].status]
  /\ UNCHANGED <<dbItems, contested, unsaved>>

\* Lines 172-195: the row, if there is one.
SaveDecision(t) ==
  /\ Finishes(t, "save")
  /\ \E written \in {FALSE, dbItems[task[t].item] # "none"} :
       Writes(task[t].item, task[t].status, written)
  /\ UNCHANGED <<memItems, contested>>

\* A call on the queue begins; one that was begun takes its next step.
QueueCall(t) ==
  \/ \E filter \in {ItemStatus, {"pending"}} : ListItems(t, filter)
  \/ \E i \in Items, status \in Decisions :
       DecideItem(t, i, status) \/ DecideListed(t, i, status)

QueueStep(t) ==
  \/ InsertItem(t) \/ RememberItem(t)
  \/ OverwriteItems(t)
  \/ RememberDecision(t) \/ SaveDecision(t)

----------------------------------------------------------------------------
(* Properties *)

\* Memory and the row agree on every item nobody has in hand, so that a decision
\* survives a restart and no list brings an old status back, unless the latest
\* write of its row was lost (the code says nothing of that, and a list then
\* undoes the decision) or two calls once had the item in hand at the same time.
QueueAgrees ==
  \A i \in Items \ (contested \cup unsaved) :
    (\A t \in Workers : i \notin InHand(t)) => memItems[i] \in {"none", dbItems[i]}

=============================================================================
