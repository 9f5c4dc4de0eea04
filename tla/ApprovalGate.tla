---------------------------- MODULE ApprovalGate ----------------------------
(***************************************************************************)
(* What the order path promises, without workers, audits or prechecks:     *)
(* somebody asks for an order, the request may be approved any number of   *)
(* times, and each of these calls puts at most one order on the broker's   *)
(* account, none of them before the request is approved.                   *)
(*                                                                         *)
(* A request is named by the number of the call that asked for it.         *)
(* ExecutionService implements this specification.                         *)
(***************************************************************************)
EXTENDS Integers, FiniteSets

CONSTANTS
  RequireApproval,  \* approval is required at all
  MaxCalls          \* bound: number of calls

VARIABLES
  calls,      \* calls made so far
  confirmed,  \* the requests that are approved
  approvals,  \* the approve calls each request has had
  placed      \* the orders on record, as <<call that placed it, request>>

gateVars == <<calls, confirmed, approvals, placed>>

GateInit ==
  /\ calls = 0
  /\ confirmed = [a \in 1 .. MaxCalls |-> FALSE]
  /\ approvals = [a \in 1 .. MaxCalls |-> {}]
  /\ placed = {}

\* A new request, which its client may declare approved.
Ask(asserted) ==
  /\ calls < MaxCalls
  /\ calls' = calls + 1
  /\ confirmed' = [confirmed EXCEPT ![calls + 1] = asserted]
  /\ UNCHANGED <<approvals, placed>>

\* An operator approves a request, perhaps once more.
Consent(a) ==
  /\ calls < MaxCalls
  /\ calls' = calls + 1
  /\ confirmed' = [confirmed EXCEPT ![a] = TRUE]
  /\ approvals' = [approvals EXCEPT ![a] = @ \cup {calls + 1}]
  /\ UNCHANGED placed

\* A call that can have no order: a replay, a precheck, an unknown audit.
Look ==
  /\ calls < MaxCalls
  /\ calls' = calls + 1
  /\ UNCHANGED <<confirmed, approvals, placed>>

\* The call that asked, or one that approved, places its order.
Place(a, c) ==
  /\ RequireApproval => confirmed[a]
  /\ c \in {a} \cup approvals[a]
  /\ \A p \in placed : p[1] # c
  /\ placed' = placed \cup {<<c, a>>}
  /\ UNCHANGED <<calls, confirmed, approvals>>

GateNext ==
  \/ \E asserted \in BOOLEAN : Ask(asserted)
  \/ \E a \in 1 .. calls : Consent(a)
  \/ Look
  \/ \E a \in 1 .. calls, c \in 1 .. calls : Place(a, c)

GateSpec == GateInit /\ [][GateNext]_gateVars

=============================================================================
