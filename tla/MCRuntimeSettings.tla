-------------------------- MODULE MCRuntimeSettings --------------------------
(* Instances of RuntimeSettings for TLC. *)
EXTENDS RuntimeSettings, TLC

CONSTANTS w1, w2

TurnOn(switches)  == [on |-> switches, off |-> {}, confirm |-> FALSE]
TurnOff(switches) == [on |-> {}, off |-> switches, confirm |-> FALSE]

\* Each of the switches the rules are about on its own, and the combinations
\* that go beyond the defaults in one request.
LiveUpdates ==
  {TurnOn({k}) : k \in {"EMERGENCY_STOP", "BROKER_EXECUTION_ENABLED",
                        "LIVE_TRADING_ENABLED", "PAPER_TRADING_ENABLED"}}
  \cup {TurnOff({k}) : k \in {"EMERGENCY_STOP", "BROKER_EXECUTION_ENABLED",
                              "REQUIRE_HUMAN_APPROVAL"}}
  \cup {[on |-> {"BROKER_EXECUTION_ENABLED", "LIVE_TRADING_ENABLED"},
         off |-> {}, confirm |-> c] : c \in BOOLEAN}

PaperUpdates ==
  {TurnOn({"AGENT_CAN_SUBMIT_PAPER_ORDERS", "AGENT_CAN_AUTO_SUBMIT_PAPER_ORDERS"}),
   TurnOn({"OWNER_AUTHORITY_LIVE"}), TurnOff({"PAPER_TRADING_ENABLED"})}

AllUpdates == LiveUpdates \cup PaperUpdates

\* Nobody lifts the emergency stop.
StopUpdates == {TurnOn({"EMERGENCY_STOP"}), TurnOff({"PAPER_TRADING_ENABLED"})}

WorkerSymmetry == Permutations({w1, w2})
=============================================================================
