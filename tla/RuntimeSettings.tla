--------------------------- MODULE RuntimeSettings ---------------------------
(***************************************************************************)
(* The runtime switches in backend/runtime_settings.json: the store        *)
(* (app/core/runtime_settings_store.py), the three endpoints that rewrite  *)
(* it (POST /settings, PUT /settings/gates, PUT /auto-run/status), the one *)
(* that deletes it (POST /settings/reset), and the switch checks of        *)
(* submit_alpaca_order, each of which loads the file again.                *)
(*                                                                         *)
(* Every writer is load, merge, validate, open("w"), dump, with no lock,   *)
(* in a worker of FastAPI's thread pool.  open("w") empties the file; the  *)
(* dump (about 2 kB, below the buffer's size) reaches it in one write, at  *)
(* offset 0, when the file is closed.  A file that does not parse is read  *)
(* as the defaults.                                                        *)
(*                                                                         *)
(* Abstractions.  A configuration is the set of the safety switches that   *)
(* are on; budgets, providers, audit stamps and the other keys are left    *)
(* out, and owner_authority_level only counts as live_submit or not.  The  *)
(* process is not in production, where the environment comes first.        *)
(***************************************************************************)
EXTENDS Naturals

CONSTANTS
  Workers,        \* workers of the thread pool
  Updates,        \* the update bodies clients send
  EnvLive,        \* settings.live_trading_enabled   (process environment)
  EnvApproval,    \* settings.require_human_approval (process environment)
  LiveConfigured, \* EDGESENSE_LIVE_TRADING_ENABLED
  MaxCalls,       \* bound: number of calls
  MaxFaults       \* bound: number of failed saves and process restarts

Switches == {"EMERGENCY_STOP", "EXECUTION_ENABLED", "BROKER_EXECUTION_ENABLED",
             "LIVE_TRADING_ENABLED", "REQUIRE_HUMAN_APPROVAL",
             "PAPER_TRADING_ENABLED", "AGENT_CAN_SUBMIT_PAPER_ORDERS",
             "AGENT_CAN_AUTO_SUBMIT_PAPER_ORDERS", "OWNER_AUTHORITY_LIVE"}

Update == [on : SUBSET Switches, off : SUBSET Switches, confirm : BOOLEAN]

ASSUME SettingsAssumption ==
  /\ Updates \subseteq Update
  /\ EnvLive \in BOOLEAN
  /\ EnvApproval \in BOOLEAN
  /\ LiveConfigured \in BOOLEAN
  /\ MaxCalls \in Nat
  /\ MaxFaults \in Nat

\* Fault: the template ships with broker execution on.
BrokerByDefault == {"EXECUTION_ENABLED", "PAPER_TRADING_ENABLED",
                    "REQUIRE_HUMAN_APPROVAL", "BROKER_EXECUTION_ENABLED"}

\* DEFAULT_RUNTIME_SETTINGS.
Defaults == {"EXECUTION_ENABLED", "PAPER_TRADING_ENABLED",
             "REQUIRE_HUMAN_APPROVAL"}

VARIABLES
  file,      \* what is on disk: "absent", "empty", "garbled" or "complete"
  stored,    \* the configuration a complete file holds
  attached,  \* workers whose open handle is on the file of that name
  pc,        \* where each worker stands
  job,       \* the local variables of each worker's handler
  calls,     \* calls made so far
  faults,    \* failed saves and restarts so far
  stopAcked  \* history: a stop request was answered 200 and shown in force,
             \* and nobody has asked to lift it since

vars == <<file, stored, attached, pc, job, calls, faults, stopAcked>>

Files  == {"absent", "empty", "garbled", "complete"}
Apis   == {"settings", "gates", "auto_run"}
Checks == {"emergency_stop", "execution", "broker", "mode"}
PCs    == {"idle", "loaded", "open", "post"} \cup Checks

\* A writer's api, update and merged configuration, a checker's mode.
Job == [api : Apis \cup {"none"}, update : Update, config : SUBSET Switches,
        mode : {"none", "paper", "live"}]

NoUpdate == [on |-> {}, off |-> {}, confirm |-> FALSE]
IdleJob  == [api |-> "none", update |-> NoUpdate, config |-> {}, mode |-> "none"]

TypeOK ==
  /\ file \in Files
  /\ stored \in SUBSET Switches
  /\ file # "complete" => stored = {}
  /\ attached \subseteq {t \in Workers : pc[t] = "open"}
  /\ pc \in [Workers -> PCs]
  /\ job \in [Workers -> Job]
  /\ calls \in 0 .. MaxCalls
  /\ faults \in 0 .. MaxFaults
  /\ stopAcked \in BOOLEAN

Init ==
  /\ file = "absent" /\ stored = {}
  /\ attached = {}
  /\ pc = [t \in Workers |-> "idle"]
  /\ job = [t \in Workers |-> IdleJob]
  /\ calls = 0 /\ faults = 0
  /\ stopAcked = FALSE

----------------------------------------------------------------------------
(* Loading, merging and validating *)

\* load_runtime_settings: a missing file and one that does not parse both yield
\* the defaults.
Loaded == IF file = "complete" THEN stored ELSE Defaults

\* The keys each endpoint's request model has; confirm_live is one of gates'.
KeysOf(api) ==
  CASE api = "settings" -> {"EMERGENCY_STOP", "EXECUTION_ENABLED",
                            "BROKER_EXECUTION_ENABLED", "LIVE_TRADING_ENABLED",
                            "REQUIRE_HUMAN_APPROVAL", "PAPER_TRADING_ENABLED"}
    [] api = "gates"    -> Switches \ {"EMERGENCY_STOP", "EXECUTION_ENABLED"}
    [] api = "auto_run" -> {"LIVE_TRADING_ENABLED", "PAPER_TRADING_ENABLED",
                            "REQUIRE_HUMAN_APPROVAL"}

Fits(u, api) == u.on \cup u.off \subseteq KeysOf(api) /\ (u.confirm => api = "gates")

Overlay(u, c) == (c \ u.off) \cup u.on

\* Fault: the emergency stop leaves the other switches alone.
StopLeavesSwitches(u, c) == Overlay(u, c)

\* update_settings: the emergency stop overrides everything.
SettingsMerge(u, c) ==
  LET m == Overlay(u, c) IN
  IF "EMERGENCY_STOP" \in m
  THEN m \ {"EXECUTION_ENABLED", "BROKER_EXECUTION_ENABLED", "LIVE_TRADING_ENABLED"}
  ELSE m

\* Fault: the environment is not asked.
AutoRunTrustsClient(u, c) == Overlay(u, c)

\* update_auto_run_state: live only if the environment has it on, approval off
\* only if the environment has it off.
AutoRunMerge(u, c) ==
  LET refused == {k \in {"LIVE_TRADING_ENABLED"} : k \in u.on /\ ~EnvLive}
      kept    == {k \in {"REQUIRE_HUMAN_APPROVAL"} : k \in u.off /\ EnvApproval}
  IN  (Overlay(u, c) \ refused) \cup kept

Merge(api, u, c) ==
  CASE api = "settings" -> SettingsMerge(u, c)
    [] api = "gates"    -> Overlay(u, c)
    [] api = "auto_run" -> AutoRunMerge(u, c)

\* The three checks update_settings and _validate_invariants share.
LiveRules(c) ==
  /\ "LIVE_TRADING_ENABLED" \in c =>
       {"BROKER_EXECUTION_ENABLED", "REQUIRE_HUMAN_APPROVAL"} \subseteq c
  /\ "BROKER_EXECUTION_ENABLED" \in c => "REQUIRE_HUMAN_APPROVAL" \in c

\* _validate_invariants.
GateRules(u, c) ==
  /\ "EMERGENCY_STOP" \in c =>
       u.on \cap {"LIVE_TRADING_ENABLED", "BROKER_EXECUTION_ENABLED"} = {}
  /\ LiveRules(c)
  /\ "LIVE_TRADING_ENABLED" \in u.on => u.confirm
  /\ "AGENT_CAN_AUTO_SUBMIT_PAPER_ORDERS" \in c =>
       {"AGENT_CAN_SUBMIT_PAPER_ORDERS", "PAPER_TRADING_ENABLED"} \subseteq c
  /\ "OWNER_AUTHORITY_LIVE" \in c =>
       {"LIVE_TRADING_ENABLED", "BROKER_EXECUTION_ENABLED"} \subseteq c

\* update_auto_run_state validates nothing.
Accepts(api, u, c) ==
  /\ api = "settings" => LiveRules(c)
  /\ api = "gates" => GateRules(u, c)

----------------------------------------------------------------------------
(* The writers *)

NewCall == calls < MaxCalls /\ calls' = calls + 1

Goto(t, from, to) == pc[t] = from /\ pc' = [pc EXCEPT ![t] = to]

Return(t) ==
  /\ pc' = [pc EXCEPT ![t] = "idle"]
  /\ job' = [job EXCEPT ![t] = IdleJob]

\* A writer loads the file, merges the update and finds the result valid.
LoadAndMerge(t, api, u) ==
  LET merged == Merge(api, u, Loaded) IN
  /\ NewCall
  /\ Fits(u, api)
  /\ Accepts(api, u, merged)
  /\ Goto(t, "idle", "loaded")
  /\ job' = [job EXCEPT ![t] = [IdleJob EXCEPT
               !.api = api, !.update = u, !.config = merged]]
  /\ stopAcked' = (stopAcked /\ "EMERGENCY_STOP" \notin u.off)
  /\ UNCHANGED <<file, stored, attached, faults>>

\* The endpoint answers 400.
RefuseUpdate(t, api, u) ==
  /\ NewCall
  /\ pc[t] = "idle"
  /\ Fits(u, api)
  /\ ~Accepts(api, u, Merge(api, u, Loaded))
  /\ UNCHANGED <<file, stored, attached, pc, job, faults, stopAcked>>

\* save_runtime_settings opens the file, which empties or creates it.
OpenFile(t) ==
  /\ Goto(t, "loaded", "open")
  /\ file' = "empty" /\ stored' = {}
  /\ attached' = attached \cup {t}
  /\ UNCHANGED <<job, calls, faults, stopAcked>>

\* The outcomes of a write at offset 0.  Over what another writer has put there
\* since, a shorter text leaves a tail behind; through the handle of a deleted
\* file nothing is seen.
WriteOutcome(t) ==
  \/ t \in attached /\ file' = "complete" /\ stored' = job[t].config
  \/ /\ t \in attached /\ file \in {"complete", "garbled"}
     /\ file' = "garbled" /\ stored' = {}
  \/ t \notin attached /\ UNCHANGED <<file, stored>>

\* Fault: the file is never closed.
HandleLeaks(t) ==
  /\ pc[t] = "open"
  /\ WriteOutcome(t)
  /\ Return(t)
  /\ stopAcked' = (stopAcked \/ "EMERGENCY_STOP" \in job[t].update.on \cap Loaded')
  /\ UNCHANGED <<attached, calls, faults>>

\* The dump is written and the file closed; the endpoint answers 200, with the
\* settings as get_settings then loads them.
WriteFile(t) ==
  /\ pc[t] = "open"
  /\ WriteOutcome(t)
  /\ attached' = attached \ {t}
  /\ Return(t)
  /\ stopAcked' = (stopAcked \/ "EMERGENCY_STOP" \in job[t].update.on \cap Loaded')
  /\ UNCHANGED <<calls, faults>>

\* OSError: the file cannot be opened, or the write fails and leaves it empty,
\* as it was, or with a part of the text.  The endpoint answers 500.
SaveFails(t) ==
  /\ faults < MaxFaults /\ faults' = faults + 1
  /\ \/ pc[t] \in {"loaded", "open"} /\ UNCHANGED <<file, stored>>
     \/ t \in attached /\ file' = "garbled" /\ stored' = {}
  /\ attached' = attached \ {t}
  /\ Return(t)
  /\ UNCHANGED <<calls, stopAcked>>

\* reset_settings deletes the file; open handles keep the deleted one.
Reset ==
  /\ NewCall
  /\ file # "absent"
  /\ file' = "absent" /\ stored' = {}
  /\ attached' = {}
  /\ stopAcked' = FALSE
  /\ UNCHANGED <<pc, job, faults>>

\* The process stops and starts again; the file stays as it is.
Restart ==
  /\ faults < MaxFaults /\ faults' = faults + 1
  /\ pc' = [t \in Workers |-> "idle"]
  /\ job' = [t \in Workers |-> IdleJob]
  /\ attached' = {}
  /\ UNCHANGED <<file, stored, calls, stopAcked>>

----------------------------------------------------------------------------
(* The checks of submit_alpaca_order *)

\* The answer of the effective_bool calls, in their order.
Allows(check, mode) ==
  \/ check = "emergency_stop" /\ "EMERGENCY_STOP" \notin Loaded
  \/ check = "execution" /\ "EXECUTION_ENABLED" \in Loaded
  \/ check = "broker" /\ "BROKER_EXECUTION_ENABLED" \in Loaded
  \/ check = "mode" /\ mode = "paper" /\ "PAPER_TRADING_ENABLED" \in Loaded
  \/ check = "mode" /\ mode = "live" /\ LiveConfigured
     /\ "LIVE_TRADING_ENABLED" \in Loaded

After == [emergency_stop |-> "execution", execution |-> "broker",
          broker |-> "mode", mode |-> "post"]

BeginChecks(t, mode) ==
  /\ NewCall
  /\ Goto(t, "idle", "emergency_stop")
  /\ job' = [job EXCEPT ![t] = [IdleJob EXCEPT !.mode = mode]]
  /\ UNCHANGED <<file, stored, attached, faults, stopAcked>>

CheckPasses(t) ==
  /\ pc[t] \in Checks
  /\ Allows(pc[t], job[t].mode)
  /\ pc' = [pc EXCEPT ![t] = After[pc[t]]]
  /\ UNCHANGED <<file, stored, attached, job, calls, faults, stopAcked>>

CheckRefuses(t) ==
  /\ pc[t] \in Checks
  /\ ~Allows(pc[t], job[t].mode)
  /\ Return(t)
  /\ UNCHANGED <<file, stored, attached, calls, faults, stopAcked>>

\* requests.post.
Post(t) ==
  /\ pc[t] = "post"
  /\ Return(t)
  /\ UNCHANGED <<file, stored, attached, calls, faults, stopAcked>>

Next ==
  \/ \E t \in Workers, api \in Apis, u \in Updates : LoadAndMerge(t, api, u)
  \/ \E t \in Workers, api \in Apis, u \in Updates : RefuseUpdate(t, api, u)
  \/ \E t \in Workers : OpenFile(t)
  \/ \E t \in Workers : WriteFile(t)
  \/ \E t \in Workers : SaveFails(t)
  \/ Reset
  \/ Restart
  \/ \E t \in Workers, mode \in {"paper", "live"} : BeginChecks(t, mode)
  \/ \E t \in Workers : CheckPasses(t)
  \/ \E t \in Workers : CheckRefuses(t)
  \/ \E t \in Workers : Post(t)

Spec == Init /\ [][Next]_vars

----------------------------------------------------------------------------
(* Properties *)

\* Whichever endpoints write, and however their writes overlap, are lost or
\* fail, what load_runtime_settings returns never has live trading on without
\* the broker and human approval, nor the broker on without approval.  (In a
\* process whose environment leaves live trading off and approval on, as shipped:
\* otherwise PUT /auto-run/status goes around the rules.)
SafeConfig == LiveRules(Loaded)

\* While the loaded settings have the emergency stop on, they have the broker,
\* live trading and execution off, although PUT /settings/gates and PUT
\* /auto-run/status do not force them off as POST /settings does.
StopKeepsBrokerOff ==
  "EMERGENCY_STOP" \in Loaded =>
    Loaded \cap {"EXECUTION_ENABLED", "BROKER_EXECUTION_ENABLED",
                 "LIVE_TRADING_ENABLED"} = {}

\* submit_alpaca_order loads the file once per switch, so its four answers may
\* come from four configurations; still, it gets past the broker switch, and in
\* live mode past the live switch, only on a whole file that requires human
\* approval, has the broker on and no emergency stop.
PassesBroker(t) == pc[t] = "broker" /\ pc'[t] = "mode"
PassesLive(t)   == pc[t] = "mode" /\ pc'[t] = "post" /\ job[t].mode = "live"

WholeFile ==
  /\ file = "complete" /\ "EMERGENCY_STOP" \notin stored
  /\ {"BROKER_EXECUTION_ENABLED", "REQUIRE_HUMAN_APPROVAL"} \subseteq stored

PostsOnWholeFile ==
  [][\A t \in Workers : PassesBroker(t) \/ PassesLive(t) => WholeFile]_vars

\* An emergency stop that was answered as in force takes effect immediately and lasts until
\* someone asks to lift it.
StopHolds == stopAcked => "EMERGENCY_STOP" \in Loaded

=============================================================================
