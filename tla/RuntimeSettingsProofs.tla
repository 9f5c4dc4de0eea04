------------------------ MODULE RuntimeSettingsProofs ------------------------
(***************************************************************************)
(* Safety of RuntimeSettings for any number of workers, updates and        *)
(* faults.  The file cannot be trusted to hold the last update, nor to     *)
(* parse; but every configuration that can reach it, the defaults and the  *)
(* ones the workers carry, obeys the rules.                                *)
(***************************************************************************)
EXTENDS RuntimeSettings, TLAPS

\* As shipped: the environment leaves live trading off and approval on.
AsShipped == ~EnvLive /\ EnvApproval

StopRule(c) ==
  "EMERGENCY_STOP" \in c =>
    c \cap {"EXECUTION_ENABLED", "BROKER_EXECUTION_ENABLED",
            "LIVE_TRADING_ENABLED"} = {}

Rules(c) == LiveRules(c) /\ StopRule(c)

FileInv    == file = "complete" => Rules(stored)
CarriedInv == \A t \in Workers : pc[t] \in {"loaded", "open"} => Rules(job[t].config)

IInv == TypeOK /\ FileInv /\ CarriedInv

----------------------------------------------------------------------------

\* What load_runtime_settings returns obeys the rules, whatever the file is.
LEMMA LoadedRules ==
  ASSUME TypeOK, FileInv
  PROVE  Loaded \in SUBSET Switches /\ Rules(Loaded)
BY DEF TypeOK, FileInv, Loaded, Defaults, Switches, Rules, LiveRules, StopRule

\* A request model only names switches.
LEMMA KeysAreSwitches ==
  ASSUME NEW api \in Apis
  PROVE  KeysOf(api) \subseteq Switches
BY DEF Apis, KeysOf, Switches

\* A merge yields a set of switches.
LEMMA MergeTyped ==
  ASSUME NEW api \in Apis, NEW u \in Update, NEW c \in SUBSET Switches
  PROVE  Merge(api, u, c) \in SUBSET Switches
<1>1. Overlay(u, c) \in SUBSET Switches
  BY DEF Overlay, Update
<1>2. SettingsMerge(u, c) \in SUBSET Switches
  BY <1>1 DEF SettingsMerge
<1>3. AutoRunMerge(u, c) \in SUBSET Switches
  BY <1>1 DEF AutoRunMerge, Switches
<1> QED BY <1>1, <1>2, <1>3 DEF Merge, Apis

\* POST /settings: the stop is forced through, the rest validated.
LEMMA SettingsKeepsRules ==
  ASSUME NEW u \in Update, NEW c \in SUBSET Switches,
         LiveRules(SettingsMerge(u, c))
  PROVE  Rules(SettingsMerge(u, c))
BY DEF Rules, StopRule, SettingsMerge

\* PUT /settings/gates: nothing it may turn on is turned on under the stop, and
\* what was off before stays off.
LEMMA GatesKeepsRules ==
  ASSUME NEW u \in Update, NEW c \in SUBSET Switches, Rules(c),
         Fits(u, "gates"), GateRules(u, Overlay(u, c))
  PROVE  Rules(Overlay(u, c))
<1>1. u.on \subseteq Switches \ {"EMERGENCY_STOP", "EXECUTION_ENABLED"}
  BY DEF Fits, KeysOf, Apis
<1> QED BY <1>1 DEF Rules, StopRule, GateRules, Overlay

\* PUT /auto-run/status validates nothing, but as shipped it can neither turn
\* live trading on nor approval off.
LEMMA AutoRunKeepsRules ==
  ASSUME AsShipped, NEW u \in Update, NEW c \in SUBSET Switches, Rules(c),
         Fits(u, "auto_run")
  PROVE  Rules(AutoRunMerge(u, c))
<1>1. u.on \subseteq {"LIVE_TRADING_ENABLED", "PAPER_TRADING_ENABLED",
                      "REQUIRE_HUMAN_APPROVAL"}
  BY DEF Fits, KeysOf, Apis
<1> DEFINE m == AutoRunMerge(u, c)
<1>2. /\ "LIVE_TRADING_ENABLED" \in m => "LIVE_TRADING_ENABLED" \in c
      /\ "REQUIRE_HUMAN_APPROVAL" \in c => "REQUIRE_HUMAN_APPROVAL" \in m
  BY DEF AsShipped, AutoRunMerge, Overlay
<1>3. \A k \in {"BROKER_EXECUTION_ENABLED", "EMERGENCY_STOP", "EXECUTION_ENABLED"} :
        k \in m => k \in c
  BY <1>1 DEF AutoRunMerge, Overlay
<1>4. "BROKER_EXECUTION_ENABLED" \in c => "BROKER_EXECUTION_ENABLED" \in m
  BY DEF AutoRunMerge, Overlay, Fits, KeysOf, Apis
<1> QED BY <1>2, <1>3, <1>4 DEF Rules, LiveRules, StopRule

\* Whatever an endpoint accepts obeys the rules.
LEMMA AcceptedRules ==
  ASSUME AsShipped, NEW api \in Apis, NEW u \in Update,
         NEW c \in SUBSET Switches, Rules(c), Fits(u, api),
         Accepts(api, u, Merge(api, u, c))
  PROVE  Rules(Merge(api, u, c))
<1>1. CASE api = "settings"
  BY <1>1, SettingsKeepsRules DEF Merge, Accepts
<1>2. CASE api = "gates"
  BY <1>2, GatesKeepsRules DEF Merge, Accepts
<1>3. CASE api = "auto_run"
  BY <1>3, AutoRunKeepsRules DEF Merge, Accepts
<1> QED BY <1>1, <1>2, <1>3 DEF Apis

----------------------------------------------------------------------------

\* The reset of a worker's local variables.
LEMMA IdleJobTyped == IdleJob \in Job
BY DEF IdleJob, Job, NoUpdate, Update, Switches

\* At the start the defaults are in force and nobody carries a configuration.
LEMMA InitIInv == Init => IInv
<1> SUFFICES ASSUME Init PROVE IInv
  OBVIOUS
<1>1. TypeOK
  <2>1. pc \in [Workers -> PCs] /\ job \in [Workers -> Job]
    BY IdleJobTyped DEF Init, PCs
  <2>2. calls \in 0 .. MaxCalls /\ faults \in 0 .. MaxFaults
    BY SettingsAssumption DEF Init
  <2> QED BY <2>1, <2>2 DEF Init, TypeOK, Files
<1>2. FileInv /\ CarriedInv
  BY DEF Init, FileInv, CarriedInv
<1> QED BY <1>1, <1>2 DEF IInv

\* A worker that returns carries nothing.
LEMMA ReturnSafe ==
  ASSUME TypeOK, CarriedInv, NEW t \in Workers, Return(t)
  PROVE  /\ pc' \in [Workers -> PCs] /\ job' \in [Workers -> Job]
         /\ CarriedInv'
BY IdleJobTyped DEF TypeOK, CarriedInv, Return, PCs

\* A merged configuration is valid although it is computed from a file that may
\* have changed before it is written.
LEMMA LoadAndMergeStep ==
  ASSUME AsShipped, IInv, NEW t \in Workers, NEW api \in Apis, NEW u \in Updates,
         LoadAndMerge(t, api, u)
  PROVE  IInv'
<1> DEFINE merged == Merge(api, u, Loaded)
           started == [IdleJob EXCEPT !.api = api, !.update = u, !.config = merged]
<1>1. u \in Update
  BY SettingsAssumption
<1>2. Loaded \in SUBSET Switches /\ Rules(Loaded)
  BY LoadedRules DEF IInv
<1>3. merged \in SUBSET Switches
  BY <1>1, <1>2, MergeTyped
<1>4. Rules(merged)
  BY <1>1, <1>2, AcceptedRules DEF LoadAndMerge
<1>5. started \in Job /\ started.config = merged
  <2> HIDE DEF merged
  <2> QED BY <1>1, <1>3, IdleJobTyped DEF IdleJob, Job
<1>6. /\ pc' = [pc EXCEPT ![t] = "loaded"] /\ pc[t] = "idle"
      /\ job' = [job EXCEPT ![t] = started]
  BY DEF LoadAndMerge, Goto
<1>7. TypeOK'
  <2> HIDE DEF started
  <2> QED BY <1>5, <1>6, SettingsAssumption
          DEF IInv, TypeOK, LoadAndMerge, NewCall, PCs
<1>8. FileInv'
  BY DEF IInv, FileInv, LoadAndMerge
<1>9. CarriedInv'
  <2> HIDE DEF started, merged
  <2> QED BY <1>4, <1>5, <1>6 DEF IInv, TypeOK, CarriedInv
<1> QED BY <1>7, <1>8, <1>9 DEF IInv

\* Opening the file leaves nothing in it.
LEMMA OpenFileStep ==
  ASSUME IInv, NEW t \in Workers, OpenFile(t)
  PROVE  IInv'
<1>1. TypeOK'
  BY DEF IInv, TypeOK, OpenFile, Goto, PCs, Files
<1>2. FileInv'
  BY DEF FileInv, OpenFile
<1>3. CarriedInv'
  BY DEF IInv, TypeOK, CarriedInv, OpenFile, Goto
<1> QED BY <1>1, <1>2, <1>3 DEF IInv

\* A write leaves the carried configuration, or nothing that parses.
LEMMA WriteFileStep ==
  ASSUME IInv, NEW t \in Workers, WriteFile(t)
  PROVE  IInv'
<1>1. pc[t] = "open" /\ Return(t) /\ WriteOutcome(t)
  BY DEF WriteFile
<1>2. pc' \in [Workers -> PCs] /\ job' \in [Workers -> Job] /\ CarriedInv'
  BY <1>1, ReturnSafe DEF IInv
<1>3. job[t].config \in SUBSET Switches /\ Rules(job[t].config)
  BY <1>1 DEF IInv, TypeOK, CarriedInv, Job
<1>4. /\ file' \in Files /\ stored' \in SUBSET Switches
      /\ file' # "complete" => stored' = {}
      /\ FileInv'
  BY <1>1, <1>3 DEF IInv, TypeOK, FileInv, WriteOutcome, Files
<1>5. attached' \subseteq {s \in Workers : pc'[s] = "open"}
  BY <1>1 DEF IInv, TypeOK, WriteFile, Return
<1>6. TypeOK'
  BY <1>2, <1>4, <1>5 DEF IInv, TypeOK, WriteFile
<1> QED BY <1>2, <1>4, <1>6 DEF IInv

\* A failed save leaves the file as it was, or nothing that parses.
LEMMA SaveFailsStep ==
  ASSUME IInv, NEW t \in Workers, SaveFails(t)
  PROVE  IInv'
<1>1. pc' \in [Workers -> PCs] /\ job' \in [Workers -> Job] /\ CarriedInv'
  BY ReturnSafe DEF IInv, SaveFails
<1>2. /\ file' \in Files /\ stored' \in SUBSET Switches
      /\ file' # "complete" => stored' = {}
      /\ FileInv'
  BY DEF IInv, TypeOK, FileInv, SaveFails, Files
<1>3. attached' \subseteq {s \in Workers : pc'[s] = "open"}
  BY DEF IInv, TypeOK, SaveFails, Return
<1>4. TypeOK'
  BY <1>1, <1>2, <1>3, SettingsAssumption DEF IInv, TypeOK, SaveFails
<1> QED BY <1>1, <1>2, <1>4 DEF IInv

\* A reset and a restart leave no configuration that was not there.
LEMMA ResetStep ==
  ASSUME IInv, Reset \/ Restart
  PROVE  IInv'
<1>1. file' \in Files /\ stored' \in SUBSET Switches
      /\ (file' # "complete" => stored' = {})
  BY DEF IInv, TypeOK, Reset, Restart, Files
<1>2. pc' \in [Workers -> PCs] /\ job' \in [Workers -> Job]
  BY IdleJobTyped DEF IInv, TypeOK, Reset, Restart, PCs
<1>3. calls' \in 0 .. MaxCalls /\ faults' \in 0 .. MaxFaults
  BY SettingsAssumption DEF IInv, TypeOK, Reset, Restart, NewCall
<1>4. attached' = {} /\ stopAcked' \in BOOLEAN
  BY DEF IInv, TypeOK, Reset, Restart
<1>5. TypeOK'
  BY <1>1, <1>2, <1>3, <1>4 DEF TypeOK
<1>6. FileInv' /\ CarriedInv'
  BY DEF IInv, FileInv, CarriedInv, Reset, Restart
<1> QED BY <1>5, <1>6 DEF IInv

\* A check only reads.
LEMMA CheckStep ==
  ASSUME IInv, NEW t \in Workers,
         \/ \E mode \in {"paper", "live"} : BeginChecks(t, mode)
         \/ CheckPasses(t) \/ CheckRefuses(t) \/ Post(t)
  PROVE  IInv'
<1>1. ASSUME NEW mode \in {"paper", "live"}, BeginChecks(t, mode) PROVE IInv'
  <2>1. [IdleJob EXCEPT !.mode = mode] \in Job
    BY IdleJobTyped DEF IdleJob, Job
  <2>2. TypeOK'
    BY <1>1, <2>1, SettingsAssumption
    DEF IInv, TypeOK, BeginChecks, NewCall, Goto, PCs, Checks
  <2>3. FileInv' /\ CarriedInv'
    BY <1>1 DEF IInv, TypeOK, FileInv, CarriedInv, BeginChecks, Goto
  <2> QED BY <2>2, <2>3 DEF IInv
<1>2. CASE CheckPasses(t)
  <2>1. After[pc[t]] \in PCs \ {"loaded", "open"}
    BY <1>2 DEF CheckPasses, Checks, After, PCs
  <2>2. /\ pc' \in [Workers -> PCs] /\ pc[t] # "open"
        /\ pc' = [pc EXCEPT ![t] = After[pc[t]]]
    BY <1>2, <2>1 DEF IInv, TypeOK, CheckPasses, Checks
  <2>3. TypeOK'
    BY <1>2, <2>1, <2>2 DEF IInv, TypeOK, CheckPasses
  <2>4. FileInv' /\ CarriedInv'
    BY <1>2, <2>1, <2>2 DEF IInv, TypeOK, FileInv, CarriedInv, CheckPasses
  <2> QED BY <2>3, <2>4 DEF IInv
<1>3. CASE CheckRefuses(t) \/ Post(t)
  <2>1. pc' \in [Workers -> PCs] /\ job' \in [Workers -> Job] /\ CarriedInv'
    BY <1>3, ReturnSafe DEF IInv, CheckRefuses, Post
  <2>2. TypeOK' /\ FileInv'
    BY <1>3, <2>1
    DEF IInv, TypeOK, FileInv, CheckRefuses, Post, Return, Checks
  <2> QED BY <2>1, <2>2 DEF IInv
<1> QED BY <1>1, <1>2, <1>3

\* No step leaves the invariant.
LEMMA NextIInv ==
  ASSUME AsShipped, IInv, [Next]_vars
  PROVE  IInv'
<1>1. ASSUME NEW t \in Workers, NEW api \in Apis, NEW u \in Updates,
             LoadAndMerge(t, api, u)
      PROVE  IInv'
  BY <1>1, LoadAndMergeStep
<1>2. ASSUME NEW t \in Workers, NEW api \in Apis, NEW u \in Updates,
             RefuseUpdate(t, api, u)
      PROVE  IInv'
  BY <1>2, SettingsAssumption
  DEF RefuseUpdate, NewCall, IInv, TypeOK, FileInv, CarriedInv
<1>3. ASSUME NEW t \in Workers, OpenFile(t) \/ WriteFile(t) \/ SaveFails(t)
      PROVE  IInv'
  BY <1>3, OpenFileStep, WriteFileStep, SaveFailsStep
<1>4. CASE Reset \/ Restart
  BY <1>4, ResetStep
<1>5. ASSUME NEW t \in Workers,
             \/ \E mode \in {"paper", "live"} : BeginChecks(t, mode)
             \/ CheckPasses(t) \/ CheckRefuses(t) \/ Post(t)
      PROVE  IInv'
  BY <1>5, CheckStep
<1>6. CASE UNCHANGED vars
  BY <1>6 DEF vars, IInv, TypeOK, FileInv, CarriedInv
<1> QED BY <1>1, <1>2, <1>3, <1>4, <1>5, <1>6 DEF Next

\* Every reachable state of a process as shipped satisfies the invariant.
THEOREM Inductive ==
  ASSUME AsShipped
  PROVE  Spec => []IInv
<1>1. IInv /\ [Next]_vars => IInv'
  BY NextIInv
<1> QED BY <1>1, InitIInv, PTL DEF Spec

----------------------------------------------------------------------------

\* Live trading never gets on without the broker and human approval, nor the
\* broker without approval, in what load_runtime_settings returns: for any
\* interleaving of the three writers, any update bodies, resets, failed saves and
\* restarts, in a process whose environment is as shipped.
THEOREM ConfigSafety ==
  ASSUME AsShipped
  PROVE  Spec => []SafeConfig
<1>1. IInv => SafeConfig
  BY LoadedRules DEF IInv, Rules, SafeConfig
<1> QED BY <1>1, Inductive, PTL

\* Loaded settings with the emergency stop on have execution, the broker and live
\* trading off.
THEOREM StopSafety ==
  ASSUME AsShipped
  PROVE  Spec => []StopKeepsBrokerOff
<1>1. IInv => StopKeepsBrokerOff
  BY LoadedRules DEF IInv, Rules, StopRule, StopKeepsBrokerOff
<1> QED BY <1>1, Inductive, PTL

\* submit_alpaca_order only gets past the broker switch, and past the live
\* switch, on a complete file that requires approval and has no stop.
THEOREM PostSafety ==
  ASSUME AsShipped
  PROVE  Spec => PostsOnWholeFile
<1>1. ASSUME IInv, [Next]_vars, NEW t \in Workers,
             PassesBroker(t) \/ PassesLive(t)
      PROVE  WholeFile
  <2>1. CheckPasses(t)
    BY <1>1
    DEF PassesBroker, PassesLive, Next, vars, IInv, TypeOK, LoadAndMerge,
        RefuseUpdate, OpenFile, WriteFile, SaveFails, Reset, Restart,
        BeginChecks, CheckPasses, CheckRefuses, Post, Goto, Return, NewCall
  <2>2. \/ "BROKER_EXECUTION_ENABLED" \in Loaded
        \/ "LIVE_TRADING_ENABLED" \in Loaded
    BY <1>1, <2>1 DEF PassesBroker, PassesLive, CheckPasses, Allows
  <2>3. file = "complete" /\ Loaded = stored
    BY <2>2 DEF Loaded, Defaults
  <2>4. LiveRules(Loaded) /\ StopRule(Loaded)
    BY <1>1, LoadedRules DEF IInv, Rules
  <2> QED BY <2>2, <2>3, <2>4 DEF LiveRules, StopRule, WholeFile
<1>2. IInv /\ [Next]_vars
        => [\A t \in Workers : PassesBroker(t) \/ PassesLive(t) => WholeFile]_vars
  BY <1>1
<1> QED BY <1>2, Inductive, PTL DEF Spec, PostsOnWholeFile
----------------------------------------------------------------------------

\* A worker that starts holds a job of the declared shape, whatever the file
\* and the environment are.
LEMMA StartTyped ==
  ASSUME TypeOK, NEW t \in Workers,
         \/ \E api \in Apis, u \in Updates : LoadAndMerge(t, api, u)
         \/ \E mode \in {"paper", "live"} : BeginChecks(t, mode)
  PROVE  TypeOK'
<1>1. ASSUME NEW api \in Apis, NEW u \in Updates, LoadAndMerge(t, api, u)
      PROVE  TypeOK'
  <2>1. Loaded \in SUBSET Switches /\ u \in Update
    BY SettingsAssumption DEF TypeOK, Loaded, Defaults, Switches
  <2> DEFINE merged == Merge(api, u, Loaded)
             started == [IdleJob EXCEPT !.api = api, !.update = u, !.config = merged]
  <2>2. merged \in SUBSET Switches
    BY <2>1, MergeTyped
  <2>3. started \in Job
    <3> HIDE DEF merged
    <3> QED BY <2>1, <2>2, IdleJobTyped DEF IdleJob, Job
  <2>4. /\ pc' = [pc EXCEPT ![t] = "loaded"] /\ pc[t] = "idle"
        /\ job' = [job EXCEPT ![t] = started]
    BY <1>1 DEF LoadAndMerge, Goto
  <2>5. /\ UNCHANGED <<file, stored, attached, faults>>
        /\ calls' = calls + 1 /\ calls < MaxCalls
        /\ stopAcked' \in BOOLEAN
    BY <1>1 DEF LoadAndMerge, NewCall, TypeOK
  <2> HIDE DEF started
  <2>6. pc' \in [Workers -> PCs] /\ job' \in [Workers -> Job]
    BY <2>3, <2>4 DEF TypeOK, PCs
  <2>7. attached' \subseteq {s \in Workers : pc'[s] = "open"}
    BY <2>4, <2>5 DEF TypeOK
  <2> QED BY <2>5, <2>6, <2>7, SettingsAssumption DEF TypeOK
<1>2. ASSUME NEW mode \in {"paper", "live"}, BeginChecks(t, mode)
      PROVE  TypeOK'
  <2>1. [IdleJob EXCEPT !.mode = mode] \in Job
    BY IdleJobTyped DEF IdleJob, Job
  <2> QED BY <1>2, <2>1, SettingsAssumption
      DEF TypeOK, BeginChecks, NewCall, Goto, PCs, Checks
<1> QED BY <1>1, <1>2

\* A worker that goes on or returns keeps the shape of the file and its job.
LEMMA GoesOnTyped ==
  ASSUME TypeOK, NEW t \in Workers,
         \/ OpenFile(t) \/ WriteFile(t) \/ SaveFails(t)
         \/ CheckPasses(t) \/ CheckRefuses(t) \/ Post(t)
  PROVE  TypeOK'
<1>1. CASE OpenFile(t)
  BY <1>1 DEF TypeOK, OpenFile, Goto, PCs, Files
<1>2. CASE CheckPasses(t)
  <2>1. After[pc[t]] \in PCs \ {"loaded", "open"} /\ pc[t] # "open"
    BY <1>2 DEF CheckPasses, Checks, After, PCs
  <2> QED BY <1>2, <2>1 DEF TypeOK, CheckPasses
<1>3. CASE WriteFile(t) \/ SaveFails(t) \/ CheckRefuses(t) \/ Post(t)
  <2>1. Return(t)
    BY <1>3 DEF WriteFile, SaveFails, CheckRefuses, Post
  <2>2. pc' \in [Workers -> PCs] /\ job' \in [Workers -> Job]
    BY <2>1, IdleJobTyped DEF TypeOK, Return, PCs
  <2>3. /\ file' \in Files /\ stored' \in SUBSET Switches
        /\ file' # "complete" => stored' = {}
    BY <1>3 DEF TypeOK, WriteFile, WriteOutcome, SaveFails, CheckRefuses, Post,
                Files, Job
  <2>4. attached' \subseteq attached /\ attached' \subseteq {s \in Workers : pc'[s] = "open"}
    BY <1>3, <2>1 DEF TypeOK, WriteFile, SaveFails, CheckRefuses, Post, Return, Checks
  <2>5. calls' \in 0 .. MaxCalls /\ faults' \in 0 .. MaxFaults /\ stopAcked' \in BOOLEAN
    <3>1. calls' = calls /\ (faults' = faults \/ (faults < MaxFaults /\ faults' = faults + 1))
      BY <1>3 DEF WriteFile, SaveFails, CheckRefuses, Post
    <3>2. stopAcked' \in BOOLEAN
      <4>1. CASE WriteFile(t)
        <5> DEFINE shown == "EMERGENCY_STOP" \in job[t].update.on \cap Loaded'
        <5>1. stopAcked' = (stopAcked \/ shown)
          BY <4>1 DEF WriteFile
        <5>2. shown \in BOOLEAN
          OBVIOUS
        <5> HIDE DEF shown
        <5> QED BY <5>1, <5>2 DEF TypeOK
      <4>2. CASE SaveFails(t) \/ CheckRefuses(t) \/ Post(t)
        BY <4>2 DEF TypeOK, SaveFails, CheckRefuses, Post
      <4> QED BY <1>3, <4>1, <4>2
    <3> QED BY <3>1, <3>2, SettingsAssumption DEF TypeOK
  <2> QED BY <2>2, <2>3, <2>4, <2>5 DEF TypeOK
<1> QED BY <1>1, <1>2, <1>3

\* Every variable of the settings store keeps its type in any environment, one
\* not as shipped included; a file that does not parse holds nothing.
THEOREM TypeCorrect == Spec => []TypeOK
<1>1. Init => TypeOK
  BY InitIInv DEF IInv
<1>2. TypeOK /\ [Next]_vars => TypeOK'
  <2> SUFFICES ASSUME TypeOK, [Next]_vars PROVE TypeOK'
    OBVIOUS
  <2>1. CASE \E t \in Workers, api \in Apis, u \in Updates : RefuseUpdate(t, api, u)
    BY <2>1, SettingsAssumption DEF RefuseUpdate, NewCall, TypeOK
  <2>2. CASE Reset \/ Restart
    <3>1. pc' \in [Workers -> PCs] /\ job' \in [Workers -> Job]
      BY <2>2, IdleJobTyped DEF TypeOK, Reset, Restart, PCs
    <3>2. calls' \in 0 .. MaxCalls /\ faults' \in 0 .. MaxFaults
      BY <2>2, SettingsAssumption DEF TypeOK, Reset, Restart, NewCall
    <3>3. /\ file' \in Files /\ stored' \in SUBSET Switches
          /\ file' # "complete" => stored' = {}
          /\ attached' = {} /\ stopAcked' \in BOOLEAN
      BY <2>2 DEF TypeOK, Reset, Restart, Files
    <3> QED BY <3>1, <3>2, <3>3 DEF TypeOK
  <2>3. CASE UNCHANGED vars
    BY <2>3 DEF vars, TypeOK
  <2> QED BY <2>1, <2>2, <2>3, StartTyped, GoesOnTyped DEF Next
<1> QED BY <1>1, <1>2, PTL DEF Spec

=============================================================================
