------------------------- MODULE MCExecutionService -------------------------
(* Instances of ExecutionService for TLC. *)
EXTENDS ExecutionService, TLC

CONSTANTS w1, w2, r1, r2, r3, r4, c1, q1, q2

\* A single intent, keyed by the 300 s window.
OneIntent      == {r1}
OneClientId    == r1 :> NoId
OneTerms       == r1 :> q1
OnePaperMode   == r1 :> "paper"

\* Two intents of one key in a window; the live one is downgraded to paper while the
\* live switch is off.
TwoIntents     == {r2, r3}
TwoClientIds   == r2 :> NoId @@ r3 :> NoId
TwoTerms       == r2 :> q1 @@ r3 :> q1
SimulatedAndLive == r2 :> "simulated" @@ r3 :> "live"

\* Two intents of one client id, one of them in the mode that is never executed.
ClientIntents  == {r1, r4}
ClientClientIds == r1 :> c1 @@ r4 :> c1
ClientTerms    == r1 :> q1 @@ r4 :> q2
PaperAndDisabled == r1 :> "paper" @@ r4 :> "live_disabled"

AllGatesOn     == Gates \ {"EMERGENCY_STOP"}

\* Bounds beside the constants.  One preview that is running or on record.
OnePreview ==
  Cardinality({t \in Workers : job[t].op = "precheck"})
    + Cardinality({a \in present : audits[a].key = NoKey}) <= 1

\* One disturbance: a switch is turned; or, with none turned or all turned back, a
\* new window has begun or the process has restarted.
OneDisturbance ==
  bucket + restarts + Cardinality(gates \ InitialGates)
    + Cardinality(InitialGates \ gates) <= 1

WorkerSymmetry == Permutations({w1, w2})
=============================================================================
