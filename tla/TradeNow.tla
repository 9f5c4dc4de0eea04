------------------------------ MODULE TradeNow ------------------------------
(***************************************************************************)
(* The other order path of the backend: services/alpaca_execution_service  *)
(* .py behind api/routes/tradenow.py, the route /paper-trading/order and   *)
(* the "paper_order" check of platform_integration_checks_service.py.  It  *)
(* shares nothing with ExecutionService but the settings file and the      *)
(* broker: it has no audit, no idempotency key and no adapter.             *)
(*                                                                         *)
(* The handlers are plain "def", so each call runs in a worker thread.     *)
(* What they share is one module-level object, _CONFIG, which every call   *)
(* rewrites (_refresh_config) and reads again field by field until the     *)
(* POST.  One action is one stretch of a handler between two accesses.     *)
(* Reads of one action: the toggles and the mode that an assessment looks  *)
(* at, and the mode and the toggle that a validation looks at.  A writer   *)
(* writes the toggles before the mode, so what a reader caught between     *)
(* the two of them would see is a state of its own here.                   *)
(*                                                                         *)
(* Abstractions.  A request is told by its route, its dry_run, the human   *)
(* approval and whether its other checks pass (form of the ticket; risk    *)
(* gate, readiness and approver of an autonomous one).  A call that has    *)
(* met a blocker writes nothing more, so it answers at once.  The answers  *)
(* (_LAST_ORDER, _LAST_AUTONOMOUS_ORDER) are read by two GET routes only   *)
(* and left out, and with them the difference between a refused POST and   *)
(* a lost one: the broker took the order or it did not.                    *)
(***************************************************************************)
EXTENDS Integers, FiniteSets

CONSTANTS
  Workers,       \* workers of the thread pool
  Environments,  \* the process environments: BROKER_EXECUTION_ENABLED,
                 \* AUTONOMOUS_EXECUTION_ENABLED, and both Alpaca keys given
  Updates,       \* bodies of PUT /tradenow/config
  Requests,      \* orders that clients ask for
  Probes,        \* submit_real_paper_order of the integration checks
  InitialSwitches, \* the switches that are on at the start
  OperatorSwitches, \* the switches the operator flips in this instance
  MaxCalls,      \* bound: number of calls
  MaxFlips       \* bound: number of switches flipped

Modes    == {"disabled", "dry_run", "paper", "live"}
Switches == {"EMERGENCY_STOP", "LIVE_TRADING_ENABLED", "PAPER_TRADING_ENABLED"}

\* POST /tradenow/orders and POST /paper-trading/order hand the same request to the
\* same function, with no word of the account: both are manual.
Routes   == {"manual", "autonomous", "probe"}

Environment == [broker : BOOLEAN, autonomous : BOOLEAN, keys : BOOLEAN]
Update      == [user : BOOLEAN, auto : BOOLEAN, mode : Modes]
Request     == [route : Routes, dry : BOOLEAN, approved : BOOLEAN,
                passed : BOOLEAN]

ASSUME TradeNowAssumption ==
  /\ Environments \subseteq Environment
  /\ Updates \subseteq Update
  /\ Requests \subseteq {r \in Request : r.route # "probe"}
  /\ Probes \subseteq BOOLEAN
  /\ InitialSwitches \subseteq Switches
  /\ OperatorSwitches \subseteq Switches
  /\ MaxCalls \in Nat
  /\ MaxFlips \in Nat

VARIABLES
  env,       \* the environment of the process, fixed at its start
  switches,  \* switches that are on (runtime_settings.json)
  flips,     \* flips so far
  config,    \* _CONFIG
  calls,     \* calls so far
  orders,    \* the orders the broker took
  pc,        \* where each worker stands
  job,       \* the local variables of each worker's handler
  view       \* history: what held while each worker's call ran

vars == <<env, switches, flips, config, calls, orders, pc, job, view>>

----------------------------------------------------------------------------
(* Types *)

PCs == {"idle", "load_live", "load_paper", "assess", "store", "toggles",
        "permit", "mode", "borrow", "place", "validate", "branch", "blockers",
        "live_check", "endpoint", "post", "restore"}

Config == [user : BOOLEAN, auto : BOOLEAN, mode : Modes, live : BOOLEAN,
           clear : BOOLEAN, autoClear : BOOLEAN]

Job == [req : Request, new : Update, return : PCs, live : BOOLEAN,
        paper : BOOLEAN, clear : BOOLEAN, autoClear : BOOLEAN,
        account : {"none", "paper", "live"}]

\* ownLive: the live switch was on at some time while this call ran.  ownPaper:
\* so was the paper switch, or the mode was not paper.  live, paper: one of the
\* two held in this call or in one that overlapped it.  toggle: the toggle its
\* route needs was on at some time while it ran.
View == [ownLive : BOOLEAN, live : BOOLEAN, ownPaper : BOOLEAN, paper : BOOLEAN,
         toggle : BOOLEAN]

OrderRecord == [req : Request, account : {"paper", "live"}, view : View]

NoRequest == [route |-> "manual", dry |-> TRUE, approved |-> FALSE,
              passed |-> FALSE]
NoUpdate  == [user |-> FALSE, auto |-> FALSE, mode |-> "dry_run"]
IdleJob   == [req |-> NoRequest, new |-> NoUpdate, return |-> "idle",
              live |-> FALSE, paper |-> FALSE, clear |-> FALSE,
              autoClear |-> FALSE, account |-> "none"]
NoView    == [ownLive |-> FALSE, live |-> FALSE, ownPaper |-> FALSE,
              paper |-> FALSE, toggle |-> FALSE]

\* The object as the module creates it: both lists of blockers are empty
\* until the first refresh.
InitialConfig == [user |-> FALSE, auto |-> FALSE, mode |-> "dry_run",
                  live |-> FALSE, clear |-> TRUE, autoClear |-> TRUE]

\* Type invariant: the shared configuration, the locals of the handlers and
\* the orders on record are of their types.
TypeOK ==
  /\ env \in Environments
  /\ switches \subseteq Switches
  /\ flips \in 0 .. MaxFlips
  /\ config \in Config
  /\ calls \in 0 .. MaxCalls
  /\ orders \subseteq OrderRecord
  /\ pc \in [Workers -> PCs]
  /\ job \in [Workers -> Job]
  /\ view \in [Workers -> View]

----------------------------------------------------------------------------
(* History *)

On(switch) == switch \in switches

ToggleOf(route) == IF route = "autonomous" THEN config.auto ELSE config.user

Running == {w \in Workers : pc[w] # "idle"}

\* No paper order is held back under this mode with these switches on.
PaperFree(mode, on) == mode = "paper" => "PAPER_TRADING_ENABLED" \in on

\* What a call that starts now sees, the calls still running included.
FirstView(route) ==
  [ownLive  |-> On("LIVE_TRADING_ENABLED"),
   live     |-> \/ On("LIVE_TRADING_ENABLED")
                \/ \E v \in Running : view[v].ownLive,
   ownPaper |-> PaperFree(config.mode, switches),
   paper    |-> \/ PaperFree(config.mode, switches)
                \/ \E v \in Running : view[v].ownPaper,
   toggle   |-> ToggleOf(route)]

\* What the calls still running have seen once the mode and the switches are these.
ViewsAfter(mode, on) ==
  [w \in Workers |->
     IF w \notin Running THEN NoView ELSE
          LET v == view[w]
              l == "LIVE_TRADING_ENABLED" \in on
              p == PaperFree(mode, on)
          IN [v EXCEPT !.ownLive = @ \/ l, !.live = @ \/ l,
                       !.ownPaper = @ \/ p, !.paper = @ \/ p]]

----------------------------------------------------------------------------
Init ==
  /\ env \in Environments
  /\ switches = InitialSwitches
  /\ flips = 0
  /\ config = InitialConfig
  /\ calls = 0
  /\ orders = {}
  /\ pc = [w \in Workers |-> "idle"]
  /\ job = [w \in Workers |-> IdleJob]
  /\ view = [w \in Workers |-> NoView]

\* The operator turns one switch of the settings file; the stop takes the
\* live switch with it, and keeps it off (POST /settings).
Operator ==
  \E s \in OperatorSwitches :
    LET turned == IF On(s) THEN switches \ {s} ELSE switches \cup {s}
        now    == IF "EMERGENCY_STOP" \in turned
                  THEN turned \ {"LIVE_TRADING_ENABLED"} ELSE turned
    IN /\ flips < MaxFlips
       /\ now # switches
       /\ switches' = now
       /\ flips' = flips + 1
       /\ view' = ViewsAfter(config.mode, now)
       /\ UNCHANGED <<env, config, calls, orders, pc, job>>

\* Worker w goes from step "at" to step "to".
Goes(w, at, to) == /\ pc[w] = at
                   /\ pc' = [pc EXCEPT ![w] = to]

Untouched == UNCHANGED <<env, switches, flips>>

\* The locals of a handler that has answered are gone.
Frees(w) ==
  IF pc'[w] = "idle" THEN /\ job' = [job EXCEPT ![w] = IdleJob]
                          /\ view' = [view EXCEPT ![w] = NoView]
                     ELSE UNCHANGED <<job, view>>

\* A handler takes a call: "first" is its first step.
Accept(w, first, request, update, return) ==
  /\ calls < MaxCalls
  /\ calls' = calls + 1
  /\ Goes(w, "idle", first)
  /\ job' = [job EXCEPT ![w] = [IdleJob EXCEPT !.req = request,
                                  !.new = update, !.return = return]]
  /\ view' = [view EXCEPT ![w] = FirstView(request.route)]
  /\ Untouched /\ UNCHANGED <<config, orders>>

\* GET /tradenow/config
GetConfig(w) == Accept(w, "load_live", NoRequest, NoUpdate, "idle")

\* PUT /tradenow/config
UpdateConfig(w) ==
  \E u \in Updates : Accept(w, "toggles", NoRequest, u, "idle")

\* POST /tradenow/orders, /paper-trading/order and /tradenow/autonomous/orders
PlaceOrder(w) ==
  \E r \in Requests : Accept(w, "load_live", r, NoUpdate, "validate")

\* POST /integration-checks/run, its check "paper_order": it vouches for the
\* human approval itself.
Probe(w) ==
  \E real \in Probes :
    Accept(w, "load_live",
           [route |-> "probe", dry |-> ~real, approved |-> TRUE,
            passed |-> TRUE], NoUpdate, "borrow")

----------------------------------------------------------------------------
(* _refresh_config *)

LoadLive(w) ==
  /\ Goes(w, "load_live", "load_paper")
  /\ job' = [job EXCEPT ![w].live = On("LIVE_TRADING_ENABLED")]
  /\ Untouched /\ UNCHANGED <<config, calls, orders, view>>

LoadPaper(w) ==
  /\ Goes(w, "load_paper", "assess")
  /\ job' = [job EXCEPT ![w].paper = On("PAPER_TRADING_ENABLED")]
  /\ Untouched /\ UNCHANGED <<config, calls, orders, view>>

\* No blocker from the mode.
ModeAllowed(j) ==
  /\ config.mode = "live" => j.live
  /\ config.mode = "paper" => j.paper

\* No blocker from the broker switch of the environment, nor from the keys.
BrokerAllowed == env.broker /\ env.keys

Assess(w) ==
  /\ Goes(w, "assess", "store")
  /\ job' = [job EXCEPT
       ![w].clear     = config.user /\ ModeAllowed(job[w]) /\ BrokerAllowed,
       ![w].autoClear = /\ config.auto /\ env.autonomous
                        /\ ModeAllowed(job[w]) /\ BrokerAllowed]
  /\ Untouched /\ UNCHANGED <<config, calls, orders, view>>

\* The live flag and the two lists of blockers, of which a reader takes one.
Store(w) ==
  LET j == job[w] IN
  /\ Goes(w, "store", j.return)
  /\ config' = [config EXCEPT !.live = j.live, !.clear = j.clear,
                              !.autoClear = j.autoClear]
  /\ job' = [job EXCEPT ![w] =
       IF j.return = "idle" THEN IdleJob
       ELSE [j EXCEPT !.live = FALSE, !.paper = FALSE, !.clear = FALSE,
                      !.autoClear = FALSE]]
  /\ view' = [view EXCEPT ![w] = IF j.return = "idle" THEN NoView ELSE @]
  /\ Untouched /\ UNCHANGED <<calls, orders>>

----------------------------------------------------------------------------
(* update_trade_now_config *)

\* The two toggles, then the mode.  A history step notes the toggles for the
\* calls that are running.
WriteToggles(w) ==
  LET new == job[w].new
      lit(v) == IF job[v].req.route = "autonomous" THEN new.auto ELSE new.user
  IN /\ Goes(w, "toggles", "permit")
     /\ config' = [config EXCEPT !.user = new.user, !.auto = new.auto]
     /\ view' = [v \in Workers |->
                   [view[v] EXCEPT !.toggle = @ \/ (v \in Running /\ lit(v))]]
     /\ Untouched /\ UNCHANGED <<calls, orders, job>>

\* Fault: the mode is taken as it was asked.
PermitAny(w) ==
  /\ Goes(w, "permit", "mode")
  /\ Untouched /\ UNCHANGED <<config, calls, orders, job, view>>

\* "live" is asked of the settings file, and becomes "disabled" without it.
Permit(w) ==
  LET refused == job[w].new.mode = "live" /\ ~On("LIVE_TRADING_ENABLED") IN
  /\ Goes(w, "permit", "mode")
  /\ job' = [job EXCEPT ![w].new.mode = IF refused THEN "disabled" ELSE @]
  /\ Untouched /\ UNCHANGED <<config, calls, orders, view>>

WriteMode(w) ==
  /\ Goes(w, "mode", "load_live")
  /\ config' = [config EXCEPT !.mode = job[w].new.mode]
  /\ view' = ViewsAfter(job[w].new.mode, switches)
  /\ Untouched /\ UNCHANGED <<calls, orders, job>>

----------------------------------------------------------------------------
(* The check "paper_order".  What it calls the previous configuration is     *)
(* _CONFIG itself, so the values it restores are those of that moment.       *)

SetConfig(w, at, user, return) ==
  /\ Goes(w, at, "toggles")
  /\ job' = [job EXCEPT
       ![w].new = [user |-> user, auto |-> config.auto, mode |-> config.mode],
       ![w].return = return]
  /\ Untouched /\ UNCHANGED <<config, calls, orders, view>>

Borrow(w)  == SetConfig(w, "borrow", TRUE, "place")
Restore(w) == SetConfig(w, "restore", config.user, "idle")

ProbeOrder(w) ==
  /\ Goes(w, "place", "load_live")
  /\ job' = [job EXCEPT ![w].return = "validate"]
  /\ Untouched /\ UNCHANGED <<config, calls, orders, view>>

----------------------------------------------------------------------------
(* place_trade_now_order and place_autonomous_trade_order *)

After(w) == IF job[w].req.route = "probe" THEN "restore" ELSE "idle"

\* One check of the order: without a blocker it goes on, else it answers.
Check(w, at, passes, to) ==
  /\ Goes(w, at, IF passes THEN to ELSE After(w))
  /\ Frees(w)
  /\ Untouched /\ UNCHANGED <<config, calls, orders>>

\* Fault: the toggle is left to the list of blockers.
ValidateForm(w) ==
  LET r == job[w].req IN
  Check(w, "validate",
        /\ r.approved /\ r.passed
        /\ config.mode # "disabled"
        /\ r.route = "autonomous" => env.autonomous,
        "branch")

Validate(w) ==
  LET r == job[w].req IN
  Check(w, "validate",
        /\ r.approved /\ r.passed
        /\ config.mode # "disabled"
        /\ ToggleOf(r.route)
        /\ r.route = "autonomous" => env.autonomous,
        "branch")

Branch(w) ==
  Check(w, "branch",
        ~job[w].req.dry /\ config.mode \notin {"disabled", "dry_run"},
        "blockers")

ReadBlockers(w) ==
  Check(w, "blockers",
        IF job[w].req.route = "autonomous" THEN config.autoClear
                                           ELSE config.clear,
        "live_check")

CheckLive(w) ==
  Check(w, "live_check", config.mode = "live" => config.live, "endpoint")

\* Fault: the account is named by the mode, whatever it is by now.
EndpointOfMode(w) ==
  /\ Goes(w, "endpoint", "post")
  /\ job' = [job EXCEPT ![w].account = config.mode]
  /\ Untouched /\ UNCHANGED <<config, calls, orders, view>>

\* _submit_to_alpaca reads the mode once more to choose the account.
ChooseEndpoint(w) ==
  /\ Goes(w, "endpoint", "post")
  /\ job' = [job EXCEPT ![w].account = IF config.mode = "live" THEN "live"
                                                               ELSE "paper"]
  /\ Untouched /\ UNCHANGED <<config, calls, orders, view>>

\* The POST, which the broker may take or not.  Its client_order_id is the
\* client's or a fresh one: nothing here holds two POSTs of one intent back.
Post(w) ==
  /\ Goes(w, "post", After(w))
  /\ \/ orders' = orders \cup {[req |-> job[w].req, view |-> view[w],
                                account |-> job[w].account]}
     \/ UNCHANGED orders
  /\ Frees(w)
  /\ Untouched /\ UNCHANGED <<config, calls>>

Step(w) ==
  \/ GetConfig(w) \/ UpdateConfig(w) \/ PlaceOrder(w) \/ Probe(w)
  \/ LoadLive(w) \/ LoadPaper(w) \/ Assess(w) \/ Store(w)
  \/ WriteToggles(w) \/ Permit(w) \/ WriteMode(w)
  \/ Borrow(w) \/ ProbeOrder(w) \/ Restore(w)
  \/ Validate(w) \/ Branch(w) \/ ReadBlockers(w) \/ CheckLive(w)
  \/ ChooseEndpoint(w) \/ Post(w)

Next == Operator \/ \E w \in Workers : Step(w)

Spec == Init /\ [][Next]_vars

----------------------------------------------------------------------------
(* Properties *)

\* What the process environment and the request must grant stands behind every
\* order: the broker switch, the keys, the human approval, the other checks of the
\* request, for an autonomous one its own switch, and the toggle of its route, on
\* at some time of the call.  The broker switch, the keys and the toggle are read
\* off a list of blockers that any overlapping call may have replaced.
OrdersAreGranted ==
  \A o \in orders :
    /\ env.broker /\ env.keys
    /\ o.req.approved /\ o.req.passed /\ ~o.req.dry
    /\ o.req.route = "autonomous" => env.autonomous
    /\ o.view.toggle

\* Mode and blockers are read at four moments and rewritten by every call in
\* between, so an order validated under one mode may be placed under another.
\* This is what is left of the two switches: an order reaches the live account
\* only if the live switch was on during its call or one that overlapped it, and
\* the paper account only if in one of these calls there was a moment with the
\* paper switch on, or with a mode that does not ask for it.
AccountWasAllowed ==
  \A o \in orders : /\ o.account = "live" => o.view.live
                    /\ o.account = "paper" => o.view.paper
=============================================================================
