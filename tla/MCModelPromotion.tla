-------------------------- MODULE MCModelPromotion --------------------------
(* Instance of ModelPromotion for TLC: the baseline and one other model, two   *)
(* workers, samples one short of the minimum and at it.                        *)
EXTENDS ModelPromotion, TLC

CONSTANTS t1, t2, baseline, challenger, ghost

MCModels == {baseline, challenger, ghost}

\* "challenger:1", a review id as a client may write it.
MCCoined == {-1}
MCKeyOf == [id \in MCCoined |-> challenger]

MCMetrics ==
  {NoMetrics,
   [sample |-> 50, sound |-> TRUE, quality |-> TRUE],
   [sample |-> 49, sound |-> TRUE, quality |-> TRUE],
   [sample |-> 50, sound |-> TRUE, quality |-> FALSE]}

Idle == [artifact |-> 0, evaluation |-> 0, calibration |-> 0, backtest |-> 0,
         request |-> 0, decision |-> 0, status |-> 0, outages |-> 0, proven |-> {}]

MCLoads ==
  { \* all the evidence there is, and a request, two decisions and a status
    [Idle EXCEPT !.proven = {challenger}, !.request = 1, !.decision = 2, !.status = 1],
    \* a new artifact between a request and the decision on it
    [Idle EXCEPT !.proven = {challenger}, !.request = 1, !.decision = 1, !.artifact = 1],
    \* an outage in the middle of a gate
    [Idle EXCEPT !.proven = {challenger, ghost}, !.decision = 1, !.status = 2, !.outages = 1],
    \* runs that push older ones out of the window, alone or while a gate reads them
    [Idle EXCEPT !.calibration = 3],
    [Idle EXCEPT !.proven = {challenger}, !.backtest = 2],
    [Idle EXCEPT !.backtest = 2, !.status = 1],
    [Idle EXCEPT !.evaluation = 2, !.calibration = 1],
    [Idle EXCEPT !.artifact = 2, !.status = 1, !.outages = 2] }

AlikeWorkers == Permutations({t1, t2})

=============================================================================
