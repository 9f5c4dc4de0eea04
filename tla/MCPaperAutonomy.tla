--------------------------- MODULE MCPaperAutonomy ---------------------------
(* Instance of PaperAutonomy for TLC: demands that put two agents on the same *)
(* position, outcomes beyond the history, or two calls on the same item.      *)
EXTENDS PaperAutonomy, TLC

CONSTANTS w1, w2, i1, i2, f1, f2

MCWorkers   == {w1, w2}
MCItems     == {i1, i2}
MCWorkflows == {f1, f2}
MCPrices    == {1, 3}

WorkerSymmetry == Permutations(MCWorkers)

Nothing == [orders |-> 0, quotes |-> 0, evaluations |-> 0, reviews |-> 0, calls |-> 0,
            seconds |-> 1, restarts |-> 0]

Trading == [Nothing EXCEPT !.orders = 2, !.quotes = 3, !.evaluations = 1, !.seconds = 2]
Marking == [Nothing EXCEPT !.orders = 1, !.quotes = 4, !.evaluations = 1, !.restarts = 1]
Learning == [Nothing EXCEPT !.orders = 1, !.quotes = 1, !.evaluations = 5]
Reviewing == [Nothing EXCEPT !.reviews = 2, !.calls = 2, !.restarts = 1]
Deciding == [Nothing EXCEPT !.reviews = 1, !.calls = 4]

MCLoads == {Trading, Marking, Learning, Reviewing, Deciding}

=============================================================================
