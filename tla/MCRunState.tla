----------------------------- MODULE MCRunState -----------------------------
(* RunState on small instances: plans that mix approvals with plain steps. *)
EXTENDS RunState, TLC

CONSTANTS h1, h2

TwoHandlers == {h1, h2}

\* A single approval, two approvals, a step executed at start beside one, a
\* plan that ends while it starts, and one that fails while it starts.
SmallPlans == {<<"approve">>, <<"approve", "approve">>, <<"auto", "approve">>,
               <<"auto", "skip">>, <<"auto", "fail">>}
AllOps == {"pause", "resume", "cancel", "request", "decide"}
NoRequests == AllOps \ {"request"}

\* Events are purged once, all of them, and only while the row has seen them
\* all: after a checkpoint that put an older count back, the sequence of a
\* purged event is used again.
PurgedWhenCurrent ==
    purged' # purged => purged = 0 /\ purged' = Len(log) /\ row.count = purged'

\* The threads are interchangeable.
Symmetry == Permutations(Handlers)
=============================================================================
