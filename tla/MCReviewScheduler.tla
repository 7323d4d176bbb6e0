---- MODULE MCReviewScheduler ----
EXTENDS ReviewScheduler
CONSTANTS c
Offered ==
    {[kind |-> "objective", ok |-> TRUE], [kind |-> "objective", ok |-> FALSE], [kind |-> "self_report", ok |-> TRUE]}
FutureAndPresent == {-1, 0}
====
