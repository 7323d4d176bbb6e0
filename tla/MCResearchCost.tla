---- MODULE MCResearchCost ----
(* Small instances of ResearchCost for TLC. *)
EXTENDS ResearchCost, TLC

CONSTANTS a, b, main, other, topic

Budget(search, provider, fetch, bytes) ==
    [d \in Dimensions |->
        CASE d = "search" -> search [] d = "provider" -> provider
          [] d = "fetch" -> fetch [] d = "bytes" -> bytes]

TopicBudget == Budget(2, 2, 3, 3)
DailyBudget == Budget(2, 1, 3, 4)

\* Each run was configured with its own number of queries.
RunBudgets == [r \in Runs |-> IF r = a THEN Budget(1, 1, 2, 3) ELSE Budget(2, 2, 1, 2)]

SameTopic == [r \in Runs |-> topic]
====
