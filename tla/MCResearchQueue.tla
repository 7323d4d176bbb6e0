---- MODULE MCResearchQueue ----
(* Small instances of ResearchQueue for TLC. *)
EXTENDS ResearchQueue, TLC

CONSTANTS a, b, topic

\* Two invocations ask for the same topic.
SameTopic == [p \in {a, b} |-> topic]
====
