---- MODULE MCStudySession ----
(* Small instances of StudySession for TLC. *)
EXTENDS StudySession, TLC

CONSTANTS a, b, c

\* One invocation was configured with a longer idle timeout.
Timeouts == [i \in Invocations |-> IF i = a THEN 2 ELSE 1]

Permuted == Permutations({b, c})
====
