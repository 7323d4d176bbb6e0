---- MODULE SessionLog ----
(***************************************************************************)
(* What the study-session lifecycle promises a learner: one session is     *)
(* open at a time, study is earned in idle windows, and a closed session   *)
(* is history.                                                             *)
(***************************************************************************)
EXTENDS Naturals

CONSTANTS Sessions, IdleOf

VARIABLES
    state,      \* "unused", "open" or "closed"
    studied,    \* time counted so far
    told        \* sessions the learner's history tells of

vars == <<state, studied, told>>

Init ==
    /\ state = [s \in Sessions |-> "unused"]
    /\ studied = [s \in Sessions |-> 0]
    /\ told = {}

\* At most one idle window of study is earned at a time.
Earn(s) == \E d \in 0..IdleOf[s] : studied' = [studied EXCEPT ![s] = @ + d]

Open(s) ==
    /\ state[s] = "unused" /\ \A r \in Sessions : state[r] # "open"
    /\ state' = [state EXCEPT ![s] = "open"]
    /\ UNCHANGED <<studied, told>>

Replace(old, s) ==
    /\ state[old] = "open" /\ state[s] = "unused"
    /\ state' = [state EXCEPT ![old] = "closed", ![s] = "open"]
    /\ Earn(old)
    /\ UNCHANGED told

Study(s) ==
    /\ state[s] = "open"
    /\ Earn(s)
    /\ UNCHANGED <<state, told>>

Close(s) ==
    /\ state[s] = "open"
    /\ state' = [state EXCEPT ![s] = "closed"]
    /\ Earn(s)
    /\ told' \in {told, told \union {s}}

Next == \E s \in Sessions :
    Open(s) \/ Study(s) \/ Close(s) \/ \E old \in Sessions : Replace(old, s)

Spec == Init /\ [][Next]_vars
====
