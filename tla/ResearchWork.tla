---- MODULE ResearchWork ----
(***************************************************************************)
(* What the research work queue promises, without saying how: a topic has  *)
(* at most one open piece of work, a piece of work has at most one holder, *)
(* only the holder can decide its run's fate, it decides it once, and the  *)
(* fate of the run and the release of the work are one step.               *)
(***************************************************************************)
CONSTANTS
    Items,     \* queue item identities
    Runs,      \* research run identities
    Topics,    \* dedupe keys
    TopicOf,   \* the topic an item asks about
    NoRun      \* the holder of an item nobody works on

VARIABLES
    state,     \* state[i]: "new", "open" or "closed"
    holder,    \* holder[i]: the run working on item i
    fate       \* fate[r]: "none" until run r is decided

vars == <<state, holder, fate>>

Fates == {"completed", "failed", "cancelled"}

Init ==
    /\ state = [i \in Items |-> "new"]
    /\ holder = [i \in Items |-> NoRun]
    /\ fate = [r \in Runs |-> "none"]

\* A topic is asked for: one open item per topic.
Submit(i) ==
    /\ state[i] = "new"
    /\ \A j \in Items : state[j] = "open" => TopicOf[j] # TopicOf[i]
    /\ state' = [state EXCEPT ![i] = "open"]
    /\ UNCHANGED <<holder, fate>>

\* An undecided run takes an open item nobody holds.
Acquire(i, r) ==
    /\ state[i] = "open"
    /\ holder[i] = NoRun
    /\ fate[r] = "none"
    /\ \A j \in Items : holder[j] # r
    /\ holder' = [holder EXCEPT ![i] = r]
    /\ UNCHANGED <<state, fate>>

\* The holder decides its run. A failed run may leave the item open for
\* another run; a completed or a cancelled one closes it.
Settle(i, r) ==
    /\ state[i] = "open"
    /\ holder[i] = r
    /\ fate[r] = "none"
    /\ \E f \in Fates, next \in {"open", "closed"} :
        /\ next = "open" => f = "failed"
        /\ fate' = [fate EXCEPT ![r] = f]
        /\ state' = [state EXCEPT ![i] = next]
    /\ holder' = [holder EXCEPT ![i] = NoRun]

\* Somebody outside the queue withdraws the item; its holder keeps it and
\* can no longer settle.
Withdraw(i) ==
    /\ state[i] = "open"
    /\ state' = [state EXCEPT ![i] = "closed"]
    /\ UNCHANGED <<holder, fate>>

Next ==
    \/ \E i \in Items : Submit(i) \/ Withdraw(i)
    \/ \E i \in Items, r \in Runs : Acquire(i, r) \/ Settle(i, r)

Spec == Init /\ [][Next]_vars
====
