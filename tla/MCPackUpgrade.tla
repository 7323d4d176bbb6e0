---- MODULE MCPackUpgrade ----
(***************************************************************************)
(* Instances of PackUpgrade: the course is pack 1.  In the first its newer *)
(* version needs pack 2, whose newer version needs pack 1 in turn: to      *)
(* avoid the cycle the resolver takes the older one.  In the second the    *)
(* course has three versions that need nothing.                            *)
(***************************************************************************)
EXTENDS PackUpgrade, TLC

CONSTANTS g, h, x, y, u, a

V(major, minor, patch) == [major |-> major, minor |-> minor, patch |-> patch, pre |-> 0]
M(id, version, needs) == [id |-> id, version |-> version, needs |-> needs]
Nothing == [i \in {} |-> {}]

First == V(1, 0, 0)
Patched == V(1, 0, 1)
Extended == V(1, 1, 0)

Offered ==
    {M(1, First, Nothing),
     M(1, Patched, 2 :> {First, Extended}),
     M(2, First, Nothing),
     M(2, Extended, 1 :> {Patched})}
Contents2 == First :> {x} @@ Patched :> {x}
Learners == Permutations(Goals)

OfferedAlone == {M(1, v, Nothing) : v \in {First, Patched, Extended}}
Contents3 == First :> {x} @@ Patched :> {x} @@ Extended :> {x, y}
====
