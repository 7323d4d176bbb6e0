---- MODULE PackDependency ----
(***************************************************************************)
(* pack-dependency-resolver-v1 (pack_dependency.go): from the manifest to  *)
(* be installed or activated and the manifests in the local store, a       *)
(* selection with one version per pack that meets every constraint.        *)
(*                                                                         *)
(* A manifest is a record of its pack's id, its version and its needs: a   *)
(* function from the ids of the packs it depends on to the versions its    *)
(* clauses accept.  Ids are numbers, in the order of the source's sorts.   *)
(***************************************************************************)
EXTENDS PackVersions, FiniteSets

Least(ids) == CHOOSE i \in ids : \A j \in ids : i <= j

Highest(manifests) ==
    CHOOSE m \in manifests : m.version = Newest({n.version : n \in manifests})

Needs(m) == DOMAIN m.needs

\* What the directories of a store hold: finitely many manifests that are valid.
WellFormed(manifests) ==
    /\ IsFiniteSet(manifests)
    /\ \A m \in manifests : m.id \in Nat /\ Needs(m) \subseteq Nat /\ m.version \in Number

\* A state of the search: the manifests chosen so far, and the packs whose
\* dependencies have been added to the constraints.
Demands(s, id) ==
    {m.needs[id] : m \in {n \in s.chosen : n.id \in s.expanded /\ id \in Needs(n)}}

ManifestSatisfies(m, demands) == \A accepted \in demands : m.version \in accepted

Unexpanded(s) == {m.id : m \in s.chosen} \ s.expanded

Needed(s) == (UNION {Needs(m) : m \in s.chosen}) \ {m.id : m \in s.chosen}

\* A finite graph has a cycle exactly when every member of some part of it
\* has an edge back into that part.
Cyclic(manifests) ==
    \E part \in (SUBSET manifests) \ {{}} :
        \A m \in part : \E n \in part : n.id \in Needs(m)

\* Mutant: only the highest candidate is tried.
ResolveGreedily(root, available) ==
    LET States == [chosen : SUBSET (available \union {root}),
                   expanded : SUBSET {m.id : m \in available \union {root}}]
        solve[s \in States] ==
            IF \E m \in s.chosen : ~ManifestSatisfies(m, Demands(s, m.id)) THEN {}
            ELSE IF Unexpanded(s) # {}
              THEN solve[[s EXCEPT !.expanded = @ \union {Least(Unexpanded(s))}]]
            ELSE IF Needed(s) = {} THEN IF Cyclic(s.chosen) THEN {} ELSE s.chosen
            ELSE LET id == Least(Needed(s))
                     fits == {m \in available : m.id = id /\ ManifestSatisfies(m, Demands(s, id))}
                 IN IF fits = {} THEN {} ELSE solve[[s EXCEPT !.chosen = @ \union {Highest(fits)}]]
    IN solve[[chosen |-> {root}, expanded |-> {}]]

\* solveDependencies: the selection, or {} when there is none.  The source
\* tries candidates from the highest version down and keeps the first that
\* leads to a solution.
Resolve(root, available) ==
    LET States == [chosen : SUBSET (available \union {root}),
                   expanded : SUBSET {m.id : m \in available \union {root}}]
        solve[s \in States] ==
            IF \E m \in s.chosen : ~ManifestSatisfies(m, Demands(s, m.id)) THEN {}
            ELSE IF Unexpanded(s) # {}
              THEN solve[[s EXCEPT !.expanded = @ \union {Least(Unexpanded(s))}]]
            ELSE IF Needed(s) = {} THEN IF Cyclic(s.chosen) THEN {} ELSE s.chosen
            ELSE LET id == Least(Needed(s))
                     With(m) == solve[[s EXCEPT !.chosen = @ \union {m}]]
                     works == {m \in available :
                                /\ m.id = id /\ ManifestSatisfies(m, Demands(s, id))
                                /\ With(m) # {}}
                 IN IF works = {} THEN {} ELSE With(Highest(works))
    IN solve[[chosen |-> {root}, expanded |-> {}]]

\* What a resolution is, whatever way it was found.
IsResolution(root, selection) ==
    /\ root \in selection
    /\ \A m, n \in selection : m.id = n.id => m = n
    /\ \A m \in selection : \A id \in Needs(m) :
        \E n \in selection : n.id = id /\ n.version \in m.needs[id]
    /\ ~Cyclic(selection)
====
