---- MODULE PackVersions ----
(***************************************************************************)
(* Versions of a Learning Pack and the policy that says which one may      *)
(* follow which (internal/curriculum/application/pack_versioning.go).  A   *)
(* version is a record of numbers; pre = 0 stands for a release, a         *)
(* positive pre for a numbered prerelease of it.                           *)
(***************************************************************************)
EXTENDS Integers

Number == [major : Nat, minor : Nat, patch : Nat, pre : Nat]

Core(v) == <<v.major, v.minor, v.patch>>

\* compareSemver(v, w) < 0.
Older(v, w) ==
    \/ v.major < w.major
    \/ v.major = w.major /\ v.minor < w.minor
    \/ v.major = w.major /\ v.minor = w.minor /\ v.patch < w.patch
    \/ Core(v) = Core(w) /\ v.pre # 0 /\ (w.pre = 0 \/ v.pre < w.pre)

Newest(versions) == CHOOSE v \in versions : \A w \in versions : ~Older(v, w)

\* What the two version numbers say: one component moves by exactly one and
\* those below it are reset.
ActualTransition(v, w) ==
    IF Core(v) = Core(w) THEN IF v.pre # 0 THEN "prerelease" ELSE "invalid"
    ELSE IF v.major # w.major
      THEN IF w.major = v.major + 1 /\ w.minor = 0 /\ w.patch = 0 THEN "major" ELSE "invalid"
    ELSE IF v.minor # w.minor
      THEN IF w.minor = v.minor + 1 /\ w.patch = 0 THEN "minor" ELSE "invalid"
    ELSE IF w.patch = v.patch + 1 THEN "patch" ELSE "invalid"

\* What the curricula say: the gravest of the classified changes.  A concept
\* that goes needs a major version, one that comes a minor one.
Impact(old, new) ==
    IF old \ new # {} THEN "major" ELSE IF new \ old # {} THEN "minor" ELSE "patch"

RequiredTransition(v, w, impact) ==
    IF impact = "major" /\ v.major = 0 /\ w.major = 0 THEN "minor" ELSE impact

\* PackVersioningDecision.Allowed.
TransitionAllowed(v, w, impact) ==
    /\ Older(v, w)
    /\ ActualTransition(v, w) \in {"prerelease", RequiredTransition(v, w, impact)}
====
