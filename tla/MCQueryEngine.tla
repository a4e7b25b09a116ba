--------------------------- MODULE MCQueryEngine ---------------------------
(* Instances of QueryEngine for TLC.                                       *)
EXTENDS QueryEngine, TLC

CONSTANTS c1, c2, c3, r1, r2, r3

TwoCallers == {c1, c2}
ThreeCallers == {c1, c2, c3}
TwoRequests == {r1, r2}
ThreeRequests == {r1, r2, r3}

NoRequests == {}
OnlyR2 == {r2}
OnlyR3 == {r3}

AllOutcomes == ResponseKinds \cup FailureKinds
Rough == {"good", "bad", "transient", "panic"}

CallerSymmetry == Permutations(Callers)
=============================================================================
