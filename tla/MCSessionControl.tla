-------------------------- MODULE MCSessionControl --------------------------
(* Small instances of SessionControl and its refinement for TLC.           *)
EXTENDS SessionControlRefinement, TLC

CONSTANTS w1, w2, j1, c1, c2, c3, s1, s2, s3

TwoWorkers == {w1, w2}
OneJoin == {j1}
NoJoin == {}
TwoCreates == {c1, c2}
ThreeCreates == {c1, c2, c3}
TwoSessions == {s1, s2}
ThreeSessions == {s1, s2, s3}

\* Ids are only compared for equality, so any renaming of them is harmless.
Symmetry ==
  Permutations(Workers) \cup Permutations(CreateRequests)
    \cup Permutations(Sessions)
=============================================================================
