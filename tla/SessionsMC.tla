----------------------------- MODULE SessionsMC -----------------------------
(* Small instances of Sessions for TLC. *)
EXTENDS Sessions, TLC

CONSTANTS alice, bob, s1, s2, s3, r1, r2

TwoActors == {alice, bob}
ThreeIds == {s1, s2, s3}
TwoRequests == {r1, r2}
\* Of the two lifetimes a login may choose, the one longer than a refresh's.
LoginDurations == {3}

\* Ids, requests and actors are interchangeable.
Symmetry ==
    Permutations({alice, bob}) \cup Permutations(ThreeIds) \cup Permutations(TwoRequests)
=============================================================================
