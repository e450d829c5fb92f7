------------------------ MODULE PermissionCheckerMC ------------------------
(* A small instance of PermissionChecker for TLC. *)
EXTENDS PermissionChecker, TLC

CONSTANTS c1, c2, alice, p, q, s

TwoCheckers == {c1, c2}
Alice == {alice}
TwoPermissions == {p, q}
OneScope == {s}
AliceMayP == alice :> {p}
AliceMayQ == alice :> {q}
Nobody == {}
Symmetry == Permutations(TwoCheckers)
=============================================================================
