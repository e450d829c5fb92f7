--------------------------- MODULE CredentialsMC ---------------------------
(* Small instances of Credentials for TLC. *)
EXTENDS Credentials, TLC

CONSTANTS alice, p1, p2, p3, t1, t2, s1, s2, r1, r2

OneUser == {alice}
ThreePasswords == {p1, p2, p3}
TwoTokens == {t1, t2}
TwoSessions == {s1, s2}
TwoRequests == {r1, r2}

Symmetry ==
    Permutations(ThreePasswords) \cup Permutations(TwoTokens)
        \cup Permutations(TwoSessions) \cup Permutations(TwoRequests)
=============================================================================
