------------------------------ MODULE AgentsMC ------------------------------
(* Small instances of Agents for TLC. *)
EXTENDS Agents, TLC

CONSTANTS owner, other, a1, a2, k1, k2, k3, r1, r2, live, test

TwoUsers == {owner, other}
TwoIds == {a1, a2}
ThreeSecrets == {k1, k2, k3}
TwoRequests == {r1, r2}
LiveOnly == {live}
LiveAndTest == {live, test}

Symmetry == Permutations(TwoUsers) \cup Permutations(TwoIds)
              \cup Permutations(ThreeSecrets) \cup Permutations(TwoRequests)
=============================================================================
