-------------------------- MODULE AuthenticationMC --------------------------
(* Small instances of Authentication for TLC. *)
EXTENDS Authentication

CONSTANTS t1, k1, short, garbled, r1, r2

OneToken == {t1}
OneKey == {k1}
ShortCookie == {short}
GarbledKey == {garbled}
TwoRequests == {r1, r2}
=============================================================================
