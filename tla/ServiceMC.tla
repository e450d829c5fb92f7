----------------------------- MODULE ServiceMC -----------------------------
(* A small instance of Service for TLC. *)
EXTENDS Service

CONSTANTS t1, k1, short, r1, p1, p2, p3

OneToken == {t1}
OneKey == {k1}
Nothing == {}
ShortCookie == {short}
OneRequest == {r1}
ThreeProbes == {p1, p2, p3}
=============================================================================
