---------------------------- MODULE RateLimiterMC ----------------------------
(* A small instance of RateLimiter for TLC. *)
EXTENDS RateLimiter

CONSTANTS login, register

TwoKeys == {login, register}
=============================================================================
