-------------------------- MODULE MCTokenValidator --------------------------
(* A small instance of TokenValidator for TLC.                             *)
EXTENDS TokenValidator

CONSTANTS r1, r2, s1, s2, t1

TwoRequests == {r1, r2}
TwoServers == {s1, s2}
OneToken == {t1}
=============================================================================
