--------------------------- MODULE MCRateLimiter ---------------------------
(* Instances of RateLimiter for TLC. *)
EXTENDS RateLimiter, TLC

CONSTANTS r1, r2, n1, s1

TwoRequests == {r1, r2}
OneNode == {n1}
OneKey == {s1}
OneServer == [r \in Requests |-> s1]
NoUser == [r \in Requests |-> None]
Fast == [k \in Keys |-> 3]
Symmetry == Permutations(Requests)
=============================================================================
