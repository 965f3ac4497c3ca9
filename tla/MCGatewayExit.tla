---------------------------- MODULE MCGatewayExit ----------------------------
(* A small instance of GatewayExit for TLC. *)
EXTENDS GatewayExit

CONSTANTS q1, q2, q3, s1, s2

ThreeRequests == {q1, q2, q3}
TwoServers == {s1, s2}
OneOrTwo == {1, 2}
==============================================================================
