--------------------------- MODULE MCSseSessions ----------------------------
(* A small instance of SseSessions for TLC. *)
EXTENDS SseSessions

CONSTANTS s1, s2, p1

TwoSessions == {s1, s2}
OnePost == {p1}
=============================================================================
