------------------------- MODULE MCUpstreamExecutor -------------------------
(* Two requests for one server over a pool of one connection, for TLC.     *)
EXTENDS UpstreamExecutor

CONSTANTS r1, r2, st1, st2

TwoCallers == {r1, r2}
TwoStreams == {st1, st2}

AllOutcomes == {"ok", "failure", "client_error", "cancelled"}

(* The breaker's operations and the exchanges work on different variables, *)
(* so the order of one of each does not matter: a request is between two   *)
(* operations of the breaker only while none has a permit.                 *)
Apart ==
  \/ \A c \in Callers : pc[c] \in {"idle", "upstream"}
  \/ \A c \in Callers : phase[c] \in {"new", "wait"}

MCSpec == ExecInit /\ [][ExecNext /\ Apart']_execVars /\ ExecFairness
=============================================================================
