---------------------------- MODULE MCConfigSync ----------------------------
(* A small instance of ConfigSync for TLC. *)
EXTENDS ConfigSync, TLC

CONSTANTS s1, s2, g1, g2

TwoServers == {s1, s2}
TwoSlugs == {g1, g2}
Distinct == (s1 :> g1) @@ (s2 :> g2)

(* The servers whose entry may idle out: one does, the other is in use.    *)
Idling == {s1}

MCSpec == Init /\ [][Next /\ evicted' \subseteq Idling]_vars /\ Fairness
=============================================================================
