--------------------------- MODULE MCServerTokens ---------------------------
(* A small instance of ServerTokens for TLC.                               *)
EXTENDS ServerTokens, TLC

CONSTANTS a1, a2, h1,
          MAX_ROWS      \* bound on credentials and tokens ever stored, together

TwoCalls == {a1, a2}
OneHandler == {h1}
Symmetry == Permutations(TwoCalls)

MCNext == ResourcesNext /\ stored' + issued' <= MAX_ROWS

MCSpec == ResourcesInit /\ [][MCNext]_<<vars, tokenVars>>
=============================================================================
