---------------------------- MODULE MCServerApi ----------------------------
(***************************************************************************)
(* Instances of ServerApi for TLC.                                         *)
(***************************************************************************)
EXTENDS ServerApi, TLC

Symmetry == Permutations(Writers) \cup Permutations(Slugs)

(***************************************************************************)
(* Pages do not read the fields and updates write nothing else, so walks   *)
(* are taken while every field has its default value.                      *)
(***************************************************************************)
Apart ==
    \/ \A w \in Walkers : walk[w].pc = "idle"
    \/ /\ \A i \in Ids : row[i].vals = NoRow.vals
       /\ \A c \in Writers : op[c].set \in {<< >>, NoRow.vals}

MCSpec == Init /\ [][Next /\ Apart']_vars
=============================================================================
