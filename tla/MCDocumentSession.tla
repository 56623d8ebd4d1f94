------------------------- MODULE MCDocumentSession -------------------------
(* Instances of DocumentSession for TLC.                                   *)
EXTENDS DocumentSession, TLC

CONSTANTS mine, other, shipped

MCFiles == {mine, other, shipped}
MCReadOnly == {shipped}

Symmetric == Permutations({mine, other})
=============================================================================
