----------------------------- MODULE MCRecords -----------------------------
(* Instances of Records for TLC: two users of one table.                   *)
EXTENDS Records, TLC

CONSTANTS ann, bob

MCClients == {ann, bob}
Symmetry == Permutations(MCClients)
============================================================================
