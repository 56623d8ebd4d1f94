-------------------------- MODULE MCDocumentSchema --------------------------
(* Instances of DocumentSchema for TLC.                                    *)
EXTENDS DocumentSchema, TLC

CONSTANTS people, jobs, spare, id, text, r1, r2, owner, plain, translated

MCTables == {people, jobs, spare}
MCFieldNames == {id, text}
MCRels == {r1, r2}
MCTitles == {plain, translated}
MCRelNames == {owner}

Symmetric == Permutations(MCRels) \cup Permutations(MCTables)
             \cup Permutations(MCTitles)
=============================================================================
