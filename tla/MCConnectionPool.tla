-------------------------- MODULE MCConnectionPool --------------------------
(***************************************************************************)
(* Small instances of ConnectionPool.  Users, handles and connections are  *)
(* interchangeable, so the safety runs use their permutations as symmetry. *)
(***************************************************************************)
EXTENDS ConnectionPool, TLC

CONSTANTS u1, u2, h1, h2, h3, k1, k2, k3, c1, c2

MCUsers == {u1, u2}
MCHandles == {h1, h2, h3}
MCConnections == {k1, k2, k3}
MCCredentials == {c1, c2}

Symmetry ==
    Permutations(MCUsers) \union Permutations(MCHandles)
    \union Permutations(MCConnections) \union Permutations(MCCredentials)

=============================================================================
