---------------------------- MODULE MCSelfHosting ----------------------------
(***************************************************************************)
(* Small instances of SelfHosting: two Gloms, and ports and servers enough *)
(* for both of them to be in each other's way.                             *)
(***************************************************************************)
EXTENDS SelfHosting, TLC

CONSTANTS g1, g2, d1, s1, s2

MCGloms == {g1, g2}
OneDocument == {d1}
TwoServers == {s1, s2}

=============================================================================
