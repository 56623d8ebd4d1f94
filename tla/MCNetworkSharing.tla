-------------------------- MODULE MCNetworkSharing --------------------------
(* Instances of NetworkSharing for TLC.                                    *)
EXTENDS NetworkSharing, TLC

CONSTANTS ann, bob, cai

MCUsers == {ann, bob, cai}

Symmetric == Permutations(MCUsers)
=============================================================================
