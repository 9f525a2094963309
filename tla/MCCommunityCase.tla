-------------------------- MODULE MCCommunityCase --------------------------
(* CommunityCase for TLC: requests are interchangeable.                    *)
EXTENDS CommunityCase, TLC

Symmetry == Permutations(Handlers)
============================================================================
