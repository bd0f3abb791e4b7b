----------------------------- MODULE MCFollowUps -----------------------------
(* A small instance of the follow-ups: one conversation, its follow-ups and   *)
(* the requests about the first of them.                                      *)
EXTENDS FollowUps, TLC

CONSTANTS f1, hold1, q1, q2

HolderOfOne == f1 :> hold1

AboutOne == [r \in Requests |-> f1]

Symmetry == Permutations(Sweeps) \cup Permutations(People) \cup Permutations(Requests)
=============================================================================
