---------------------------- MODULE MCPublishing ----------------------------
(* Small instances of the publishing dispatch. *)
EXTENDS PublishingDispatch, TLC

AllKinds == Kinds

Symmetry == Permutations(Sweeps) \cup Permutations(Operators)
=============================================================================
