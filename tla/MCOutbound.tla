----------------------------- MODULE MCOutbound -----------------------------
(* Small instances of the outbound dispatch: a human and an automated message *)
(* each with a holder of its own (human:<user>:<conversation>, automation:    *)
(* <id>), or the human one alone.                                             *)
EXTENDS OutboundDispatch, TLC

CONSTANTS human, auto1, hHuman, hAuto1, r1

HolderOfPair == human :> hHuman @@ auto1 :> hAuto1

HolderOfHuman == human :> hHuman

AboutOne == r1 :> auto1

AboutNone == [r \in {} |-> human]

Symmetry == Permutations(Calls)
=============================================================================
