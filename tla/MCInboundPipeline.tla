--------------------------- MODULE MCInboundPipeline ---------------------------
(* A small instance of the inbound pipeline: one conversation, its messages     *)
(* and the replies to them, under the one holder of the AI.                     *)
EXTENDS InboundPipeline, TLC

CONSTANTS m1, m2, ai

HolderOfAI == [m \in Keys |-> ai]

AboutNone == [r \in Requests |-> m1]

Symmetry == Permutations(Calls) \cup Permutations(Keys)
================================================================================
