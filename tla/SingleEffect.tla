----------------------------- MODULE SingleEffect -----------------------------
(***************************************************************************)
(* What a caller may rely on when it asks for an operation with an effect  *)
(* outside the system and repeats the request after a failure: the effect  *)
(* happens at most once, the operation gets one verdict, the verdict tells *)
(* the truth about the effect (or that nobody knows), and after it nothing *)
(* happens any more.                                                       *)
(***************************************************************************)
EXTENDS Integers

CONSTANT Operations

VARIABLES
  verdict,   \* open, or what the operation came to
  effects    \* how often its effect has happened

Verdict == {"open", "done", "refused", "unknown"}

EffectTypeOK ==
  /\ verdict \in [Operations -> Verdict]
  /\ effects \in [Operations -> 0..1]

EffectInit ==
  /\ verdict = [o \in Operations |-> "open"]
  /\ effects = [o \in Operations |-> 0]

\* The effect, while there is no verdict.
Perform(o) ==
  /\ verdict[o] = "open"
  /\ effects[o] = 0
  /\ effects' = [effects EXCEPT ![o] = 1]
  /\ UNCHANGED verdict

\* The operation has succeeded.
Confirm(o) ==
  /\ verdict[o] = "open"
  /\ effects[o] = 1
  /\ verdict' = [verdict EXCEPT ![o] = "done"]
  /\ UNCHANGED effects

\* Nobody will find out any more without looking outside.
GiveUp(o) ==
  /\ verdict[o] = "open"
  /\ verdict' = [verdict EXCEPT ![o] = "unknown"]
  /\ UNCHANGED effects

\* Operations that have failed, or are called off together: none has happened.
Refuse(S) ==
  /\ \A o \in S : verdict[o] = "open" /\ effects[o] = 0
  /\ verdict' = [o \in Operations |-> IF o \in S THEN "refused" ELSE verdict[o]]
  /\ UNCHANGED effects

EffectNext ==
  \/ \E o \in Operations : Perform(o) \/ Confirm(o) \/ GiveUp(o)
  \/ \E S \in SUBSET Operations : Refuse(S)

EffectSpec == EffectInit /\ [][EffectNext]_<<verdict, effects>>
=============================================================================
