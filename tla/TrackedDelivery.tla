--------------------------- MODULE TrackedDelivery ---------------------------
(***************************************************************************)
(* What the author of an event may rely on when several consumers are to   *)
(* get it: a consumer gets the event as often as it takes until it has     *)
(* acknowledged it and never again after that, nobody gets an event that   *)
(* was not published or is over, and an event counts as delivered only     *)
(* when everybody has acknowledged it.                                     *)
(***************************************************************************)
EXTENDS Integers

CONSTANTS Events, Consumers

VARIABLES
  state,       \* absent, pending, or how the event ended
  deliveries,  \* how often a consumer has got the event
  acked        \* the consumers that have acknowledged it

State == {"absent", "pending", "delivered", "abandoned", "withdrawn"}

TrackedTypeOK ==
  /\ state \in [Events -> State]
  /\ deliveries \in [Events -> [Consumers -> Nat]]
  /\ acked \in [Events -> SUBSET Consumers]

TrackedInit ==
  /\ state = [e \in Events |-> "absent"]
  /\ deliveries = [e \in Events |-> [c \in Consumers |-> 0]]
  /\ acked = [e \in Events |-> {}]

Enter(e, from, to) ==
  /\ state[e] \in from
  /\ state' = [state EXCEPT ![e] = to]
  /\ UNCHANGED <<deliveries, acked>>

Publish(e) == Enter(e, {"absent"}, "pending")

\* The consumer gets the event, perhaps once more.
Deliver(e, c) ==
  /\ state[e] = "pending"
  /\ c \notin acked[e]
  /\ deliveries' = [deliveries EXCEPT ![e] = [deliveries[e] EXCEPT ![c] = deliveries[e][c] + 1]]
  /\ UNCHANGED <<state, acked>>

\* Somebody has recorded that the consumer got it.
Acknowledge(e, c) ==
  /\ state[e] = "pending"
  /\ deliveries[e][c] > 0
  /\ acked' = [acked EXCEPT ![e] = acked[e] \cup {c}]
  /\ UNCHANGED <<state, deliveries>>

Succeed(e) == acked[e] = Consumers /\ Enter(e, {"pending"}, "delivered")

\* Too many attempts have failed.
Abandon(e) == Enter(e, {"pending"}, "abandoned")

\* An administrator calls the event off, perhaps too late.
Withdraw(e) == Enter(e, {"pending", "delivered", "abandoned"}, "withdrawn")

TrackedNext ==
  \E e \in Events :
    \/ Publish(e) \/ Succeed(e) \/ Abandon(e) \/ Withdraw(e)
    \/ \E c \in Consumers : Deliver(e, c) \/ Acknowledge(e, c)

TrackedSpec == TrackedInit /\ [][TrackedNext]_<<state, deliveries, acked>>
=============================================================================
