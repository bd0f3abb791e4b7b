------------------------------ MODULE MCOutbox ------------------------------
(* Small instances of the outbox. *)
EXTENDS DomainEventOutbox, TLC

\* Events of one release, sweeps and requests are interchangeable; no safety
\* property names one.
Symmetry == Permutations(Events \ NewerEvents) \cup Permutations(Sweeps)
              \cup Permutations(Operators)
=============================================================================
