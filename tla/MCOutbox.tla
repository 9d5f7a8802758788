------------------------------ MODULE MCOutbox ------------------------------
(***************************************************************************)
(* Instances of Outbox and of its refinement for TLC.  Client ids, texts   *)
(* and processes are interchangeable; messages are not (they are ordered). *)
(***************************************************************************)
EXTENDS OutboxRefinement, TLC

Symmetry ==
  {k @@ t @@ w : k \in Permutations(ClientIds), t \in Permutations(Texts),
                 w \in Permutations(Workers)}
=============================================================================
