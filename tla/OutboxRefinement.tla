--------------------------- MODULE OutboxRefinement ---------------------------
(***************************************************************************)
(* The outbox implements OutboundContract: QUEUED and SENDING are the one  *)
(* pending phase, an external id is the evidence, and everything the worker*)
(* does with jobs, locks and retries is a stuttering step.                 *)
(***************************************************************************)
EXTENDS Outbox

phaseOf == [s \in MessageStatuses |->
  CASE s = "NONE" -> "absent"   [] s \in {"QUEUED", "SENDING"} -> "pending"
    [] s = "SENT" -> "sent"     [] s = "DELIVERED" -> "delivered"
    [] s = "READ" -> "read"     [] s = "FAILED" -> "failed"]

Contract == INSTANCE OutboundContract WITH
  Replies  <- Messages,
  Answers  <- Requests,
  phase    <- [m \in Messages |-> phaseOf[status[m]]],
  evidence <- ext,
  given    <- accepted

\* Every behaviour of the outbox is one the contract allows (docs/architecture.md:6).
ImplementsContract == Contract!Spec
=============================================================================
