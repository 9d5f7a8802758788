----------------------- MODULE ConversationsRefinement -----------------------
(***************************************************************************)
(* The inbound path implements InboxContract: a webhook request posts with *)
(* each transaction that stores a message, answers with its 200, and what  *)
(* it does otherwise - items that came before, errors, crashes, repeats -  *)
(* are stuttering steps, and so are the merges of agents.                  *)
(***************************************************************************)
EXTENDS Conversations

MessagesIn == [b \in Batches |-> {i \in ItemsOf(b) : IsInbound(i)}]
ReceiptsIn == [b \in Batches |-> {i.event : i \in {i \in ItemsOf(b) : ~IsInbound(i)}}]

AllMessages == UNION {MessagesIn[b] : b \in Batches}
AllReceipts == UNION {ReceiptsIn[b] : b \in Batches}

Inbox == INSTANCE InboxContract WITH
  Messages   <- AllMessages,
  Receipts   <- AllReceipts,
  MessagesOf <- MessagesIn,
  ReceiptsOf <- ReceiptsIn,
  inbox      <- stored,
  applied    <- processed \cap AllReceipts,
  closed     <- {c \in Convs : status[c] \in Closed},
  answered   <- acked

\* Every behaviour of the inbound path, with the agents' routes, is one the contract
\* allows (docs/architecture.md:5): exactly once over webhooks that come at least once.
ImplementsInbox == Inbox!Spec
=============================================================================
