---------------------------- MODULE InboxContract ----------------------------
(***************************************************************************)
(* What the inbound path promises to the customers who write, the agents   *)
(* who read and the providers that wait for a 200 (docs/architecture.md:5),*)
(* without requests, retries, events, accounts, contacts or crashes: a     *)
(* message is posted once however often it is delivered, it counts as      *)
(* unread and reopens its conversation when it is posted, only a look at   *)
(* the conversation resets the count, and an answer is given only for what *)
(* is in.                                                                  *)
(***************************************************************************)
EXTENDS Naturals

CONSTANTS
  Messages,     \* records with an id, an account and a conv
  Receipts,
  Convs,
  Batches,
  MessagesOf,   \* MessagesOf[b], ReceiptsOf[b]: what batch b carries
  ReceiptsOf

VARIABLES
  inbox,        \* the messages agents can see
  applied,      \* the receipts that have had their effect
  unread,       \* what a conversation's badge shows
  closed,       \* the conversations agents need not look at
  answered      \* the batches a provider was told to forget

Same(m, n) == m.id = n.id /\ m.account = n.account

Init ==
  /\ inbox = {} /\ applied = {} /\ closed = {} /\ answered = {}
  /\ unread = [c \in Convs |-> 0]

Post(m) ==
  /\ \A n \in inbox : ~Same(n, m)
  /\ inbox'  = inbox \cup {m}
  /\ unread' = [unread EXCEPT ![m.conv] = @ + 1]
  /\ closed' = closed \ {m.conv}
  /\ UNCHANGED <<applied, answered>>

Apply(r) ==
  /\ r \notin applied
  /\ applied' = applied \cup {r}
  /\ UNCHANGED <<inbox, unread, closed, answered>>

Answer(b) ==
  /\ \A m \in MessagesOf[b] : \E n \in inbox : Same(n, m)
  /\ ReceiptsOf[b] \subseteq applied
  /\ answered' = answered \cup {b}
  /\ UNCHANGED <<inbox, applied, unread, closed>>

Look(c) ==
  /\ unread' = [unread EXCEPT ![c] = 0]
  /\ UNCHANGED <<inbox, applied, closed, answered>>

\* An agent closes a conversation or takes it up again.
Mark(c) ==
  /\ closed' \in {closed \cup {c}, closed \ {c}}
  /\ UNCHANGED <<inbox, applied, unread, answered>>

Next ==
  \/ \E m \in Messages : Post(m)
  \/ \E r \in Receipts : Apply(r)
  \/ \E b \in Batches : Answer(b)
  \/ \E c \in Convs : Look(c) \/ Mark(c)

vars == <<inbox, applied, unread, closed, answered>>
Spec == Init /\ [][Next]_vars
=============================================================================
