--------------------------- MODULE MCConversations ---------------------------
(***************************************************************************)
(* An instance of Conversations: a WhatsApp and an email account, two      *)
(* external users of each name.  Webhook batch b1 carries a message and a  *)
(* status; b2 repeats the message under another event and adds a second    *)
(* one of the same customer; poll is a mailbox poll (one ingestInbound per *)
(* mail, repeated as a whole after an error) with two writers in a thread. *)
(***************************************************************************)
EXTENDS ConversationsRefinement, TLC

CONSTANTS wa, mail, c1, c2, u1, u2, b1, b2, poll, agent

In(e, m, a, c, u) == [event |-> e, id |-> m, account |-> a, conv |-> c, user |-> u]

MCItems ==
  (b1 :> <<In("e1", "m1", wa, c1, u1), [event |-> "s1", id |-> "x1"]>>) @@
  (b2 :> <<In("e2", "m1", wa, c1, u1), In("e3", "m2", wa, c1, u1)>>) @@
  (poll :> <<In("e4", "m3", mail, c2, u2), In("e5", "m4", mail, c2, u1)>>)

MCOwner == (wa :> None) @@ (mail :> agent)
=============================================================================
