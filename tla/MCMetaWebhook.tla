---------------------------- MODULE MCMetaWebhook ----------------------------
(***************************************************************************)
(* An instance of MetaWebhook: a WhatsApp number, a page and an Instagram  *)
(* account.  The WhatsApp payload has a message without an id, the message *)
(* of the second of two contacts, a change of another product and three    *)
(* statuses, one of a kind the hub does not know; the page's a message, an *)
(* echo of the page's own message and a delivery; Instagram's a message    *)
(* in an entry without an id and an echo.                                  *)
(***************************************************************************)
EXTENDS MetaWebhook, TLC

CONSTANTS wa, page, ig, u1, u2, fromWa, fromPage, fromIg

Text(product, contacts, from, id) ==
  [product |-> product, phone |-> wa, contacts |-> contacts, from |-> from, id |-> id]
Status(s, t) == [product |-> "whatsapp", phone |-> wa, id |-> "x1", status |-> s, time |-> t]
Event(account, sender, recipient, mid) ==
  [entry |-> account, sender |-> sender, recipient |-> recipient, mid |-> mid,
   echo |-> sender \in Accounts]

WhatsApp(messages, statuses) ==
  [object |-> "whatsapp_business_account", messages |-> messages, statuses |-> statuses,
   messaging |-> <<>>, deliveries |-> <<>>]
Messenger(object, messaging, deliveries) ==
  [object |-> object, messages |-> <<>>, statuses |-> <<>>, messaging |-> messaging,
   deliveries |-> deliveries]

AllPayloads ==
  (fromWa :>
     WhatsApp(<<Text("whatsapp", <<u1, u2>>, u1, None),
                Text("whatsapp", <<u1, u2>>, u2, "m2"),
                Text(None, <<>>, u1, "m1")>>,
              <<Status("delivered", 1), Status("deleted", 2), Status("read", 3)>>)) @@
  (fromPage :>
     Messenger("page", <<Event(page, u1, page, "m3"), Event(page, page, u1, "m4")>>,
               <<[entry |-> page, recipient |-> page, mid |-> "x2", watermark |-> 1]>>)) @@
  (fromIg :>
     Messenger("instagram", <<Event(None, u2, ig, "m5"), Event(ig, ig, u2, "m6")>>, <<>>))

MCPayloads == [b \in Batches |-> AllPayloads[b]]

MCEvents ==
  {PayloadItems[x[1]][x[2]].event : x \in UNION {{b} \X DOMAIN PayloadItems[b] : b \in Batches}}
MCOutgoing == {<<wa, "x1">>, <<page, "x2">>}
MCConvs    == Accounts \X Users
MCOwner    == [a \in Accounts |-> None]
=============================================================================
