----------------------------- MODULE MetaWebhook -----------------------------
(***************************************************************************)
(* What the Meta webhook does with the payloads of the three products that *)
(* share its address: the handleWebhook of the adapters makes items of     *)
(* them (normalizeWhatsAppWebhook, normalizeFacebookWebhook,               *)
(* normalizeInstagramWebhook), processBatch of server/webhooks/meta.ts     *)
(* hands the items to the transactions of module Conversations.            *)
(*                                                                         *)
(* The loops over entries, changes and events are flattened: a payload is  *)
(* four sequences in the order of the loops, whose members carry what is   *)
(* said around them.  A field that is missing or blank is None.  Texts,    *)
(* media, names and the times that are in no event id are left out.        *)
(***************************************************************************)
EXTENDS Conversations, SequencesExt

CONSTANT Payloads   \* Payloads[b]: the body of webhook request b

Body == [
  object    : {"whatsapp_business_account", "page", "instagram"},
  messages  : Seq([product : {"whatsapp", None}, phone : Accounts \cup {None},
                   contacts : Seq(Users \cup {None}), from : Users \cup {None},
                   id : Ids \cup {None}]),
  statuses  : Seq([product : {"whatsapp", None}, phone : Accounts \cup {None},
                   id : Ids \cup {None}, status : STRING, time : Nat]),
  \* message and delivery events; the id of the entry they are in
  messaging : Seq([entry : Accounts \cup {None}, sender : Users, recipient : Users \cup Accounts,
                   mid : Ids \cup {None}, echo : BOOLEAN]),
  deliveries : Seq([entry : Accounts \cup {None}, recipient : Accounts,
                    mid : Ids \cup {None}, watermark : Nat])]

-----------------------------------------------------------------------------
Message(provider, a, from, user, id) ==
  [event |-> <<provider, a, id>>, id |-> id, account |-> a, conv |-> <<a, from>>, user |-> user]

\* An id of a message of the hub is looked up within its account.
Receipt(provider, a, id, what) ==
  [event |-> <<provider, a, id, what>>, id |-> <<a, id>>]

\* What f makes of the members of s it is defined for, in their order: the loops
\* skip the others.
Made(s, f) ==
  LET made[i \in 0..Len(s)] ==
        IF i = 0 THEN <<>>
        ELSE IF s[i] \in DOMAIN f THEN Append(made[i - 1], f[s[i]]) ELSE made[i - 1]
  IN  made[Len(s)]

Listed(x) == ToSet(x.contacts)

MutWaId(m) == IF m.contacts = <<>> THEN m.from ELSE m.contacts[1]
\* The contact with the sender's number, else the first one, else the number.  None stands
\* for a contact without a wa_id; Meta sends no blank one, which the code would keep.
WaId(m) ==
  IF m.from \in Listed(m) \/ m.contacts = <<>> \/ m.contacts[1] = None THEN m.from
  ELSE m.contacts[1]

WhatsAppMessages(p) ==
  LET usable == {m \in ToSet(p.messages) :
                   m.product = "whatsapp" /\ None \notin {m.phone, m.from, m.id}}
  IN  Made(p.messages,
           [m \in usable |-> Message("whatsapp", m.phone, m.from, WaId(m), m.id)])

\* The event's id holds the status and its time: each step of a message counts.
WhatsAppStatuses(p) ==
  LET usable == {s \in ToSet(p.statuses) :
                   /\ s.product = "whatsapp" /\ None \notin {s.phone, s.id}
                   /\ s.status \in {"sent", "delivered", "read", "failed"}}
  IN  Made(p.statuses,
           [s \in usable |-> Receipt("whatsapp", s.phone, s.id, <<s.status, s.time>>)])

\* The account an event came to.
AccountOfEvent(v) == IF v.entry # None THEN v.entry ELSE v.recipient

\* What the account itself sent comes back as an echo.
FromCustomer(v) == v.mid # None /\ ~v.echo /\ v.sender # AccountOfEvent(v)

MessengerMessages(provider, p) ==
  Made(p.messaging,
       [v \in {v \in ToSet(p.messaging) : FromCustomer(v)} |->
          Message(provider, AccountOfEvent(v), v.sender, v.sender, v.mid)])

\* A read event names no message and gives no receipt.
FacebookStatuses(p) ==
  Made(p.deliveries,
       [v \in {v \in ToSet(p.deliveries) : v.mid # None} |->
          Receipt("facebook", AccountOfEvent(v), v.mid, <<"delivered", v.watermark>>)])

\* The messages of a product before its receipts.
ItemsOfPayload(p) ==
  WhatsAppMessages(p) \o WhatsAppStatuses(p) \o
  CASE p.object = "page"      -> MessengerMessages("facebook", p) \o FacebookStatuses(p)
    [] p.object = "instagram" -> MessengerMessages("instagram", p)
    [] OTHER                  -> <<>>

PayloadItems == [b \in Batches |-> ItemsOfPayload(Payloads[b])]

ASSUME PayloadsAssumption == Payloads \in [Batches -> Body] /\ Items = PayloadItems

-----------------------------------------------------------------------------
(* Properties.                                                             *)

\* What customers wrote, read off a payload: the conversation, the message and
\* who may be taken for its writer.  A number that the payload lists as a
\* contact is that contact and nobody else.
WrittenTo(p) ==
  {[conv |-> <<m.phone, m.from>>, id |-> m.id,
    as |-> IF m.from \in Listed(m) THEN {m.from} ELSE Listed(m) \cup {m.from}]
   : m \in {m \in ToSet(p.messages) :
              m.product = "whatsapp" /\ None \notin {m.phone, m.from, m.id}}}
  \cup
  {[conv |-> <<v.recipient, v.sender>>, id |-> v.mid, as |-> {v.sender}]
   : v \in {v \in ToSet(p.messaging) : v.mid # None /\ v.sender \notin Accounts}}

\* What the providers keep to.  An event in which an account is the sender is its
\* echo or lies in its own entry; in the others a customer writes to the account
\* whose entry it is.  An id of an account names one message, which is repeated
\* as it was.
ASSUME ProviderAssumption ==
  /\ \A b \in Batches :
       /\ Payloads[b].object = "whatsapp_business_account" => Payloads[b].messaging = <<>>
       /\ \A v \in ToSet(Payloads[b].messaging) :
            IF v.sender \in Accounts THEN v.echo \/ v.sender = AccountOfEvent(v)
            ELSE ~v.echo /\ v.recipient \in Accounts /\ v.entry \in {None, v.recipient}
  /\ \A b, d \in Batches : \A w \in WrittenTo(Payloads[b]), x \in WrittenTo(Payloads[d]) :
       w.id = x.id /\ w.conv[1] = x.conv[1] => w = x

IsOf(m, w) == m.id = w.id /\ m.conv = w.conv /\ m.account = w.conv[1] /\ m.user \in w.as

\* docs/architecture.md:5: a 200 is given only when all that customers wrote in
\* the payload is in their own conversations and all its receipts have had their
\* effect; and the inbox holds no message a customer did not write, so no echo of
\* the shop's own messages.
PayloadDelivered ==
  /\ \A b \in acked : /\ \A w \in WrittenTo(Payloads[b]) : \E m \in stored : IsOf(m, w)
                      /\ \A i \in ItemsOf(b) : Delivered(i)
  /\ \A m \in stored : \E b \in Batches : \E w \in WrittenTo(Payloads[b]) : IsOf(m, w)
=============================================================================
