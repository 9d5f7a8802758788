------------------------- MODULE Conversations_proofs -------------------------
(***************************************************************************)
(* For any accounts, customers, batches and agents: messages count once, a *)
(* 200 means that the batch is in the hub, and merges lose nobody.         *)
(***************************************************************************)
EXTENDS ConversationsRefinement, FiniteSetTheorems, TLAPS

\* Who was merged had been seen; his customers go on to the contact he is in.
MergedWereKnown == \A p \in Contacts : merged[p] # None => identity[p] # None

SeenIsStored == IsFiniteSet(stored) /\ \A c \in Convs : seen[c] \subseteq StoredIn(c)

\* The event of a message is processed only with the message in the inbox.
ProcessedIsStored ==
  \A b \in Batches : \A n \in DOMAIN Items[b] :
    IsInbound(Items[b][n]) /\ Items[b][n].event \in processed
      => \E m \in stored : SameMessage(m, Items[b][n])

\* What a request has left behind is in the hub, whoever brought it there.
HandledIsDelivered ==
  handler # None =>
    \A n \in DOMAIN Items[handler.batch] :
      n < handler.item => Delivered(Items[handler.batch][n])

\* docs/architecture.md:5: a batch is acknowledged when all of it is in the hub.
AckedIsDelivered == \A b \in acked : \A n \in DOMAIN Items[b] : Delivered(Items[b][n])

Delivery == ProcessedIsStored /\ HandledIsDelivered /\ AckedIsDelivered
People   == MergedWereKnown /\ NoneHidden /\ ConversationFollowsCustomer
Counted  == SeenIsStored /\ UnreadIsUnseen

IInv == TypeOK /\ Delivery /\ People /\ Counted

-----------------------------------------------------------------------------
(* The items.                                                              *)

LEMMA ItemType ==
  ASSUME NEW b \in Batches, NEW n \in DOMAIN Items[b]
  PROVE  IF IsInbound(Items[b][n]) THEN Items[b][n] \in Inbounds ELSE Items[b][n] \in Receipts
<1>1. Items[b] \in Seq(Inbounds \cup Receipts)
  BY ItemsAssumption
<1>2. Items[b][n] \in Inbounds \cup Receipts
  BY <1>1
<1>3. \A x \in Inbounds : "conv" \in DOMAIN x
  BY DEF Inbounds
<1>4. \A x \in Receipts : "conv" \notin DOMAIN x
  BY DEF Receipts
<1> QED
  BY <1>2, <1>3, <1>4 DEF IsInbound

\* The item a request has come to.
LEMMA CurrentType ==
  ASSUME TypeOK, HasItem
  PROVE  /\ handler # None /\ handler \in [batch : Batches, item : Nat \ {0}]
         /\ handler.batch \in Batches /\ handler.item \in DOMAIN Items[handler.batch]
         /\ IF IsInbound(Current) THEN Current \in Inbounds ELSE Current \in Receipts
<1>1. handler # None /\ handler \in [batch : Batches, item : Nat \ {0}]
  BY DEF HasItem, Idle, TypeOK
<1>2. handler.batch \in Batches /\ handler.item \in Nat \ {0}
  BY <1>1
<1>3. Items[handler.batch] \in Seq(Inbounds \cup Receipts)
  BY <1>2, ItemsAssumption
<1>4. handler.item \in DOMAIN Items[handler.batch]
  BY <1>2, <1>3 DEF HasItem
<1> QED
  BY <1>1, <1>2, <1>4, ItemType DEF Current

\* A contact is not nobody.
LEMMA ContactsAreSome == None \notin Contacts
BY AbsentAssumption DEF Contacts

\* What is delivered stays delivered.
LEMMA DeliveredStays ==
  ASSUME stored \subseteq stored', processed \subseteq processed', NEW i, Delivered(i)
  PROVE  Delivered(i)'
BY DEF Delivered, IsInbound, SameMessage

-----------------------------------------------------------------------------
(* The parts of the invariant that a step leaves alone.                    *)

\* A request begins, is given up, or the step is none of the webhook's.
LEMMA DeliveryStays ==
  ASSUME Delivery, UNCHANGED <<stored, processed, acked>>,
         handler' = handler \/ handler' = None \/ \E b : handler' = [batch |-> b, item |-> 1],
         TypeOK, TypeOK'
  PROVE  Delivery'
<1>1. ProcessedIsStored' /\ AckedIsDelivered'
  BY DEF Delivery, ProcessedIsStored, AckedIsDelivered, Delivered, IsInbound, SameMessage
<1>2. HandledIsDelivered'
  <2>1. CASE handler' = handler
    BY <2>1 DEF Delivery, HandledIsDelivered, Delivered, IsInbound, SameMessage
  <2>2. CASE handler' = None
    BY <2>2 DEF HandledIsDelivered
  <2>3. ASSUME handler' # None, NEW b, handler' = [batch |-> b, item |-> 1]
        PROVE  HandledIsDelivered'
    <3>1. handler'.item = 1 /\ handler'.batch = b /\ b \in Batches
      BY <2>3 DEF TypeOK
    <3>2. \A n \in DOMAIN Items[b] : ~(n < 1)
      <4>1. Items[b] \in Seq(Inbounds \cup Receipts)
        BY <3>1, ItemsAssumption
      <4> QED
        BY <4>1
    <3> QED
      BY <3>1, <3>2 DEF HandledIsDelivered
  <2> QED
    BY <2>1, <2>2, <2>3
<1> QED
  BY <1>1, <1>2 DEF Delivery

LEMMA PeopleStay ==
  ASSUME People, UNCHANGED <<stored, identity, contact, merged>>
  PROVE  People'
BY DEF People, MergedWereKnown, NoneHidden, ConversationFollowsCustomer, Live, Exists, StoredIn

LEMMA CountedStays ==
  ASSUME Counted, UNCHANGED <<stored, unread, seen>>
  PROVE  Counted'
BY DEF Counted, SeenIsStored, UnreadIsUnseen, StoredIn, SameMessage

-----------------------------------------------------------------------------
LEMMA InitInv == Init => IInv
<1> SUFFICES ASSUME Init PROVE IInv
  OBVIOUS
<1> USE DEF Init
<1>1. TypeOK
  BY CrashesAssumption DEF TypeOK, Statuses
<1>2. Delivery
  BY DEF Delivery, ProcessedIsStored, HandledIsDelivered, AckedIsDelivered
<1>3. People
  BY DEF People, MergedWereKnown, NoneHidden, ConversationFollowsCustomer, Exists
<1>4. Counted
  <2>1. \A c \in Convs : StoredIn(c) \ seen[c] = {}
    BY DEF StoredIn
  <2> QED
    BY <2>1, FS_EmptySet DEF Counted, SeenIsStored, UnreadIsUnseen, StoredIn
<1> QED
  BY <1>1, <1>2, <1>3, <1>4 DEF IInv

-----------------------------------------------------------------------------
(* Webhook requests.                                                       *)

LEMMA BeginInv == ASSUME IInv, NEW b \in Batches, Begin(b) PROVE IInv'
<1>1. /\ handler' = [batch |-> b, item |-> 1]
      /\ UNCHANGED <<known, sent, inbox, people, acked, seen, crashes>>
  BY DEF Begin
<1>2. TypeOK'
  BY <1>1 DEF IInv, TypeOK, inbox, people
<1> QED
  BY <1>1, <1>2, DeliveryStays, PeopleStay, CountedStays DEF IInv, inbox, people

\* An item is handled: its event is processed and what it brings is in the inbox.
LEMMA ItemHandled ==
  ASSUME IInv, HasItem, Advance, NEW i, i = Current,
         processed' = processed \cup {i.event}, stored \subseteq stored', acked' = acked,
         Delivered(i)'
  PROVE  Delivery'
<1> USE DEF IInv
<1>1. /\ handler # None /\ handler \in [batch : Batches, item : Nat \ {0}]
      /\ handler.batch \in Batches /\ handler.item \in DOMAIN Items[handler.batch]
  BY CurrentType
<1>2. processed \subseteq processed'
  OBVIOUS
<1>3. handler'.batch = handler.batch /\ handler'.item = handler.item + 1
  BY <1>1 DEF Advance
<1>4. ProcessedIsStored'
  <2> SUFFICES ASSUME NEW b \in Batches, NEW n \in DOMAIN Items[b],
                      IsInbound(Items[b][n]), Items[b][n].event \in processed'
               PROVE  \E m \in stored' : SameMessage(m, Items[b][n])
    BY DEF ProcessedIsStored, IsInbound, SameMessage
  <2>1. CASE Items[b][n].event \in processed
    BY <2>1 DEF Delivery, ProcessedIsStored
  <2>2. CASE Items[b][n].event = i.event
    <3>1. IsInbound(i) /\ Items[b][n].id = i.id /\ Items[b][n].account = i.account
      BY <2>2, <1>1, EventsAssumption DEF Current, IsInbound
    <3>2. PICK m \in stored' : m.id = i.id /\ m.account = i.account
      BY <3>1 DEF Delivered, IsInbound, SameMessage
    <3> QED
      BY <3>1, <3>2 DEF SameMessage
  <2> QED
    BY <2>1, <2>2
<1>5. HandledIsDelivered'
  <2> SUFFICES ASSUME NEW b, b = handler.batch, NEW n \in DOMAIN Items[b],
                      n < handler.item + 1
               PROVE  Delivered(Items[b][n])'
    BY <1>3 DEF HandledIsDelivered
  <2>1. n \in Nat /\ handler.item \in Nat
    <3>1. Items[handler.batch] \in Seq(Inbounds \cup Receipts)
      BY <1>1, ItemsAssumption
    <3> QED
      BY <3>1, <1>1
  <2>2. CASE n < handler.item
    <3>1. Delivered(Items[b][n])
      BY <2>2, <1>1 DEF Delivery, HandledIsDelivered
    <3> QED
      BY <3>1, <1>2, DeliveredStays
  <2>3. CASE n = handler.item
    BY <2>3 DEF Current
  <2> QED
    BY <2>1, <2>2, <2>3
<1>6. AckedIsDelivered'
  BY <1>2, DeliveredStays DEF Delivery, AckedIsDelivered
<1> QED
  BY <1>4, <1>5, <1>6 DEF Delivery

LEMMA AdvanceType ==
  ASSUME TypeOK, HasItem, Advance
  PROVE  handler' \in [batch : Batches, item : Nat \ {0}]
BY CurrentType DEF Advance

LEMMA IngestDuplicateInv == ASSUME IInv, IngestDuplicate PROVE IInv'
<1> USE DEF IInv
<1>1. /\ HasItem /\ IsInbound(Current) /\ Duplicate(Current)
      /\ processed' = processed \cup {Current.event} /\ Advance
      /\ UNCHANGED <<known, sent, stored, identity, contact, status, unread, people, acked, seen,
                     crashes>>
  BY DEF IngestDuplicate
<1>2. /\ handler.batch \in Batches /\ handler.item \in DOMAIN Items[handler.batch]
      /\ Current \in Inbounds
  BY <1>1, CurrentType
<1>3. TypeOK'
  BY <1>1, <1>2, AdvanceType DEF TypeOK, people, Inbounds
<1>4. \A i : i = Current => Delivered(i)'
  <2>1. \E m \in stored : SameMessage(m, Current)
    <3>1. CASE Current.event \in processed
      BY <3>1, <1>1, <1>2 DEF Delivery, ProcessedIsStored, Current
    <3>2. CASE \E m \in stored : m.id = Current.id /\ m.account = Current.account
      BY <3>2 DEF SameMessage
    <3> QED
      BY <3>1, <3>2, <1>1 DEF Duplicate
  <2>2. Delivered(Current)
    BY <2>1, <1>1 DEF Delivered
  <2> QED
    BY <2>2, <1>1, DeliveredStays
<1>5. Delivery'
  BY <1>1, <1>4, ItemHandled
<1> QED
  BY <1>1, <1>3, <1>5, PeopleStay, CountedStays DEF people

\* The writer's contact is live, and what is written goes to it or to the
\* contact that the conversation is with.
LEMMA IngestNewPeople ==
  ASSUME TypeOK, People, IngestNew, Current \in Inbounds
  PROVE  People'
<1> DEFINE i == Current
           k == <<i.account, i.user>>
           p == OwnerOfIdentity(i)
<1>1. /\ identity' = [identity EXCEPT ![k] = p]
      /\ contact'  = [contact EXCEPT ![i.conv] = IF Exists(i.conv) THEN @ ELSE p]
      /\ stored'   = stored \cup {i} /\ merged' = merged
  BY DEF IngestNew, people
<1>2. k \in Contacts /\ i.conv \in Convs /\ p = IF identity[k] = None THEN k ELSE identity[k]
  BY DEF Contacts, Inbounds, OwnerOfIdentity
<1> HIDE DEF i, k, p
<1>3. p \in Contacts /\ p # None /\ merged[p] = None
  BY <1>2, ContactsAreSome DEF TypeOK, People, MergedWereKnown, NoneHidden, Live
<1>4. /\ identity' \in [Contacts -> Contacts \cup {None}]
      /\ identity'[k] = p /\ \A q \in Contacts : identity[q] # None => identity'[q] = identity[q]
      /\ \A q \in Contacts : q # k => identity'[q] = identity[q]
  BY <1>1, <1>2, <1>3 DEF TypeOK
<1>5. \A c \in Convs : contact'[c] = IF c = i.conv /\ ~Exists(c) THEN p ELSE contact[c]
  BY <1>1, <1>2 DEF TypeOK
<1>6. identity'[p] # None
  BY <1>2, <1>3, <1>4 DEF People, NoneHidden, Live
<1>7. MergedWereKnown'
  BY <1>1, <1>3, <1>4 DEF People, MergedWereKnown
<1>8. NoneHidden'
  <2> DEFINE LiveNow(q) == identity'[q] # None /\ merged'[q] = None
  <2>1. \A q \in Contacts : Live(q) => LiveNow(q)
    BY <1>1, <1>4 DEF Live
  <2>2. LiveNow(p)
    BY <1>1, <1>3, <1>6 DEF Live
  <2>3. ASSUME NEW c \in Convs, contact'[c] # None PROVE LiveNow(contact'[c])
    <3>1. CASE c = i.conv /\ ~Exists(c)
      BY <3>1, <2>2, <1>5 DEF Live
    <3>2. CASE ~(c = i.conv /\ ~Exists(c))
      <4>1. contact'[c] = contact[c] /\ contact[c] \in Contacts /\ Live(contact[c])
        BY <3>2, <2>3, <1>5 DEF TypeOK, People, NoneHidden, Exists
      <4> QED
        BY <4>1, <2>1 DEF Live
    <3> QED
      BY <3>1, <3>2
  <2>4. ASSUME NEW q \in Contacts, identity'[q] # None PROVE LiveNow(identity'[q])
    <3>1. CASE q = k
      BY <3>1, <2>2, <1>4 DEF Live
    <3>2. CASE q # k
      <4>1. identity'[q] = identity[q] /\ identity[q] \in Contacts /\ Live(identity[q])
        BY <3>2, <2>4, <1>4 DEF TypeOK, People, NoneHidden
      <4> QED
        BY <4>1, <2>1 DEF Live
    <3> QED
      BY <3>1, <3>2
  <2> QED
    BY <2>3, <2>4 DEF NoneHidden, Exists, Live
<1>9. ConversationFollowsCustomer'
  <2> SUFFICES ASSUME NEW c \in Convs, contact'[c] # None
               PROVE  \E m \in stored' : m.conv = c /\ contact'[c] = identity'[<<m.account, m.user>>]
    BY DEF ConversationFollowsCustomer, Exists, StoredIn
  <2>1. CASE c = i.conv /\ ~Exists(c)
    BY <2>1, <1>1, <1>4, <1>5 DEF k
  <2>2. CASE ~(c = i.conv /\ ~Exists(c))
    <3>1. contact'[c] = contact[c]
      BY <2>2, <1>5
    <3>2. PICK m \in stored : m.conv = c /\ contact[c] = identity[<<m.account, m.user>>]
      BY <3>1 DEF People, ConversationFollowsCustomer, Exists, StoredIn
    <3>3. <<m.account, m.user>> \in Contacts
      BY DEF TypeOK, Inbounds, Contacts
    <3> QED
      BY <3>1, <3>2, <3>3, <1>1, <1>4
  <2> QED
    BY <2>1, <2>2
<1> QED
  BY <1>7, <1>8, <1>9 DEF People

\* The message is a new one, and one more nobody has seen.
LEMMA IngestNewCounted ==
  ASSUME TypeOK, Counted, IngestNew, Current \in Inbounds
  PROVE  Counted'
<1> DEFINE i == Current
<1>1. /\ stored' = stored \cup {i} /\ unread' = [unread EXCEPT ![i.conv] = @ + 1] /\ seen' = seen
      /\ \A m \in stored : ~(m.id = i.id /\ m.account = i.account)
      /\ i \in Inbounds
  BY DEF IngestNew, Duplicate
<1> HIDE DEF i
<1>2. i \notin stored
  BY <1>1
<1>3. SeenIsStored'
  BY <1>1, FS_AddElement DEF Counted, SeenIsStored, StoredIn
<1>4. \A m, n \in stored' : SameMessage(m, n) => m = n
  BY <1>1 DEF Counted, UnreadIsUnseen, SameMessage
<1>5. ASSUME NEW c \in Convs
      PROVE  unread'[c] = Cardinality({m \in stored' : m.conv = c} \ seen[c])
  <2> DEFINE old == StoredIn(c) \ seen[c]
  <2>1. IsFiniteSet(old) /\ unread[c] = Cardinality(old) /\ seen[c] \subseteq StoredIn(c)
    <3>1. old \subseteq stored
      BY DEF StoredIn
    <3> QED
      BY <3>1, FS_Subset DEF Counted, SeenIsStored, UnreadIsUnseen
  <2>2. CASE c = i.conv
    <3>1. {m \in stored' : m.conv = c} \ seen[c] = old \cup {i} /\ i \notin old
      BY <2>1, <2>2, <1>1, <1>2 DEF StoredIn
    <3>2. Cardinality(old \cup {i}) = Cardinality(old) + 1
      BY <2>1, <3>1, FS_AddElement
    <3>3. unread'[c] = unread[c] + 1
      BY <2>2, <1>1 DEF TypeOK
    <3> QED
      BY <2>1, <3>1, <3>2, <3>3
  <2>3. CASE c # i.conv
    <3>1. {m \in stored' : m.conv = c} \ seen[c] = old
      BY <2>3, <1>1 DEF StoredIn
    <3>2. unread'[c] = unread[c]
      BY <2>3, <1>1 DEF TypeOK
    <3> QED
      BY <2>1, <3>1, <3>2
  <2> QED
    BY <2>2, <2>3
<1> QED
  BY <1>1, <1>3, <1>4, <1>5 DEF Counted, UnreadIsUnseen, StoredIn, SameMessage

LEMMA IngestNewInv == ASSUME IInv, IngestNew PROVE IInv'
<1> USE DEF IInv
<1>1. /\ HasItem /\ IsInbound(Current) /\ Advance
      /\ stored' = stored \cup {Current} /\ processed' = processed \cup {Current.event}
      /\ UNCHANGED <<known, sent, people, acked, seen, crashes>>
  BY DEF IngestNew
<1>2. Current \in Inbounds
  BY <1>1, CurrentType
<1>3. Current.account \in Accounts /\ Current.user \in Users /\ Current.conv \in Convs
      /\ Current.event \in Events /\ <<Current.account, Current.user>> \in Contacts
  BY <1>2 DEF Inbounds, Contacts
<1>4. OwnerOfIdentity(Current) \in Contacts
  BY <1>3 DEF OwnerOfIdentity, TypeOK, Contacts
<1>5. TypeOK'
  <2>1. identity' \in [Contacts -> Contacts \cup {None}]
    BY <1>3, <1>4 DEF TypeOK, IngestNew
  <2>2. contact' \in [Convs -> Contacts \cup {None}]
    BY <1>3, <1>4 DEF TypeOK, IngestNew
  <2>3. status' \in [Convs -> Statuses]
    <3>1. status[Current.conv] \in Statuses
      BY <1>3 DEF TypeOK
    <3>2. Reopened(status[Current.conv]) \in Statuses
      BY <3>1 DEF Reopened, Statuses
    <3> QED
      BY <3>2 DEF TypeOK, IngestNew
  <2>4. unread' \in [Convs -> Nat]
    BY <1>3 DEF TypeOK, IngestNew
  <2> QED
    BY <1>1, <1>2, <1>3, <2>1, <2>2, <2>3, <2>4, AdvanceType DEF TypeOK, people
<1>6. \A i : i = Current => Delivered(i)'
  BY <1>1 DEF Delivered, IsInbound, SameMessage
<1>7. Delivery'
  BY <1>1, <1>6, ItemHandled
<1> QED
  BY <1>2, <1>5, <1>7, IngestNewPeople, IngestNewCounted

LEMMA ApplyStatusInv == ASSUME IInv, ApplyStatus PROVE IInv'
<1> USE DEF IInv
<1>1. /\ HasItem /\ ~IsInbound(Current)
      /\ processed' = processed \cup {Current.event} /\ Advance
      /\ UNCHANGED <<known, sent, stored, identity, contact, status, unread, people, acked, seen,
                     crashes>>
  BY DEF ApplyStatus
<1>2. Current \in Receipts
  BY <1>1, CurrentType
<1>3. TypeOK'
  BY <1>1, <1>2, AdvanceType DEF TypeOK, people, Receipts
<1>4. \A i : i = Current => Delivered(i)'
  BY <1>1 DEF Delivered, IsInbound
<1>5. Delivery'
  BY <1>1, <1>4, ItemHandled
<1> QED
  BY <1>1, <1>3, <1>5, PeopleStay, CountedStays DEF people

LEMMA RejectInv == ASSUME IInv, Reject \/ Crash PROVE IInv'
<1>1. /\ handler' = None /\ crashes' \in 0..MaxCrashes
      /\ UNCHANGED <<known, sent, inbox, people, acked, seen>>
  BY CrashesAssumption DEF Reject, Crash, IInv, TypeOK
<1>2. TypeOK'
  BY <1>1 DEF IInv, TypeOK, inbox, people
<1> QED
  BY <1>1, <1>2, DeliveryStays, PeopleStay, CountedStays DEF IInv, inbox, people

\* The last item was handled, so all are delivered.
LEMMA AcknowledgeInv == ASSUME IInv, Acknowledge PROVE IInv'
<1> USE DEF IInv
<1>1. /\ handler # None /\ ~HasItem /\ acked' = acked \cup {handler.batch} /\ handler' = None
      /\ UNCHANGED <<known, sent, inbox, people, seen, crashes>>
  BY DEF Acknowledge, Idle
<1>2. handler.batch \in Batches /\ handler.item \in Nat
  BY <1>1 DEF TypeOK
<1>3. TypeOK'
  BY <1>1, <1>2 DEF TypeOK, inbox, people
<1>4. \A n \in DOMAIN Items[handler.batch] : Delivered(Items[handler.batch][n])
  <2>1. Items[handler.batch] \in Seq(Inbounds \cup Receipts)
    BY <1>2, ItemsAssumption
  <2>2. \A n \in DOMAIN Items[handler.batch] : n < handler.item
    BY <1>1, <1>2, <2>1 DEF HasItem, Idle
  <2> QED
    BY <1>1, <2>2 DEF Delivery, HandledIsDelivered
<1>5. Delivery'
  <2>1. ProcessedIsStored' /\ HandledIsDelivered'
    BY <1>1 DEF Delivery, ProcessedIsStored, HandledIsDelivered, SameMessage, IsInbound, inbox
  <2>2. \A i : Delivered(i) => Delivered(i)'
    BY <1>1, DeliveredStays DEF inbox
  <2>3. AckedIsDelivered'
    BY <1>1, <1>4, <2>2 DEF Delivery, AckedIsDelivered
  <2> QED
    BY <2>1, <2>3 DEF Delivery
<1> QED
  BY <1>1, <1>3, <1>5, PeopleStay, CountedStays DEF inbox, people

-----------------------------------------------------------------------------
(* The agents and the other components.                                    *)

\* An account is created, an id recorded, a reply queued, a status set.
LEMMA SmallStepInv ==
  ASSUME IInv,
         \/ \E a \in Accounts : AccountCreated(a)
         \/ \E x \in Outgoing : SendRecorded(x)
         \/ \E c \in Convs : ReplyQueued(c)
         \/ \E c \in Convs, t \in Settable : SetStatus(c, t)
  PROVE  IInv'
<1> USE DEF IInv
<1>1. UNCHANGED <<processed, stored, identity, contact, unread, people, handler, acked, seen, crashes>>
  BY DEF AccountCreated, SendRecorded, ReplyQueued, SetStatus, inbox
<1>2. known' \subseteq Accounts /\ sent' \subseteq Outgoing
  BY DEF AccountCreated, SendRecorded, ReplyQueued, SetStatus, TypeOK
<1>3. status' \in [Convs -> Statuses]
  <2>1. Settable \subseteq Statuses
    BY SettableAssumption DEF Statuses
  <2>2. "WAITING_CUSTOMER" \in Statuses
    BY DEF Statuses
  <2> QED
    BY <2>1, <2>2 DEF AccountCreated, SendRecorded, ReplyQueued, SetStatus, inbox, TypeOK
<1>4. TypeOK'
  BY <1>1, <1>2, <1>3 DEF TypeOK, people
<1> QED
  BY <1>1, <1>4, DeliveryStays, PeopleStay, CountedStays DEF people

\* Everything in the conversation has been shown.
LEMMA OpenInv == ASSUME IInv, NEW c \in Convs, Open(c) PROVE IInv'
<1> USE DEF IInv
<1>1. /\ unread' = [unread EXCEPT ![c] = 0] /\ seen' = [seen EXCEPT ![c] = StoredIn(c)]
      /\ UNCHANGED <<known, sent, processed, stored, identity, contact, status, people, handler,
                     acked, crashes>>
  BY DEF Open
<1>2. StoredIn(c) \in SUBSET Inbounds
  BY DEF StoredIn, TypeOK
<1>3. TypeOK'
  BY <1>1, <1>2 DEF TypeOK, people
<1>4. Counted'
  <2>1. \A d \in Convs : /\ unread'[d] = IF d = c THEN 0 ELSE unread[d]
                         /\ seen'[d] = IF d = c THEN StoredIn(c) ELSE seen[d]
    BY <1>1 DEF TypeOK
  <2>2. SeenIsStored'
    BY <1>1, <2>1 DEF Counted, SeenIsStored, StoredIn
  <2>3. ASSUME NEW d \in Convs PROVE unread'[d] = Cardinality(StoredIn(d) \ seen'[d])
    <3>1. CASE d = c
      <4>1. StoredIn(d) \ seen'[d] = {}
        BY <3>1, <2>1
      <4> QED
        BY <4>1, <3>1, <2>1, FS_EmptySet
    <3>2. CASE d # c
      BY <3>2, <2>1 DEF Counted, UnreadIsUnseen
    <3> QED
      BY <3>1, <3>2
  <2> QED
    BY <1>1, <2>2, <2>3 DEF Counted, UnreadIsUnseen, StoredIn, SameMessage
<1> QED
  BY <1>1, <1>3, <1>4, DeliveryStays, PeopleStay DEF people

\* What was with p is with q, and p is nobody's contact any more.
LEMMA MergeInv ==
  ASSUME IInv, NEW u \in Agents, NEW p \in Contacts, NEW q \in Contacts, Merge(u, p, q)
  PROVE  IInv'
<1> USE DEF IInv
<1>1. /\ p # q /\ identity[p] # None /\ merged[p] = None /\ identity[q] # None /\ merged[q] = None
      /\ contact' = [c \in Convs |-> IF contact[c] = p THEN q ELSE contact[c]]
      /\ identity' = [i \in Contacts |-> IF i \in MovedIdentities(p) THEN q ELSE identity[i]]
      /\ merged' = [merged EXCEPT ![p] = q]
      /\ merges' = Append(merges, [source |-> p, target |-> q, convs |-> ConvsOf(p),
                                   identities |-> {i \in Contacts : identity[i] = p}])
      /\ UNCHANGED <<known, sent, processed, stored, status, unread, handler, acked, seen, crashes>>
  BY DEF Merge, Mergeable, Live
<1>2. /\ \A i \in Contacts : identity'[i] = IF identity[i] = p THEN q ELSE identity[i]
      /\ \A c \in Convs : contact'[c] = IF contact[c] = p THEN q ELSE contact[c]
      /\ \A i \in Contacts : merged'[i] = IF i = p THEN q ELSE merged[i]
  BY <1>1 DEF MovedIdentities, TypeOK
<1>3. TypeOK'
  <2>1. [source |-> p, target |-> q, convs |-> ConvsOf(p),
         identities |-> {i \in Contacts : identity[i] = p}]
          \in [source : Contacts, target : Contacts, convs : SUBSET Convs, identities : SUBSET Contacts]
    BY DEF ConvsOf
  <2>2. merges' \in Seq([source : Contacts, target : Contacts,
                         convs : SUBSET Convs, identities : SUBSET Contacts])
    BY <1>1, <2>1 DEF TypeOK
  <2>3. /\ identity' \in [Contacts -> Contacts \cup {None}]
        /\ contact' \in [Convs -> Contacts \cup {None}]
        /\ merged' \in [Contacts -> Contacts \cup {None}]
    BY <1>1 DEF TypeOK
  <2> QED
    BY <1>1, <2>2, <2>3 DEF TypeOK
<1>4. p # None /\ q # None
  BY ContactsAreSome
<1>5. People'
  <2> DEFINE LiveNow(r) == identity'[r] # None /\ merged'[r] = None
  <2>1. MergedWereKnown'
    BY <1>1, <1>2, <1>4 DEF People, MergedWereKnown
  <2>2. LiveNow(q) /\ \A r \in Contacts : r # p /\ Live(r) => LiveNow(r)
    BY <1>1, <1>2, <1>4 DEF Live
  <2>3. ASSUME NEW c \in Convs, contact'[c] # None PROVE LiveNow(contact'[c])
    <3>1. CASE contact[c] = p
      BY <3>1, <1>2, <2>2
    <3>2. CASE contact[c] # p
      <4>1. contact'[c] = contact[c] /\ contact[c] \in Contacts /\ Live(contact[c])
        BY <3>2, <2>3, <1>2 DEF TypeOK, People, NoneHidden, Exists
      <4> QED
        BY <4>1, <3>2, <2>2
    <3> QED
      BY <3>1, <3>2
  <2>4. ASSUME NEW i \in Contacts, identity'[i] # None PROVE LiveNow(identity'[i])
    <3>1. CASE identity[i] = p
      BY <3>1, <1>2, <2>2
    <3>2. CASE identity[i] # p
      <4>1. identity'[i] = identity[i] /\ identity[i] \in Contacts /\ Live(identity[i])
        BY <3>2, <2>4, <1>2 DEF TypeOK, People, NoneHidden
      <4> QED
        BY <4>1, <3>2, <2>2
    <3> QED
      BY <3>1, <3>2
  <2>5. NoneHidden'
    BY <2>3, <2>4 DEF NoneHidden, Exists, Live
  <2>6. ConversationFollowsCustomer'
    <3> SUFFICES ASSUME NEW c \in Convs, contact'[c] # None
                 PROVE  \E m \in stored : m.conv = c /\ contact'[c] = identity'[<<m.account, m.user>>]
      BY <1>1 DEF ConversationFollowsCustomer, Exists, StoredIn
    <3>1. contact[c] # None
      BY <1>2, <1>4
    <3>2. PICK m \in stored : m.conv = c /\ contact[c] = identity[<<m.account, m.user>>]
      BY <3>1 DEF People, ConversationFollowsCustomer, Exists, StoredIn
    <3>3. <<m.account, m.user>> \in Contacts
      BY DEF TypeOK, Inbounds, Contacts
    <3> QED
      BY <3>2, <3>3, <1>2
  <2> QED
    BY <2>1, <2>5, <2>6 DEF People
<1> QED
  BY <1>1, <1>3, <1>5, DeliveryStays, CountedStays

LEMMA StepInv == IInv /\ [Next]_vars => IInv'
<1> SUFFICES ASSUME IInv, [Next]_vars PROVE IInv'
  OBVIOUS
<1>1. CASE \E b \in Batches : Begin(b)
  BY <1>1, BeginInv
<1>2. CASE HandlerStep \/ Crash
  BY <1>2, IngestDuplicateInv, IngestNewInv, ApplyStatusInv, RejectInv, AcknowledgeInv DEF HandlerStep
<1>3. CASE \/ \E a \in Accounts : AccountCreated(a)
           \/ \E x \in Outgoing : SendRecorded(x)
           \/ \E c \in Convs : ReplyQueued(c)
           \/ \E c \in Convs, t \in Settable : SetStatus(c, t)
  BY <1>3, SmallStepInv
<1>4. CASE \E c \in Convs : Open(c)
  BY <1>4, OpenInv
<1>5. CASE \E u \in Agents, p, q \in Contacts : Merge(u, p, q)
  BY <1>5, MergeInv
<1>6. CASE UNCHANGED vars
  <2> USE <1>6 DEF IInv, vars, inbox, people
  <2>1. TypeOK'
    BY DEF TypeOK
  <2> QED
    BY <2>1, DeliveryStays, PeopleStay, CountedStays
<1> QED
  BY <1>1, <1>2, <1>3, <1>4, <1>5, <1>6 DEF Next

-----------------------------------------------------------------------------
(* Snapshots of merges.                                                    *)

\* The customer a contact is named after is with it until the contact is merged.
LiveIsItself == \A p \in Contacts : Live(p) => identity[p] = p

\* merged_into_contact_id leads to the contact the identities were moved to.
ChainLeads == \A p \in Contacts : identity[p] # None => Leads(p, identity[p])

\* What a merge moved is still together, with the customer of its target.
SnapshotsTogether ==
  \A k \in DOMAIN merges :
    LET e == merges[k] IN
    /\ identity[e.target] # None
    /\ \A c \in e.convs : contact[c] = identity[e.target]
    /\ \A p \in e.identities : identity[p] = identity[e.target]

SInv == LiveIsItself /\ ChainLeads /\ SnapshotsTogether

\* What a snapshot lists are rows.
LEMMA SnapshotType ==
  ASSUME TypeOK, NEW k \in DOMAIN merges
  PROVE  /\ merges[k].target \in Contacts
         /\ merges[k].convs \subseteq Convs /\ merges[k].identities \subseteq Contacts
<1> DEFINE Snapshot == [source : Contacts, target : Contacts,
                        convs : SUBSET Convs, identities : SUBSET Contacts]
<1>1. merges \in Seq(Snapshot)
  BY DEF TypeOK
<1>2. merges[k] \in Snapshot
  <2> HIDE DEF Snapshot
  <2> QED
    BY <1>1
<1> QED
  BY <1>2

LEMMA InitSnapshots == Init => SInv
<1> SUFFICES ASSUME Init PROVE SInv
  OBVIOUS
<1> USE DEF Init
<1>1. LiveIsItself /\ ChainLeads
  BY DEF LiveIsItself, ChainLeads, Live
<1>2. SnapshotsTogether
  BY DEF SnapshotsTogether
<1> QED
  BY <1>1, <1>2 DEF SInv

\* A known customer stays where he is; a new one is with a contact of his own.
LEMMA IngestNewSnapshots == ASSUME IInv, SInv, IngestNew PROVE SInv'
<1> USE DEF IInv, SInv
<1> DEFINE p == <<Current.account, Current.user>>
<1>1. /\ identity' = [identity EXCEPT ![p] = OwnerOfIdentity(Current)]
      /\ contact' = [contact EXCEPT ![Current.conv] =
                       IF Exists(Current.conv) THEN @ ELSE OwnerOfIdentity(Current)]
      /\ UNCHANGED <<merged, merges>>
  BY DEF IngestNew, people
<1>2. p \in Contacts /\ Current.conv \in Convs
  BY CurrentType DEF IngestNew, Inbounds, Contacts
<1>3. \A r \in Contacts : /\ identity[r] # None => identity'[r] = identity[r]
                          /\ r # p => identity'[r] = identity[r]
  BY <1>1, <1>2 DEF OwnerOfIdentity, TypeOK
<1>4. identity[p] = None => identity'[p] = p /\ merged[p] = None
  BY <1>1, <1>2 DEF OwnerOfIdentity, TypeOK, People, MergedWereKnown
<1>5. \A c \in Convs : contact[c] # None => contact'[c] = contact[c]
  BY <1>1, <1>2 DEF Exists, TypeOK
<1>6. LiveIsItself'
  BY <1>1, <1>3, <1>4 DEF LiveIsItself, Live
<1>7. ChainLeads'
  <2> SUFFICES ASSUME NEW r \in Contacts, identity'[r] # None PROVE Leads(r, identity'[r])
    BY <1>1 DEF ChainLeads, Leads
  <2>1. CASE identity[r] # None
    BY <2>1, <1>3 DEF ChainLeads
  <2>2. CASE identity[r] = None
    <3>1. r = p /\ identity'[r] = r
      BY <2>2, <1>3, <1>4
    <3> QED
      BY <3>1 DEF Leads
  <2> QED
    BY <2>1, <2>2
<1>8. SnapshotsTogether'
  <2> SUFFICES ASSUME NEW k \in DOMAIN merges
               PROVE  /\ identity'[merges[k].target] # None
                      /\ \A c \in merges[k].convs : contact'[c] = identity'[merges[k].target]
                      /\ \A i \in merges[k].identities : identity'[i] = identity'[merges[k].target]
    BY <1>1 DEF SnapshotsTogether
  <2>1. /\ merges[k].target \in Contacts
        /\ merges[k].convs \subseteq Convs /\ merges[k].identities \subseteq Contacts
    BY SnapshotType
  <2>2. /\ identity[merges[k].target] # None
        /\ \A c \in merges[k].convs : contact[c] = identity[merges[k].target]
        /\ \A i \in merges[k].identities : identity[i] = identity[merges[k].target]
    BY DEF SnapshotsTogether
  <2> QED
    BY <2>1, <2>2, <1>3, <1>5
<1> QED
  BY <1>6, <1>7, <1>8

\* All that was with p is with q, and the chains that ended in p end in q.
LEMMA MergeSnapshots ==
  ASSUME IInv, SInv, NEW u \in Agents, NEW p \in Contacts, NEW q \in Contacts, Merge(u, p, q)
  PROVE  SInv'
<1> USE DEF IInv, SInv
<1> DEFINE new == [source |-> p, target |-> q, convs |-> ConvsOf(p),
                   identities |-> {i \in Contacts : identity[i] = p}]
<1>1. p # q /\ Live(p) /\ Live(q) /\ merges' = Append(merges, new)
  BY DEF Merge, Mergeable
<1>2. /\ \A i \in Contacts : identity'[i] = IF identity[i] = p THEN q ELSE identity[i]
      /\ \A c \in Convs : contact'[c] = IF contact[c] = p THEN q ELSE contact[c]
      /\ \A i \in Contacts : merged'[i] = IF i = p THEN q ELSE merged[i]
  BY DEF Merge, MovedIdentities, TypeOK
<1>3. identity[p] = p /\ identity[q] = q /\ merged[p] = None /\ p # None /\ q # None
  BY <1>1, ContactsAreSome DEF LiveIsItself, Live
<1>4. LiveIsItself'
  BY <1>2, <1>3 DEF LiveIsItself, Live
<1>5. ChainLeads'
  <2> SUFFICES ASSUME NEW r \in Contacts, identity'[r] # None,
                      NEW S \in SUBSET Contacts, r \in S,
                      \A x \in S : merged'[x] # None => merged'[x] \in S
               PROVE  identity'[r] \in S
    BY DEF ChainLeads, Leads
  <2>1. identity[r] # None
    BY <1>2, <1>3
  <2>2. \A x \in S : merged[x] # None => merged[x] \in S
    BY <1>2, <1>3
  <2>3. identity[r] \in S
    BY <2>1, <2>2 DEF ChainLeads, Leads
  <2>4. identity[r] = p => q \in S
    BY <2>3, <1>2, <1>3
  <2> QED
    BY <2>3, <2>4, <1>2
<1>6. SnapshotsTogether'
  <2> DEFINE Together(e) == /\ identity'[e.target] # None
                            /\ \A c \in e.convs : contact'[c] = identity'[e.target]
                            /\ \A i \in e.identities : identity'[i] = identity'[e.target]
  <2>1. Together(new)
    BY <1>2, <1>3 DEF ConvsOf
  <2>2. ASSUME NEW k \in DOMAIN merges PROVE Together(merges[k])
    <3>1. /\ merges[k].target \in Contacts
          /\ merges[k].convs \subseteq Convs /\ merges[k].identities \subseteq Contacts
      BY SnapshotType
    <3>2. /\ identity[merges[k].target] # None
          /\ \A c \in merges[k].convs : contact[c] = identity[merges[k].target]
          /\ \A i \in merges[k].identities : identity[i] = identity[merges[k].target]
      BY DEF SnapshotsTogether
    <3> QED
      BY <3>1, <3>2, <1>2, <1>3
  <2>3. \A k \in DOMAIN merges' : \/ merges'[k] = new
                                  \/ k \in DOMAIN merges /\ merges'[k] = merges[k]
    BY <1>1 DEF TypeOK
  <2> HIDE DEF Together, new
  <2>4. \A k \in DOMAIN merges' : Together(merges'[k])
    BY <2>1, <2>2, <2>3
  <2> QED
    BY <2>4 DEF SnapshotsTogether, Together
<1> QED
  BY <1>4, <1>5, <1>6

LEMMA StepSnapshots == IInv /\ SInv /\ [Next]_vars => SInv'
<1> SUFFICES ASSUME IInv, SInv, [Next]_vars PROVE SInv'
  OBVIOUS
<1>1. CASE UNCHANGED <<identity, contact, merged, merges>>
  BY <1>1 DEF SInv, LiveIsItself, ChainLeads, SnapshotsTogether, Live, Leads
<1>2. CASE IngestNew
  BY <1>2, IngestNewSnapshots
<1>3. CASE \E u \in Agents, p, q \in Contacts : Merge(u, p, q)
  BY <1>3, MergeSnapshots
<1> QED
  BY <1>1, <1>2, <1>3 DEF Next, Begin, HandlerStep, IngestDuplicate, ApplyStatus, Reject,
     Acknowledge, Crash, AccountCreated, SendRecorded, Open, ReplyQueued, SetStatus,
     inbox, people, vars

-----------------------------------------------------------------------------
(* The theorems.                                                           *)

\* Every reachable state satisfies the inductive invariant.
THEOREM Inductive == Spec => []IInv
BY InitInv, StepInv, PTL DEF Spec

\* Rows, snapshots and requests are always of their types.
THEOREM TypeCorrect == Spec => []TypeOK
<1>1. IInv => TypeOK
  BY DEF IInv
<1> QED
  BY <1>1, Inductive, PTL

\* A message that comes again, in another batch or under another event, counts
\* once, and the counter is the number of messages no agent has been shown.
THEOREM CountsOnce == Spec => []UnreadIsUnseen
<1>1. IInv => UnreadIsUnseen
  BY DEF IInv, Counted
<1> QED
  BY <1>1, Inductive, PTL

\* A batch that got a 200 is in the hub, item by item, whatever of it earlier
\* requests committed before they were rejected or cut by a crash.
THEOREM AcknowledgedIsDelivered == Spec => []AckedIsDelivered
<1>1. IInv => AckedIsDelivered
  BY DEF IInv, Delivery
<1> QED
  BY <1>1, Inductive, PTL

\* Neither merges nor messages after them leave anything with a merged contact.
THEOREM NobodyHidden == Spec => []NoneHidden
<1>1. IInv => NoneHidden
  BY DEF IInv, People
<1> QED
  BY <1>1, Inductive, PTL

\* A conversation stays with the contact of somebody who wrote in it.
THEOREM FollowsCustomer == Spec => []ConversationFollowsCustomer
<1>1. IInv => ConversationFollowsCustomer
  BY DEF IInv, People
<1> QED
  BY <1>1, Inductive, PTL

\* Whom an agent has recognised as one person stays one person.
THEOREM OnePersonStaysOne == Spec => NeverSplit
<1> DEFINE Kept == \A p, q \in Contacts :
             identity[p] # None /\ identity[p] = identity[q] => identity'[p] = identity'[q]
<1>1. IInv /\ [Next]_vars => [Kept]_vars
  <2> SUFFICES ASSUME IInv, Next PROVE Kept
    OBVIOUS
  <2>1. CASE UNCHANGED identity
    BY <2>1
  <2>2. CASE IngestNew
    <3>1. /\ identity' = [identity EXCEPT ![<<Current.account, Current.user>>] = OwnerOfIdentity(Current)]
          /\ identity \in [Contacts -> Contacts \cup {None}]
      BY <2>2 DEF IngestNew, IInv, TypeOK
    <3>2. \A r \in Contacts : identity[r] # None => identity'[r] = identity[r]
      BY <3>1 DEF OwnerOfIdentity
    <3> QED
      BY <3>2
  <2>3. CASE \E u \in Agents, p, q \in Contacts : Merge(u, p, q)
    BY <2>3 DEF Merge, MovedIdentities
  <2> QED
    BY <2>1, <2>2, <2>3 DEF Next, Begin, HandlerStep, IngestDuplicate, ApplyStatus, Reject,
       Acknowledge, Crash, AccountCreated, SendRecorded, Open, ReplyQueued, SetStatus, inbox
<1> QED
  BY <1>1, Inductive, PTL DEF Spec, NeverSplit

\* Only a new message of a customer reopens a closed conversation, and it
\* always does; deliveries that repeat old ones leave it closed.
THEOREM NewsReopens == Spec => ReopenedByNews
<1> DEFINE News(c) == StoredIn(c)' # StoredIn(c)
           Rule == \A c \in Convs :
             /\ News(c) => status'[c] \notin Closed
             /\ handler # None /\ status[c] \in Closed /\ status'[c] \notin Closed => News(c)
<1>1. IInv /\ [Next]_vars => [Rule]_vars
  <2> SUFFICES ASSUME IInv, Next PROVE Rule
    OBVIOUS
  <2>1. CASE UNCHANGED <<stored, status>>
    BY <2>1 DEF StoredIn
  <2>2. CASE IngestNew
    <3>1. /\ status' = [status EXCEPT ![Current.conv] = Reopened(@)]
          /\ stored' = stored \cup {Current} /\ Current \notin stored
      BY <2>2 DEF IngestNew, Duplicate
    <3>2. status \in [Convs -> Statuses] /\ Current \in Inbounds
      BY <2>2, CurrentType DEF IngestNew, IInv, TypeOK
    <3>3. Current.conv \in Convs
      BY <3>2 DEF Inbounds
    <3>4. Reopened(status[Current.conv]) \notin Closed
      BY DEF Reopened, Closed
    <3>5. ASSUME NEW c \in Convs, c # Current.conv PROVE ~News(c) /\ status'[c] = status[c]
      BY <3>1, <3>2, <3>5 DEF StoredIn
    <3>6. ASSUME NEW c \in Convs, c = Current.conv PROVE News(c) /\ status'[c] \notin Closed
      BY <3>1, <3>2, <3>4, <3>6 DEF StoredIn
    <3> QED
      BY <3>5, <3>6
  <2>3. CASE UNCHANGED stored /\ handler = None
    BY <2>3 DEF StoredIn
  <2> QED
    BY <2>1, <2>2, <2>3 DEF Next, Begin, HandlerStep, IngestDuplicate, ApplyStatus, Reject,
       Acknowledge, Crash, AccountCreated, SendRecorded, Open, ReplyQueued, SetStatus, Merge,
       inbox, Idle
<1> QED
  BY <1>1, Inductive, PTL DEF Spec, ReopenedByNews

\* docs/architecture.md:7: however often contacts are merged on, and whoever writes after it,
\* what a snapshot lists is together, with the live contact the chain from its target ends in.
THEOREM SnapshotsUsable == Spec => []SnapshotUsable
<1>1. IInv /\ SInv => SnapshotUsable
  <2> SUFFICES ASSUME IInv, SInv, NEW k \in DOMAIN merges
               PROVE  \E r \in Contacts :
                        /\ Live(r) /\ Leads(merges[k].target, r)
                        /\ \A c \in merges[k].convs : contact[c] = r
                        /\ \A p \in merges[k].identities : identity[p] = r
    BY DEF SnapshotUsable
  <2>1. merges[k].target \in Contacts
    BY SnapshotType DEF IInv
  <2>2. /\ identity[merges[k].target] \in Contacts
        /\ Live(identity[merges[k].target])
        /\ Leads(merges[k].target, identity[merges[k].target])
    BY <2>1 DEF IInv, TypeOK, People, NoneHidden, SInv, ChainLeads, SnapshotsTogether
  <2> QED
    BY <2>2 DEF SInv, SnapshotsTogether
<1> QED
  BY <1>1, Inductive, InitSnapshots, StepSnapshots, PTL DEF Spec

-----------------------------------------------------------------------------
(* The inbound path implements InboxContract.                              *)

\* Steps that change nothing the contract shows.
LEMMA Unshown ==
  ASSUME UNCHANGED <<stored, processed, unread, status, acked>>
  PROVE  UNCHANGED Inbox!vars
BY DEF Inbox!vars

\* The current item among what its batch carries.
LEMMA CurrentIsCarried ==
  ASSUME TypeOK, HasItem
  PROVE  /\ IsInbound(Current) => Current \in AllMessages /\ Current.event \notin AllReceipts
         /\ ~IsInbound(Current) => Current.event \in AllReceipts
<1>1. handler.batch \in Batches /\ handler.item \in DOMAIN Items[handler.batch]
  BY CurrentType
<1>2. Current \in ItemsOf(handler.batch)
  BY <1>1 DEF Current, ItemsOf
<1>3. ASSUME IsInbound(Current), Current.event \in AllReceipts PROVE FALSE
  <2>1. PICK b \in Batches : \E i \in ItemsOf(b) : ~IsInbound(i) /\ i.event = Current.event
    BY <1>3 DEF AllReceipts, ReceiptsIn
  <2>2. PICK n \in DOMAIN Items[b] :
          ~IsInbound(Items[b][n]) /\ Items[b][n].event = Current.event
    BY <2>1 DEF ItemsOf
  <2> QED
    BY <1>1, <1>3, <2>2, EventsAssumption DEF Current, IsInbound
<1> QED
  BY <1>1, <1>2, <1>3 DEF AllMessages, AllReceipts, MessagesIn, ReceiptsIn

\* A new message is posted.
LEMMA IngestNewPosts ==
  ASSUME IInv, NEW i, i = Current, IngestNew
  PROVE  Inbox!Next
<1>1. /\ HasItem /\ IsInbound(i) /\ ~Duplicate(i)
      /\ stored' = stored \cup {i} /\ acked' = acked
      /\ status' = [status EXCEPT ![i.conv] = Reopened(@)]
      /\ unread' = [unread EXCEPT ![i.conv] = @ + 1]
      /\ processed' = processed \cup {i.event}
  BY DEF IngestNew
<1>2. TypeOK /\ i \in Inbounds /\ i.conv \in Convs
  BY <1>1, CurrentType DEF IInv, Inbounds
<1>3. i \in AllMessages /\ i.event \notin AllReceipts
  BY <1>1, <1>2, CurrentIsCarried
<1>4. processed' \cap AllReceipts = processed \cap AllReceipts
  BY <1>1, <1>3
<1>5. {c \in Convs : status'[c] \in Closed} = {c \in Convs : status[c] \in Closed} \ {i.conv}
  BY <1>1, <1>2 DEF TypeOK, Reopened, Closed
<1>6. \A n \in stored : ~Inbox!Same(n, i)
  BY <1>1 DEF Duplicate, Inbox!Same
<1>7. Inbox!Post(i)
  BY <1>1, <1>4, <1>5, <1>6 DEF Inbox!Post
<1> QED
  BY <1>3, <1>7 DEF Inbox!Next

\* A message that came before changes nothing; a receipt has its effect once.
LEMMA OtherItems ==
  ASSUME IInv, IngestDuplicate \/ ApplyStatus
  PROVE  [Inbox!Next]_(Inbox!vars)
<1> DEFINE e == Current.event
<1>1. HasItem /\ processed' = processed \cup {e} /\ UNCHANGED <<stored, unread, status, acked>>
  BY DEF IngestDuplicate, ApplyStatus
<1>2. CASE processed' \cap AllReceipts = processed \cap AllReceipts
  BY <1>1, <1>2 DEF Inbox!vars
<1>3. CASE processed' \cap AllReceipts # processed \cap AllReceipts
  <2>1. e \in AllReceipts /\ e \notin processed
    BY <1>1, <1>3
  <2> HIDE DEF e
  <2>2. processed' \cap AllReceipts = (processed \cap AllReceipts) \cup {e}
    BY <1>1, <2>1
  <2>3. Inbox!Apply(e)
    BY <1>1, <2>1, <2>2 DEF Inbox!Apply
  <2> QED
    BY <2>1, <2>3 DEF Inbox!Next
<1> QED
  BY <1>2, <1>3

\* The 200 is given when the request has gone through the batch.
LEMMA AcknowledgeAnswers == ASSUME IInv, Acknowledge PROVE Inbox!Next
<1> DEFINE b == handler.batch
<1>1. /\ handler # None /\ ~HasItem /\ acked' = acked \cup {b}
      /\ UNCHANGED <<stored, processed, unread, status>>
  BY DEF Acknowledge, Idle, inbox
<1>2. b \in Batches /\ handler.item \in Nat /\ handler.item > Len(Items[b])
  <2>1. handler \in [batch : Batches, item : Nat \ {0}]
    BY <1>1 DEF IInv, TypeOK
  <2>2. Items[b] \in Seq(Inbounds \cup Receipts)
    BY <2>1, ItemsAssumption
  <2> QED
    BY <1>1, <2>1, <2>2 DEF HasItem, Idle
<1>3. \A i \in ItemsOf(b) : Delivered(i)
  <2>1. Items[b] \in Seq(Inbounds \cup Receipts)
    BY <1>2, ItemsAssumption
  <2>2. \A n \in DOMAIN Items[b] : n < handler.item
    BY <1>2, <2>1
  <2> QED
    BY <1>1, <2>2 DEF IInv, Delivery, HandledIsDelivered, ItemsOf
<1> HIDE DEF b
<1>4. \A m \in MessagesIn[b] : \E n \in stored : Inbox!Same(n, m)
  BY <1>2, <1>3 DEF MessagesIn, Delivered, SameMessage, Inbox!Same
<1>5. ReceiptsIn[b] \subseteq processed \cap AllReceipts
  <2>1. ReceiptsIn[b] \subseteq AllReceipts
    BY <1>2 DEF AllReceipts
  <2>2. ReceiptsIn[b] \subseteq processed
    BY <1>2, <1>3 DEF ReceiptsIn, Delivered
  <2> QED
    BY <2>1, <2>2
<1>6. Inbox!Answer(b)
  BY <1>1, <1>4, <1>5 DEF Inbox!Answer
<1> QED
  BY <1>2, <1>6 DEF Inbox!Next

\* An agent who opens a conversation looks at it.
LEMMA OpenLooks == ASSUME NEW c \in Convs, Open(c) PROVE Inbox!Next
<1>1. Inbox!Look(c)
  BY DEF Open, Inbox!Look
<1> QED
  BY <1>1 DEF Inbox!Next

\* A reply or a status an agent sets marks the conversation.
LEMMA StatusMarks ==
  ASSUME IInv, NEW c \in Convs, NEW s, status' = [status EXCEPT ![c] = s],
         UNCHANGED <<stored, processed, unread, acked>>
  PROVE  Inbox!Next
<1> DEFINE C == {d \in Convs : status[d] \in Closed}
<1>1. {d \in Convs : status'[d] \in Closed} = IF s \in Closed THEN C \cup {c} ELSE C \ {c}
  BY DEF IInv, TypeOK
<1>2. Inbox!Mark(c)
  BY <1>1 DEF Inbox!Mark
<1> QED
  BY <1>2 DEF Inbox!Next

\* Every step of the inbound path and of the agents is a step of the contract, or
\* changes nothing it shows.
LEMMA StepImplements == IInv /\ [Next]_vars => [Inbox!Next]_(Inbox!vars)
<1> SUFFICES ASSUME IInv, [Next]_vars PROVE [Inbox!Next]_(Inbox!vars)
  OBVIOUS
<1>1. ASSUME NEW b \in Batches, Begin(b) PROVE UNCHANGED Inbox!vars
  BY <1>1, Unshown DEF Begin, inbox
<1>2. CASE HandlerStep
  BY <1>2, IngestNewPosts, OtherItems, AcknowledgeAnswers, Unshown
  DEF HandlerStep, Reject, inbox
<1>3. CASE Crash
  BY <1>3, Unshown DEF Crash, inbox
<1>4. ASSUME NEW a \in Accounts, AccountCreated(a) PROVE UNCHANGED Inbox!vars
  BY <1>4, Unshown DEF AccountCreated, inbox
<1>5. ASSUME NEW x \in Outgoing, SendRecorded(x) PROVE UNCHANGED Inbox!vars
  BY <1>5, Unshown DEF SendRecorded, inbox
<1>6. ASSUME NEW c \in Convs, ReplyQueued(c) PROVE Inbox!Next
  BY <1>6, StatusMarks DEF ReplyQueued
<1>7. ASSUME NEW c \in Convs, NEW s \in Settable, SetStatus(c, s) PROVE Inbox!Next
  BY <1>7, StatusMarks DEF SetStatus
<1>8. ASSUME NEW u \in Agents, NEW p \in Contacts, NEW q \in Contacts, Merge(u, p, q)
      PROVE  UNCHANGED Inbox!vars
  BY <1>8, Unshown DEF Merge
<1>9. CASE UNCHANGED vars
  BY <1>9, Unshown DEF vars, inbox
<1> QED
  BY <1>1, <1>2, <1>3, <1>4, <1>5, <1>6, <1>7, <1>8, <1>9, OpenLooks DEF Next

\* What customers, agents and providers see of the hub's inbox is a behaviour of the
\* contract, for any accounts, batches, errors, repeats, crashes and merges.
THEOREM ImplementsContract == Spec => ImplementsInbox
<1>1. Init => Inbox!Init
  BY DEF Init, Inbox!Init, Closed
<1> QED
  BY <1>1, StepImplements, Inductive, PTL DEF Spec, ImplementsInbox, Inbox!Spec
=============================================================================
