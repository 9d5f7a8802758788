---------------------------- MODULE Conversations ----------------------------
(***************************************************************************)
(* The inbound path and the agents' routes over the same rows:             *)
(* server/webhooks/meta.ts handles a batch item by item, each item in a    *)
(* transaction of its own (server/messages/inbound.ts and status.ts), and  *)
(* answers 422 at the first item that throws; the provider repeats a batch *)
(* until it gets a 200, and sometimes after that.  Agents open, answer and *)
(* close conversations (server/conversations/router.ts) and merge contacts *)
(* (server/contacts/router.ts).                                            *)
(*                                                                         *)
(* A handler runs without an await, so nothing but a crash comes between   *)
(* the items of a batch.  What a status does to its message is action      *)
(* ReceiptArrives of module Outbox; here it only has to find the message.  *)
(* Names, subjects, bodies and timestamps are left out.                    *)
(***************************************************************************)
EXTENDS Naturals, Sequences, FiniteSets

CONSTANTS
  Accounts,       \* channel accounts, those an admin may still create included
  Users,          \* external users of the channels
  Convs,          \* external conversations, each of one account
  Ids,            \* external message ids
  Outgoing,       \* those that providers give to messages of the hub
  Events,         \* external event ids
  Batches,
  Items,          \* Items[b]: what a webhook request carries, in order
  Agents,
  EmailAccounts,  \* accounts whose conversations only their owner sees
  Owner,          \* Owner[a]: the agent who owns account a, or None
  Settable,       \* the statuses agents set in an instance
  MaxCrashes,
  None

Inbounds == [event : Events, id : Ids, account : Accounts, conv : Convs, user : Users]
Receipts == [event : Events, id : Outgoing]

ASSUME ItemsAssumption == Items \in [Batches -> Seq(Inbounds \cup Receipts)]
ASSUME ConvsAssumption ==   \* a conversation is found by its account and its external id
  \A b, d \in Batches : \A i \in DOMAIN Items[b], j \in DOMAIN Items[d] :
    LET x == Items[b][i] y == Items[d][j] IN
    "conv" \in DOMAIN x /\ "conv" \in DOMAIN y /\ x.conv = y.conv => x.account = y.account
ASSUME EventsAssumption ==  \* an event is named after its message
  \A b, d \in Batches : \A i \in DOMAIN Items[b], j \in DOMAIN Items[d] :
    LET x == Items[b][i] y == Items[d][j] IN
    x.event = y.event =>
      /\ "conv" \in DOMAIN x <=> "conv" \in DOMAIN y
      /\ "conv" \in DOMAIN x => x.id = y.id /\ x.account = y.account
ASSUME OwnerAssumption == EmailAccounts \subseteq Accounts /\ Owner \in [Accounts -> Agents \cup {None}]
ASSUME SettableAssumption ==
  Settable \subseteq {"NEW", "OPEN", "WAITING_CUSTOMER", "WAITING_INTERNAL",
                      "RESOLVED", "CLOSED", "SPAM"}
ASSUME CrashesAssumption == MaxCrashes \in Nat
ASSUME AbsentAssumption == None \notin Agents \cup (Accounts \X Users)

VARIABLES
  known,      \* accounts that exist
  sent,       \* external ids recorded on outbound messages
  processed,  \* webhook_events with processed_at set
  stored,     \* inbound messages
  identity,   \* contact of an external user, None before its first message
  contact,    \* contact of a conversation, None before its first message
  status,     \* conversations.status
  unread,     \* conversations.unread_count
  merged,     \* contacts.merged_into_contact_id
  merges,     \* contact_merge_events with their snapshots
  handler,    \* the webhook request being handled, and its next item
  acked,      \* batches answered with 200
  seen,       \* stored messages of a conversation when it was last opened (history)
  crashes

inbox  == <<processed, stored, identity, contact, status, unread>>
people == <<merged, merges>>
vars   == <<known, sent, inbox, people, handler, acked, seen, crashes>>

-----------------------------------------------------------------------------
\* A contact is created with its first identity, and named after it.
Contacts == Accounts \X Users
Statuses == {"NEW", "OPEN", "WAITING_CUSTOMER", "WAITING_INTERNAL", "RESOLVED", "CLOSED", "SPAM"}
Closed   == {"RESOLVED", "CLOSED"}

Exists(c)     == contact[c] # None
Live(p)       == identity[p] # None /\ merged[p] = None
ConvsOf(p)    == {c \in Convs : contact[c] = p}
StoredIn(c)   == {m \in stored : m.conv = c}
AccountOf(c)  == {m.account : m \in StoredIn(c)}
Idle          == handler = None

Init ==
  /\ known = {} /\ sent = {} /\ processed = {} /\ stored = {}
  /\ identity = [p \in Contacts |-> None]
  /\ contact  = [c \in Convs |-> None]
  /\ status   = [c \in Convs |-> "NEW"]
  /\ unread   = [c \in Convs |-> 0]
  /\ merged   = [p \in Contacts |-> None]
  /\ merges   = <<>>
  /\ handler  = None
  /\ acked    = {}
  /\ seen     = [c \in Convs |-> {}]
  /\ crashes  = 0

-----------------------------------------------------------------------------
(* Webhook requests.                                                       *)

\* The provider posts a batch, for the first time or again.
Begin(b) ==
  /\ Idle
  /\ handler' = [batch |-> b, item |-> 1]
  /\ UNCHANGED <<known, sent, inbox, people, acked, seen, crashes>>

Current  == Items[handler.batch][handler.item]
HasItem  == ~Idle /\ handler.item <= Len(Items[handler.batch])
IsInbound(i) == "conv" \in DOMAIN i
Advance  == handler' = [handler EXCEPT !.item = @ + 1]

MutDuplicateByEvent(i) == i.event \in processed
\* The event was processed, or another event brought the same message.  (The ids of the
\* hub's own messages, which the query also finds, are never those of a customer's.)
Duplicate(i) ==
  \/ i.event \in processed
  \/ \E m \in stored : m.id = i.id /\ m.account = i.account

\* ingestInbound of a message that was stored before.
IngestDuplicate ==
  /\ HasItem /\ IsInbound(Current) /\ Current.account \in known
  /\ Duplicate(Current)
  /\ processed' = processed \cup {Current.event}
  /\ Advance
  /\ UNCHANGED <<known, sent, stored, identity, contact, status, unread, people, acked, seen,
                 crashes>>

MutOwnerOfIdentity(i) == <<i.account, i.user>>
\* The contact an external user's messages go to; a merge may have moved it.
OwnerOfIdentity(i) ==
  LET p == <<i.account, i.user>> IN IF identity[p] = None THEN p ELSE identity[p]

MutReopened(s) == s
MutReopenedUnknown(s) == IF s \in Closed THEN "REOPENED" ELSE s
\* A message of the customer reopens what was closed.
Reopened(s) == IF s \in Closed THEN "OPEN" ELSE s

\* ingestInbound of a new message: identity, conversation, message, counters.
IngestNew ==
  LET i == Current IN
  /\ HasItem /\ IsInbound(Current) /\ i.account \in known
  /\ ~Duplicate(i)
  /\ identity' = [identity EXCEPT ![<<i.account, i.user>>] = OwnerOfIdentity(i)]
  /\ contact'  = [contact EXCEPT ![i.conv] = IF Exists(i.conv) THEN @ ELSE OwnerOfIdentity(i)]
  /\ stored'   = stored \cup {i}
  /\ status'   = [status EXCEPT ![i.conv] = Reopened(@)]
  /\ unread'   = [unread EXCEPT ![i.conv] = @ + 1]
  /\ processed' = processed \cup {i.event}
  /\ Advance
  /\ UNCHANGED <<known, sent, people, acked, seen, crashes>>

\* applyMessageStatus: the outbound message is known (or was, when the event
\* was processed).
ApplyStatus ==
  /\ HasItem /\ ~IsInbound(Current)
  /\ Current.event \in processed \/ Current.id \in sent
  /\ processed' = processed \cup {Current.event}
  /\ Advance
  /\ UNCHANGED <<known, sent, stored, identity, contact, status, unread, people, acked, seen,
                 crashes>>

MutRejectDuplicates ==
  /\ HasItem
  /\ IF IsInbound(Current) THEN Current.account \notin known \/ Duplicate(Current)
                           ELSE Current.id \notin sent
  /\ handler' = None
  /\ UNCHANGED <<known, sent, inbox, people, acked, seen, crashes>>

MutRejectAcknowledged ==
  /\ HasItem
  /\ IF IsInbound(Current) THEN Current.account \notin known
                           ELSE Current.event \notin processed /\ Current.id \notin sent
  /\ acked' = acked \cup {handler.batch}
  /\ handler' = None
  /\ UNCHANGED <<known, sent, inbox, people, seen, crashes>>

\* CHANNEL_ACCOUNT_NOT_FOUND or OUTBOUND_MESSAGE_NOT_FOUND: the item's
\* transaction is rolled back, the earlier items stay, the answer is 422.
Reject ==
  /\ HasItem
  /\ IF IsInbound(Current) THEN Current.account \notin known
                           ELSE Current.event \notin processed /\ Current.id \notin sent
  /\ handler' = None
  /\ UNCHANGED <<known, sent, inbox, people, acked, seen, crashes>>

\* After the last item the answer is 200.
Acknowledge ==
  /\ ~Idle /\ ~HasItem
  /\ acked' = acked \cup {handler.batch}
  /\ handler' = None
  /\ UNCHANGED <<known, sent, inbox, people, seen, crashes>>

Crash ==
  /\ ~Idle /\ crashes < MaxCrashes
  /\ crashes' = crashes + 1
  /\ handler' = None
  /\ UNCHANGED <<known, sent, inbox, people, acked, seen>>

-----------------------------------------------------------------------------
(* The agents, and what the other components contribute.                   *)

AccountCreated(a) ==
  /\ Idle /\ a \notin known
  /\ known' = known \cup {a}
  /\ UNCHANGED <<sent, inbox, people, handler, acked, seen, crashes>>

\* The worker records the external id of a message it sent (Outbox.Complete).
SendRecorded(x) ==
  /\ Idle /\ x \notin sent
  /\ sent' = sent \cup {x}
  /\ UNCHANGED <<known, inbox, people, handler, acked, seen, crashes>>

\* GET /conversations/:id shows every message and resets the counter.
Open(c) ==
  /\ Idle /\ Exists(c)
  /\ unread' = [unread EXCEPT ![c] = 0]
  /\ seen'   = [seen EXCEPT ![c] = StoredIn(c)]
  /\ UNCHANGED <<known, sent, processed, stored, identity, contact, status, people, handler,
                 acked, crashes>>

\* The conversation row of queueOutbound.
ReplyQueued(c) ==
  /\ Idle /\ Exists(c)
  /\ status' = [status EXCEPT ![c] = "WAITING_CUSTOMER"]
  /\ UNCHANGED <<known, sent, processed, stored, identity, contact, unread, people, handler,
                 acked, seen, crashes>>

\* PUT /conversations/:id/status takes any status, whatever the present one.
SetStatus(c, s) ==
  /\ Idle /\ Exists(c)
  /\ status' = [status EXCEPT ![c] = s]
  /\ UNCHANGED <<known, sent, processed, stored, identity, contact, unread, people, handler,
                 acked, seen, crashes>>

\* canAccessEntireContact: email conversations are their owner's alone.
Visible(u, c) == \A a \in AccountOf(c) : a \in EmailAccounts => Owner[a] = u
CanAccess(u, p) == \A c \in ConvsOf(p) : Visible(u, c)

MutMergeableIntoMerged(p, q) == Live(p) /\ identity[q] # None
\* Both rows are read in the transaction and must not have been merged before.
Mergeable(p, q) == Live(p) /\ Live(q)

MutMovedIdentities(p) == {}
MovedIdentities(p) == {i \in Contacts : identity[i] = p}

\* POST /contacts/merge: p is merged into q.
Merge(u, p, q) ==
  /\ Idle /\ p # q
  /\ CanAccess(u, p) /\ CanAccess(u, q)
  /\ Mergeable(p, q)
  /\ contact'  = [c \in Convs |-> IF contact[c] = p THEN q ELSE contact[c]]
  /\ identity' = [i \in Contacts |-> IF i \in MovedIdentities(p) THEN q ELSE identity[i]]
  /\ merged'   = [merged EXCEPT ![p] = q]
  /\ merges'   = Append(merges, [source |-> p, target |-> q, convs |-> ConvsOf(p),
                                 identities |-> {i \in Contacts : identity[i] = p}])
  /\ UNCHANGED <<known, sent, processed, stored, status, unread, handler, acked, seen, crashes>>

HandlerStep == IngestDuplicate \/ IngestNew \/ ApplyStatus \/ Reject \/ Acknowledge

Next ==
  \/ \E b \in Batches : Begin(b)
  \/ HandlerStep
  \/ Crash
  \/ \E a \in Accounts : AccountCreated(a)
  \/ \E x \in Outgoing : SendRecorded(x)
  \/ \E c \in Convs : Open(c) \/ ReplyQueued(c)
  \/ \E c \in Convs, s \in Settable : SetStatus(c, s)
  \/ \E u \in Agents, p, q \in Contacts : Merge(u, p, q)

Spec == Init /\ [][Next]_vars

\* The provider repeats a batch until it is acknowledged, and the event loop
\* gets to every request; a handler that has begun runs on.
Fairness ==
  /\ WF_vars(HandlerStep)
  /\ \A b \in Batches : SF_vars(b \notin acked /\ Begin(b))

FairSpec == Spec /\ Fairness

-----------------------------------------------------------------------------
(* Properties.                                                             *)

\* Types of the rows and of the request being handled.
TypeOK ==
  /\ known \subseteq Accounts /\ sent \subseteq Outgoing /\ processed \subseteq Events
  /\ stored \subseteq Inbounds
  /\ identity \in [Contacts -> Contacts \cup {None}]
  /\ contact  \in [Convs -> Contacts \cup {None}]
  /\ status   \in [Convs -> Statuses]
  /\ unread   \in [Convs -> Nat]
  /\ merged   \in [Contacts -> Contacts \cup {None}]
  /\ merges   \in Seq([source : Contacts, target : Contacts,
                        convs : SUBSET Convs, identities : SUBSET Contacts])
  /\ handler  \in [batch : Batches, item : Nat \ {0}] \cup {None}
  /\ acked    \subseteq Batches
  /\ seen     \in [Convs -> SUBSET Inbounds]
  /\ crashes  \in 0..MaxCrashes

SameMessage(m, i) == m.id = i.id /\ m.account = i.account
ItemsOf(b) == {Items[b][n] : n \in DOMAIN Items[b]}
Delivered(i) == IF IsInbound(i) THEN \E m \in stored : SameMessage(m, i)
                                ELSE i.event \in processed

\* Repeated and overlapping deliveries store a message once: no two rows of an
\* account have one external id, and unread_count is exactly the number of
\* messages no agent has been shown.
UnreadIsUnseen ==
  /\ \A m, n \in stored : SameMessage(m, n) => m = n
  /\ \A c \in Convs : unread[c] = Cardinality(StoredIn(c) \ seen[c])

\* No conversation and no known customer ever belongs to a merged contact,
\* which the conversation list hides (server/conversations/router.ts:29).
NoneHidden ==
  /\ \A c \in Convs : Exists(c) => Live(contact[c])
  /\ \A p \in Contacts : identity[p] # None => Live(identity[p])

\* A conversation belongs to the contact of a customer who wrote in it, across
\* merges of that contact and messages that arrive after them.
ConversationFollowsCustomer ==
  \A c \in Convs : Exists(c) =>
    \E m \in StoredIn(c) : contact[c] = identity[<<m.account, m.user>>]

\* Following merged_into_contact_id from p comes to q: q is in every set that holds p and
\* what its members were merged into.
Leads(p, q) ==
  \A S \in SUBSET Contacts :
    p \in S /\ (\A x \in S : merged[x] # None => merged[x] \in S) => q \in S

\* docs/architecture.md:7: a snapshot tells what to give back.  Every row it
\* lists is with the contact the chain of later merges ends in.
SnapshotUsable ==
  \A k \in DOMAIN merges :
    LET e == merges[k] IN
    \E r \in Contacts :
      /\ Live(r) /\ Leads(e.target, r)
      /\ \A c \in e.convs : contact[c] = r
      /\ \A p \in e.identities : identity[p] = r

\* Customers recognised as one person are never taken apart again.
NeverSplit ==
  [][\A p, q \in Contacts :
       identity[p] # None /\ identity[p] = identity[q] => identity'[p] = identity'[q]]_vars

\* A webhook request reopens a closed conversation when it stores a new message
\* there, and only then: a repeated delivery leaves it closed.
ReopenedByNews ==
  [][\A c \in Convs :
       /\ StoredIn(c)' # StoredIn(c) => status'[c] \notin Closed
       /\ handler # None /\ status[c] \in Closed /\ status'[c] \notin Closed
            => StoredIn(c)' # StoredIn(c)]_vars

\* A batch whose accounts and messages the hub knows is acknowledged in the
\* end, whatever was committed of it by requests that failed or crashed.
Deliverable(b) ==
  \A i \in ItemsOf(b) : IF IsInbound(i) THEN i.account \in known
                                        ELSE i.event \in processed \/ i.id \in sent

BatchAcknowledged == \A b \in Batches : Deliverable(b) ~> b \in acked
=============================================================================
