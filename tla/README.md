# Customer hub: a verification project

TLA+ models of the customer hub server (`server/`), the TLC runs that check them and the
theorems TLAPS proves about them. The hub collects messages of several channels (WhatsApp,
Facebook, Instagram, email, Trendyol questions, a website chat) in one inbox, and sends the
agents' answers through an outbox. Everything is kept in one SQLite database by one Node.js
process per deployment (the worker's lock columns allow for several).

## 1. Inventory

| part | code | state | operations | what makes it hard | what makes it correct |
|---|---|---|---|---|---|
| outbox service | `outbox/service.ts` | `messages`, `outbox_jobs` | queue a reply, a template, an email with files | client id checked before an await (template), reply window | one message per client id; a message always has its job |
| outbox worker | `outbox/worker.ts` | `status`, `attempt_count`, lock columns, one job in hand | claim, prepare, send, succeed, fail with backoff | suspended in `sendMessage` while every other handler runs; crash; lost answers | one sender per message; nothing accepted is forgotten; every reply settles; status never goes back |
| receipts | `messages/status.ts` | `messages.status`, `webhook_events` | apply a status | reordered, repeated, early receipts | converges to the furthest status |
| inbound | `messages/inbound.ts` | events, contacts, identities, conversations, messages | ingest one message in one transaction | duplicate events, duplicate messages, merged contacts | a message counts once; unread is exact |
| Meta webhook | `webhooks/meta.ts` | - | a batch, item by item, 200 or 422 | partial commits, repeated batches, crash | a 200 means that what customers wrote is in their conversations and the receipts had their effect |
| conversations | `conversations/router.ts` | status, unread, notes, tags, assignee | list, open, reply, set status, ... | opens between deliveries | closed stays closed until there is news |
| contacts | `contacts/router.ts`, `auth/ownership.ts` | `merged_into_contact_id`, merge snapshots | merge, suggest | chains of merges, customers of merged contacts who write again | nobody disappears; snapshots stay usable |
| Trendyol | `channels/trendyol/adapter.ts` | cursor, answers | poll pages of questions, adopt answers | pages shift while they are read, the page limit cuts a poll, clocks differ; completes jobs behind the worker's back | the cursor passes nothing unseen; an answer is recorded on one row, with the same text |
| email | `channels/email/*` | two cursors, threads | poll a mailbox, send | cursor stored last; UIDVALIDITY | nothing skipped, nothing twice |
| WhatsApp, Facebook, Instagram | `channels/{whatsapp,facebook,instagram,meta}` | template cache | normalise webhooks, send | 24-hour window, timeouts | no text outside the window |
| website chat | `public-chat/*`, `channels/website`, `widget/dsdst-chat.ts` | sessions, conversations, the page | session, post, poll, read | polls between queueing and sending, lost answers, expired sessions | own conversations only, one of them open; READ was displayed |
| scheduler | `channels/core/scheduler.ts` | account status, failure count, retry time | poll each due account | row read before the awaits, written after them | an outage of one channel does not stop the others |
| channel accounts | `channels/router.ts` | accounts, credentials, owner | create, update, claim | update during a poll | a claimed mailbox has one owner |
| attachments, backup | `attachments/*`, `backup/*`, `scripts/*` | files, rows, archives | store, filter, load, back up | file before row, crash in between, two archives | a row has its file; a reply has all of its files; nothing is filed twice |
| auth, panel client, tags, canned replies, audit, crypto | `auth/`, `panel/`, ... | - | checks and single statements | - | - |

How they interact: routes and webhooks run to completion on one event loop and use a
synchronous database driver, so a handler is atomic up to its next `await`. The worker and
the scheduler are timers whose ticks await providers. All interaction goes through rows;
there are no in-memory queues. A stop (`server/index.ts:9`) does not wait for a tick.

The hazards of this code, each at its line, are listed in `PROJECT.json`.

## 2. Modules

**Outbox** (with **Outbox_proofs**) models queueing, the worker, receipts and the Trendyol
answer poll over the two rows they share.

| state | code |
|---|---|
| `row` | the columns of `messages` that are written once: conversation, client id, body, kind |
| `status`, `ext` | `messages.status`, `messages.external_message_id`; `systemRows`: messages the poll inserts |
| `job`, `attempts`, `due`, `lockedBy` | `outbox_jobs.status`, `attempt_count`, `next_attempt_at <= now`, `locked_by` |
| `processed` | `webhook_events.processed_at` of receipts |
| `window[c]` | the newest inbound message of `c` is younger than 24 hours |
| `pc`, `held`, `req` | where `OutboxWorker.tick` of a process is suspended, its job, its request |
| `drafts` | template requests suspended in `validateWhatsAppTemplate` |
| `wire`, `accepted` | requests under way to the provider and accepted by it |
| `sends`, `abandoned` | history: requests made, sends whose outcome the worker did not record |
| `failed`, `refusals` | history: attempts that failed before the message had an answer, those of them that failed for good |

Between `Claim` and `Dispatch` the worker does not yield: `LoopFree` keeps the process's
other handlers out (another process's may run). `Refused`, `TimesOut`, `Collides`,
`Complete` are the ways out of the `await`; `Collides` is the success transaction that
violates the UNIQUE index after the poll gave the same answer to another row. A request is
named by its message and the number of the send; a provider's id is the request it
accepted. (Email derives one Message-ID from the message id, so its requests share an id;
that only removes behaviours.)

**OutboundContract** says what an agent is promised: a reply is pending until it is
confirmed by an answer the provider really gave, used for no other reply, or given up, and
only confirmed replies are reported on. **OutboxRefinement** maps the outbox onto it.

**Conversations** (with **Conversations_proofs**) models webhook batches, inbound ingestion and
the agents' routes on conversations and contacts. `handler` is the request being handled and its next item;
only a crash comes between two items. A contact is named after the identity it was created
with. `SendRecorded` stands for `Outbox.Complete`, `AccountCreated` for the channel routes.

**InboxContract** says what customers, agents and providers are promised of all this: a message
is posted once however often it is delivered; it counts as unread and reopens its conversation
when it is posted; only a look resets the count; a 200 is given only for what is in.
**ConversationsRefinement** maps `stored`, the processed receipts, `unread_count`, the closed
conversations and the acknowledged batches onto it: requests that fail, crash or repeat, and the
merges of contacts, are stuttering steps.

**MetaWebhook** (with **MetaWebhook_proofs**) puts the payloads of WhatsApp, Facebook and Instagram
in front of
Conversations: `ItemsOfPayload` is what the three `normalize...Webhook` functions make of a
body, in the order in which `processBatch` handles it, and `Items` of Conversations is
assumed to be just that. What a customer wrote is read off a body independently
(`WrittenTo`) and compared with the inbox. `Made(s, f)` is the loop of the three functions: what
`f` makes of those members of a sequence that it is defined for, in their order.
`ProviderAssumption` is what the providers keep to: an event whose sender is an account is an echo or
in that account's own entry, all others are a customer's to the account whose entry it is, and an id of
an account names one message, which is repeated as it was. Meta makes these payloads; the code takes
them as they are.

**TrendyolPoll** (with **TrendyolPoll_proofs**) models the poll of marketplace questions: a
page is one await, and before each the clock may tick and questions may be modified. A poll that
ends at the page limit stores the newest modification it saw instead of the window's end.

| state | code |
|---|---|
| `time` | the marketplace's clock; the hub's `Date.now()` is within `Skew` of it |
| `modified` | `lastModifiedDate` of each question, which also names the modification |
| `known` | the modification of each question that the hub has ingested |
| `cursor` | the row of `sync_cursors` |
| `poll` | `syncMessages` at its await: window, page, `newestObserved`; history: what slipped |
| `lost` | history: modifications a poll left out and its cursor, less the overlap, passed |
| `changes`, `failures` | bounds |

The list is recomputed by the provider for each page (`Page`), so a question that is
modified leaves the window and those behind it move up; `Slips` is the question that gets
onto a page which was read already.

**Attachments** (with **Attachments_proofs**) models files, rows and backups.

| state | code |
|---|---|
| `db` | committed rows of `attachments`, mails received, replies queued with their job |
| `files`, `next` | `ATTACHMENTS_DIR`; the next unused `randomUUID()` |
| `handler` | the transaction of `persistInboundAttachments` or `queueOutbound`: what is left to store, the file being written, `createdPaths`, its rows |
| `backup` | `backup.sh` under way: the snapshot, what `tar` has listed and copied |
| `saved` | the last backup that ended well |

Handlers do not await while they store, so one runs at a time, but the backup is another
process: its steps fall between any two of theirs. `Rollback` unlinks any part of
`createdPaths` (errors of unlink are ignored) and never the file that was being written,
which is not in it yet: that one stays as an orphan. That agents send files with a reply is what the
code and `docs/channel-capabilities.md:22` say; the sentence of the repository's `README.md:149` that
this is out of scope is out of date.

**Scheduler** (with **Scheduler_proofs**) models the tick that polls the accounts against the
administrators who save settings while it awaits.

| state | code |
|---|---|
| `status`, `count` | `channel_accounts.status`, `consecutive_failure_count` |
| `backoff`, `rested` | accounts whose `next_retry_at`, or whose `last_sync_at` plus interval, has not come |
| `running` | `this.running` |
| `loop[t]` | a tick: the accounts still to do, the counts read by its SELECT, the poll it awaits |
| `streak`, `saved` | history: polls that failed in a row; accounts saved since their last poll ended |

`PollSucceeds` and `PollFails` are the UPDATE after the await together with the step to the
next account. `Ticks` has two members so that the timer can fire during a tick.

**EmailSync** (with **EmailSync_proofs**) models the poll of a mailbox, one action per await or transaction.

| state | code |
|---|---|
| `box`, `next`, `validity`, `gone`, `aged` | the IMAP mailbox, UIDNEXT, UIDVALIDITY; mails deleted for good or older than seven days |
| `references` | the References header of what customers wrote, by RFC 5322 |
| `cursor` | the two rows of `sync_cursors`, written in one transaction |
| `message`, `filed`, `thread` | rows of `messages` by external id, messages with their attachments, `conversations.metadata_json` |
| `reply` | what `sendMessage` put in the headers of an agent's reply |
| `session` | `syncMessages`: `open`, `listed`, `fetched`, `stored`, `filed`; `todo` the uids left, `last` is `lastUid` |
| `outside` | history: mails a first poll left out by its bounds |
| `failures` | `consecutive_failure_count`, as module Scheduler keeps it |

`IngestRow`, `Persist` and `Describe` are the three transactions of `ingestMessage`; no
await is between them, so `LoopFree` keeps the worker's `Send` and `Recorded` out, but
each may fail (`Fail`) or be the last before a stop (`Crash`). `Write`, `Arrive`, `Age`,
`Expunge` and `Renumber` are the world, at any time. Uids are put in order by their rank
(`Nth`), which says what sorting yields without recursion. `IdList` keeps the last occurrence
of each id of a header: `resolveEmailThread` searches a header from its end, so earlier
occurrences are never reached. An id that stands for another of two mails is excluded by
`MailsAssumption`: derived ids (`fallbackMessageId`, a hash) are nobody's Message-ID.

**WebsiteChat** (with **WebsiteChat_proofs**) models the widget, the public API and the agents on
website conversations.

| state | code |
|---|---|
| `contact`, `conv`, `recent` | identities, conversations (contact, open or not, messages in order), the order of `last_message_at` |
| `session[v]` | the session of the page's token: its `conversation_id`, and whether it is unexpired |
| `page[v]` | `open`, `document.visibilityState`, `seen`, `pendingRead`; the fetch and the read request under way |
| `status` | of the agents' replies |
| `split`, `shown` | history |

`Load` is the server's side of a fetch, `Receive` its answer with the read request that
follows at once; answers and read requests may be lost at either end. `Sent` stands for the
worker of module Outbox, `Merge` for module Conversations. `FindOpen` takes the session's
conversation if it is `Opened`, else the visitor's `Newest` open one, by `recent`.

MCOutbox, MCConversations, MCMetaWebhook, MCEmailSync, MCWebsiteChat and MCAttachments add
what TLC needs: symmetry, and the deliveries, payloads or threads of the instance.

## 3. Runs

| run | instance | shows |
|---|---|---|
| `outbox_receipts` | 1 WhatsApp conversation, 2 messages, 1 process, 2 attempts, 1 crash | client ids unique across the template await; receipts converge |
| `outbox_polled` | 1 Trendyol conversation, 2 messages, 2 texts, 2 processes, 3 attempts, 1 crash | message and job agree; one sender; every accepted request is recorded unless its outcome was lost; ids are genuine; a reply is given up exactly for cause; a lock in nobody's hand is left by a crash only, one per crash |
| `outbox_fair` | a polled and a windowed conversation, 1 process, 1 crash, fairness | every reply settles or is stranded by a crash; the outbox implements the contract, so no status regresses |
| `conversations` | a WhatsApp and an email account, 3 customers, 2 conversations, 2 overlapping webhook batches and a mailbox poll of 2 items each, 1 crash, unbounded merges and redeliveries | exact unread counts, merges lose nobody, closed conversations reopen on news only; the inbound path implements its contract |
| `webhooks` | 3 payloads (WhatsApp with two contacts, a missing id, a foreign product and receipts; a page and an Instagram account with messages, echoes, a delivery), 1 crash, fairness | a 200 means that all messages and receipts of the payload are in the hub; no echo gets into the inbox; deliverable batches are acknowledged in the end |
| `email_sync` | a thread of 3 mails around 1 reply of the hub, 3 uids, first poll cut to 1 mail, failures at every step | threads stay together, whatever fails or vanishes; an answer is with the reply it answers |
| `email_sync_fair` | a mail without Message-ID and a malformed one, 2 uids, 1 renumbering, 1 crash, fairness | what is behind the cursor is stored and whole; every mail is stored unless the account is degraded |
| `scheduler` | 3 accounts, a timer that fires during a tick, 4 updates by administrators, 1 crash, fairness | failures are counted right; a full streak degrades, no sooner and no later; an outage stays local |
| `website` | 2 visitors, 2 posts, 1 reply, unbounded expiry, reload, closing, merging | a page shows its own contact's conversations; one open conversation; READ was displayed |
| `trendyol_poll` | 4 questions, 5 modifications, pages of 1, a limit of 3 pages, clocks that differ by 1, 1 failure, fairness | what the cursor has passed is in the inbox or slipped; polls cut by the limit or by failures get everything in the end |
| `attachments` | a mail (a picture, a program) and a reply (the same picture, a document), 4 file names, 1 failure, 1 restore, unbounded backups, uploads and repeated mails | every row has its file; a queued reply has all of its files; nothing is filed twice |
| `website_read` | 1 visitor, 1 post, 1 reply, fairness | **violated**: a reply displayed in a visible panel becomes READ |

Bounds. Two messages are what crossing needs (an answer of one adopted by the other, a
queue order); two attempts are a retry and the last one, three a retry after a retry.
`MaxAttempts` is 5 in the code; the model only compares the count with it. One crash can
fall at any step; a second one meets the same states. `Settable` is `{CLOSED}` in the
run: `SetStatus` sets any status unconditionally, and the model distinguishes closed from
other statuses. Deadlock is not checked where the bounds let the system stop (no message
left to queue, no mail left to write).

`FirstSyncMax` is 500 in the code and 1 here, so that a first poll of two mails leaves one
out. `DegradedAfter` is 5 and 2 or 3 here: one failure, a failure after a failure, and the
last one. Three uids are a mail behind the cursor, one being handled and one that arrives.
`PageSize` is 100 and 2 here: three messages do not fit an answer. Two visitors and two
posts are two customers with a conversation each, or one with two.

Fairness. `FairSpec` of Outbox: the poll timer fires for ever and a request ends at the
latest with its timeout (WF of each worker's step), and time passes (WF of each backoff).
Nothing is assumed of providers, customers, agents or the poll. `FairSpec` of
Conversations: a handler that has begun runs on (WF), and the provider repeats a batch
that was not acknowledged (SF of its `Begin`: the loop is idle between requests again and
again). `FairSpec` of EmailSync: WF of the poll as a whole, which covers its start: the scheduler
polls an active
account for ever and every request of a poll ends; failures are not forbidden, so the
liveness property lets a degraded account stop. `Fairness` of Scheduler: the timer fires
(WF of a tick of any number), each poll ends, each waiting time passes; administrators and
crashes are bounded by `MaxUpdates` and `MaxCrashes`. `Fairness` of WebsiteChat: an open
panel polls every 2.5 seconds, the worker sends, and the network does not lose every
answer (SF of `Receive` and of an answered `Acknowledge`). `FairSpec` of TrendyolPoll: time
passes (WF of `Tick`), and WF of the poll as a whole, as for EmailSync; a poll that fails is
repeated, and at most `MaxFailures` fail.

`PageSize`, `MaxPages` and the overlap of TrendyolPoll are 50, 20 and 60 s in the code and
1, 3 and 1 tick here: a question per page makes every modification move a page border. The
assumption that a poll can read more questions than are modified within the overlap
(`LimitAssumption`) is what lets a poll cut by the limit move its cursor forward. A file
with the same name and checksum in the mail and in the reply is the case in which they
could be taken for each other; four names let the second try of a reply with two files
succeed after a failed one.

Finding. A widget that polls between queueing and sending displays a reply that has no
external id yet; `POST /read` passes it over (`public-chat/router.ts:110`), the widget
forgets it, and it stays DELIVERED although `README.md:153` says that the read ACK of the
visible thread produces READ.

What the code does and no property forbids:

- A job that was PROCESSING when the process stopped is never selected again
  (`worker.ts:50`): its message stays SENDING. `EverySendSettles` names this case
  (`Stranded`) and shows that it is the only one; `OneOrphanPerCrash` bounds it by one job
  per crash. An unknown channel type would strand a job without a crash (`worker.ts:19` is outside of
  the inner `try`); every type of the schema is registered, so the model has no such step.
- The WhatsApp, Facebook, Instagram and Trendyol requests carry no idempotency key, so a
  provider whose answer was lost accepts the retry as a second message;
  `DuplicateOnlyAfterLoss` shows that nothing else leads to a second one.
- An answer of the marketplace to a reply the hub gave up appears as a SYSTEM row, and a reply whose
  answer was taken by another one of the same text is sent again: `AcceptedIsRecorded` allows these
  two (`AbandonedSome`, `Crossed`) and nothing else.
- A receipt for a message the hub never sent (or has not recorded yet) rejects its batch
  with 422: what stands behind it in the batch waits until it can be applied, or for ever.
- WhatsApp messages whose sender is not among the `contacts` of the payload are filed under
  the first contact (`whatsapp/adapter.ts:82`); `PayloadDelivered` allows it.
- A question of Trendyol that slides over a page border while a poll reads is seen only
  when it is modified again or the overlap still covers it.
- More than a thousand questions modified within the overlap of a minute would keep a poll
  from getting past them (`LimitAssumption` excludes it).
- A failed write leaves its file in the directory (`createdPaths` gets the name afterwards),
  and no run of the hub removes it.
- After a restore, mails since the snapshot are read again if the cursor is in the
  snapshot; replies that were queued in the snapshot and sent since are sent again.

## 4. Proofs

The theorems hold for every set of messages, processes, conversations and texts and every
number of attempts, from the named assumptions of the modules, which TLC evaluates on every
run: in `Outbox`, messages are numbers, the channel sets are consistent, there is at least one
attempt, `None` is nobody. All of them are about `Spec`: no fairness is used.

`Outbox_proofs`:

| theorem | states |
|---|---|
| `TypeCorrect` | `Spec => []TypeOK` |
| `Agreement` | `Spec => []JobMessageAgree` |
| `Exclusion` | `Spec => []OneSender` |
| `ForCause` | `Spec => []GivenUpForCause` |

None is inductive. `IInv` adds what is in hand (`InHand`: a worker that is not idle holds
a message whose lock it has, unless the poll completed the job; its request is the last
one sent), `SendsBounded` (a message has been sent at most once per counted attempt,
plus the one in flight), which keeps request numbers in range, and `TriesCounted`
(`attempt_count` counts just the attempts that failed). One lemma per action shows
it preserved; `Inductive` combines them.

On `IInv` stands the second part of the module:

| theorem | states |
|---|---|
| `UniqueClientIds` | `Spec => []OneMessagePerClientId` |
| `Genuine` | `Spec => []RecordedIsGenuine` |
| `NothingForgotten` | `Spec => []AcceptedIsRecorded` |
| `NoNeedlessDuplicate` | `Spec => []DuplicateOnlyAfterLoss` |
| `Converge` | `Spec => []ReceiptsConverge` |
| `NoRegress` | `Spec => StatusNeverRegresses`: what the contract says of reports, in the terms of `messages.status` |
| `OneOrphan` | `Spec => []OneOrphanPerCrash` |
| `Implements` | `Spec => ImplementsContract` |

The second invariant, `DInv`, relates the rows to what the provider did: a request that
exists was sent (`IssuedKnown`); a provider that has not decided yet has accepted nothing
(`Undecided`); an id on a row is an accepted request of that conversation and text
(`RecordedIsGenuine`); a marketplace answer that was recorded stays SENT
(`PolledStaySent`); every accepted request is on a row, in hand, or among the sends whose
outcome was lost (`Accounted`); at most one request of a message is unaccounted for
(`OneIssued`). `StepKind` sorts the actions by what they do to the rows (queue, confirm,
give up, report, nothing), and the receipts, the no-regress property and the refinement
are each proved once per kind instead of once per action.

`OneOrphan` counts. By the agreement of message and job what is locked or PROCESSING in nobody's hand
is what is SENDING in nobody's hand (`OrphansStranded`). No step but a crash adds to that, for a worker
that lets go of a message has written its row, or finds it written by the poll (`OneSender` and the
agreement of message and job); a crash adds at most what its worker held. The set is shown
finite along the way, so `Messages` need not be.

`Conversations_proofs`, for every set of accounts, customers, conversations, batches and
agents, and any number of merges, repetitions and crashes:

| theorem | states |
|---|---|
| `TypeCorrect` | `Spec => []TypeOK` |
| `CountsOnce` | `Spec => []UnreadIsUnseen` |
| `AcknowledgedIsDelivered` | `Spec => []AckedIsDelivered`: every item of a batch that got a 200 is in the hub |
| `NobodyHidden` | `Spec => []NoneHidden` |
| `FollowsCustomer` | `Spec => []ConversationFollowsCustomer` |
| `OnePersonStaysOne` | `Spec => NeverSplit` |
| `NewsReopens` | `Spec => ReopenedByNews` |
| `SnapshotsUsable` | `Spec => []SnapshotUsable` |
| `ImplementsContract` | `Spec => ImplementsInbox` |

The invariant has three parts that a step disturbs separately. `Delivery`: the event of a
message is processed only with the message in the inbox, and the items a request has left
behind are in the hub; it rests on `EventsAssumption`, that an event id is made from the
message's (`whatsapp:<number>:<id>`), without which a duplicate event could hide a new message.
`People`: besides `NoneHidden` and `ConversationFollowsCustomer`, a contact that was merged
was known before (`MergedWereKnown`), so that the first message of a customer never lands on
a merged contact. `Counted`: what was shown is stored, so that one more message is one more
unread.

`SnapshotsUsable` is about chains of merges of any length: `merged_into_contact_id` leads from
a snapshot's target to a live contact that holds all that the snapshot lists. `Leads(p, q)` says
it without recursion: `q` is in every set of contacts that holds `p` and is closed under
`merged_into_contact_id`. The invariant `SInv` names the end of each chain: a live contact is the
contact of the identity it is named after (`LiveIsItself`), every other leads to that
identity's contact (`ChainLeads`), and what a snapshot lists is together there
(`SnapshotsTogether`). A merge adds one link, from a live contact to a live contact; a set that is
closed after it was closed before it, so old chains lead at least to the source, and the link
leads on.

`ImplementsContract` goes through the handlers: `IngestNewPosts` needs that no stored message has the
id and that the event of a message is no receipt's (`EventsAssumption`), `AcknowledgeAnswers` is where
`Delivery` of the invariant makes the guard of the contract's answer true.

`MetaWebhook_proofs`, for every payload that keeps to `ProviderAssumption`:

| theorem | states |
|---|---|
| `InboxIsFromCustomers` | `Spec => []PayloadDelivered` |

The normalisation is data, so its part of the proof is about one state: `MadeIs` says which members
the loop keeps, by the least place where it would not (`LoopExists` first shows that the recursion
has a solution); `InboundItems` puts the loops of a payload together, and `ItemsAreWritten` says that
the messages among the items are just what customers wrote. The invariant adds `StoredWasPosted` to
that of Conversations: what is stored was an item of some payload. A message that an acknowledged
payload carries may have been stored from another one; that both are one message of one customer is
the last clause of `ProviderAssumption`.

`Scheduler_proofs`, for every set of accounts and of ticks and every threshold:

| theorem | states |
|---|---|
| `TypeCorrect` | `Spec => []TypeOK` |
| `CountIsRight` | `Spec => []FailuresCounted` |

`FailuresCounted` says that the count written from a row read before the awaits is right, and that a
full streak means DEGRADED unless an administrator has saved the account since its last poll.
It is inductive only with `OneTick` (the running flag lets no second tick start) and
`SnapshotHolds` (for the accounts a tick still has to poll, the counts it has read are
those of the rows: only polls write them, and there is one tick).

`TrendyolPoll_proofs`, for every set of questions, page size, page limit and overlap no
smaller than the difference of the clocks:

| theorem | states |
|---|---|
| `TypeCorrect` | `Spec => []TypeOK` |
| `NothingSkipped` | `Spec => []CursorSafe` |

`CursorSafe` speaks of the questions behind the cursor. It is not inductive: `PollHolds` says
the same of a poll under way (each question of its window that was not modified since the
poll began is in the inbox, slipped, or on a page that is still to be read and not older than
the newest one seen), and `CursorBehind` that the cursor is never ahead of the marketplace's
clock by more than the clocks differ. The step that needs thought is `Modify`: the ranks
(cardinalities of what is listed before a question) of all others fall by at most one, so
only the first question of the next page can slip.

`Attachments_proofs`, for every set of messages and files and any number of failures,
backups and restores:

| theorem | states |
|---|---|
| `TypeCorrect` | `Spec => []TypeOK` |
| `FileForEveryRow` | `Spec => []RowHasFile` |
| `RepliesWhole` | `Spec => []ReplyIsWhole` |
| `FiledOnceOnly` | `Spec => []FiledOnce` |

The invariant says of four databases (the committed one, what the transaction would make of
it, the snapshot and the backup) that their rows are sound, unique and below the next name;
of `createdPaths` that no committed row is in it, which makes a rollback harmless; and of a
backup that each file its snapshot promises is in the archive or still to be copied
(`BackupHolds`), which is where the order of `backup.sh` matters.

`WebsiteChat_proofs`, for every set of visitors, posts and replies and any page size:

| theorem | states |
|---|---|
| `TypeCorrect` | `Spec => []TypeOK` |
| `OwnConversations` | `Spec => []Isolation` |
| `OneOpen` | `Spec => []OneOpenConversation` |
| `ReadIsShown` | `Spec => []ReadWasShown` |

`Isolation` alone does not survive the answer of a fetch that began before a merge, nor a
reply that is queued for a conversation a page shows. `Pages` therefore speaks of what a page
shows or is about to get (`OnPage`) and of each conversation it overlaps: that one is of the
visitor's contact. `Logs` makes the overlap mean something: a message is in one conversation,
and was queued when it got there. `Wrote` (a contact is of a visitor who wrote) keeps the
contact a first message creates apart from all others. A merge moves the contacts of
conversations and of visitors alike, so what was equal stays equal. The lemmas on sequences
(`TouchSet`, `SubSeqIn`, `ConcatSet`, `MinIn`) say which messages an answer can hold and that
`recent` keeps all conversations.

`EmailSync_proofs`, for every set of mails and replies, whatever they answer and cite, any
bound of a first poll and any number of failures, crashes and renumberings:

| theorem | states |
|---|---|
| `TypeCorrect` | `Spec => []TypeOK` |
| `BehindCursorIsComplete` | `Spec => []CompleteBehindCursor` |
| `AnswersTogether` | `Spec => []ThreadsTogether` |
| `AnswersFollowReplies` | `Spec => []AnswerJoinsReply` |

The invariant has a part for each of three arguments.

- The cursor. A mail is `Handled` when a first poll left it out or when its row, its files and
  its place in the references are there (`Whole`). `Poll` says where a poll under way stands:
  every mail up to `session.last`, or below a uid that is still to do, is handled or to do.
  `last` starts at UIDNEXT - 1 as `open` read it, so what arrives later is above it, and every
  mail of a first poll that is at or below it is listed or `outside`; when nothing is left to do,
  `Finish` makes of it what `Cursor` says of the stored cursor. After a failure between the
  three transactions the repeated poll meets a duplicate and does the rest: being stored is
  not being handled.
- Threads. `Origins` says where stored ids come from (a mail that was written and is or was in
  the mailbox, a reply, or a place the mailbox has had), so an id that is about to be stored
  cannot be there by another way. With the ascending order of the uids it gives `Joined`: when
  an answer is stored, what it answers was before, or a first poll left it out. It is stated for
  what the mailbox holds, and a renumbering keeps it because ranks keep the order.
- Replies. `Answers` follows the reply's headers through the customer's mail program: the
  references of a thread end in its latest mail, which is stored in that thread; `Send` copies
  them into the reply, `Write` appends the reply's id for the answer. The search from the end of the
  answer's references finds the reply if it is recorded, and the mail before it if not; both are of the
  reply's conversation.

The lemmas `RankAscends`, `RankReached` and `NthIn` (the ranks of n numbers are 0 to n - 1, by
counting) stand for what sorting does; `IdListKeeps` says that `headerIds` loses no id and
keeps the last one last.

Only model-checked: the liveness properties (`EverySendSettles`, `BatchAcknowledged`,
`MailArrives`, `QuestionsArrive`, `OutageStaysLocal`): fairness and ENABLED are out of the
prover's reach. `ShownIsRead`, the property of `website_read`, is refuted. Every safety property and
both refinements that the passing runs check are theorems.

## 5. Plan

Done: Outbox and Conversations with their contracts, MetaWebhook, Scheduler, TrendyolPoll,
Attachments, EmailSync and WebsiteChat, each with all the safety properties its runs check proved.

Left, if the project goes on: `last_message_at` in Conversations (the order of the conversation list
when old messages come late), the closed panel and the hundred-message page of the widget in
WebsiteChat, and the hazards of `PROJECT.json` that no property covers.

## 6. Not modelled

- The kinds of media, names, texts and times that normalisation copies from a payload, MIME,
  HTML and signatures: data that decides nothing.
- The WhatsApp template cache: whether a template is known only decides whether a request is
  refused, and Outbox leaves that open.
- The messaging windows of Messenger and Instagram: the same guard as the WhatsApp one, on
  other rows. That a text leaves only in an open window is the guard `SendAllowed` of `Dispatch`
  (`worker.ts:26`); no property repeats it. What becomes of replies it refuses is checked
  (`EverySendSettles`, `GivenUpForCause`).
- `POST /backups/database`: a snapshot without the files, for which the repository describes
  no restore. Power failures, which may lose what the operating system had not written yet.
- The claim of an ownerless mailbox (one guarded UPDATE) and the merging of credentials.
- Cryptography, authentication and CSRF (checks of one request), the panel client (one call,
  nothing stored), tags, notes, canned replies and audit (single statements), the web client.
