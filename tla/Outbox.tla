------------------------------- MODULE Outbox -------------------------------
(***************************************************************************)
(* The outbound path of the hub: server/outbox/service.ts queues a reply,  *)
(* server/outbox/worker.ts claims and sends it, server/messages/status.ts  *)
(* applies the provider's receipts, and the marketplace poll of            *)
(* server/channels/trendyol/adapter.ts adopts an answer it finds at the    *)
(* provider.  All of them write the same two rows, a message and its job.  *)
(*                                                                         *)
(* The database driver is synchronous: a transaction is one step, and so   *)
(* is every handler up to its next await.  What interleaves is the worker  *)
(* (suspended in sendMessage), the provider, the template request          *)
(* (suspended in its validation), the other handlers, and a crash.         *)
(* The conversation row that queueOutbound also writes is the subject of   *)
(* module Conversations; logging (events, audit) is left out.               *)
(***************************************************************************)
EXTENDS Integers, FiniteSets

CONSTANTS
  Messages,       \* rows of `messages`, numbered in creation order
  Conversations,
  ClientIds,      \* values of client_message_id
  Texts,          \* message bodies
  Workers,        \* hub processes: each runs one OutboxWorker and the routes
  WindowedConvs,  \* conversations whose channel has a 24-hour reply window
  TemplateConvs,  \* those of them (WhatsApp) that accept template messages
  ReceiptConvs,   \* conversations whose provider reports message statuses
  PolledConvs,    \* conversations (Trendyol) whose answers are polled
  MaxAttempts,    \* 5 in the code
  MaxCrashes,     \* bound on the crashes of a behaviour
  None

ASSUME MessagesAssumption == Messages \subseteq Nat /\ None \notin Messages

ASSUME ChannelsAssumption ==
  /\ TemplateConvs \subseteq WindowedConvs
  /\ WindowedConvs \cup ReceiptConvs \cup PolledConvs \subseteq Conversations
  /\ PolledConvs \cap ReceiptConvs = {}

ASSUME BoundsAssumption == MaxAttempts \in Nat \ {0} /\ MaxCrashes \in Nat

VARIABLES
  row,        \* the columns of a message that never change, None if absent
  status,     \* messages.status
  ext,        \* messages.external_message_id: the request it stands for
  job,        \* outbox_jobs.status
  attempts,   \* outbox_jobs.attempt_count
  due,        \* next_attempt_at <= now
  lockedBy,   \* outbox_jobs.locked_by
  systemRows, \* provider answers the poll stored as SYSTEM messages
  processed,  \* webhook_events with processed_at set
  window,     \* the last inbound message is younger than 24 hours
  pc, held,   \* the worker of a process, and the message of its job
  req,        \* the request the worker awaits
  sends,      \* requests made for a message so far (history)
  failed,     \* failed attempts at a message without an answer (history)
  refusals,   \* those of them that were not to be repeated (history)
  drafts,     \* template requests of a process that await validation
  wire,       \* requests the provider has not decided on
  accepted,   \* requests the provider has accepted
  abandoned,  \* sends whose outcome the worker did not record (history)
  crashes

rows     == <<row, status, ext, systemRows>>
jobs     == <<job, attempts, due, lockedBy>>
worker   == <<pc, held, req, sends, failed, refusals>>
provider == <<wire, accepted>>
vars == <<rows, jobs, processed, window, worker, drafts, provider, abandoned,
          crashes>>

-----------------------------------------------------------------------------
Requests == Messages \X (1..MaxAttempts)
Kinds    == {"TEXT", "TEMPLATE"}
Receipts == {"SENT", "DELIVERED", "READ", "FAILED"}
Rows     == [conv : Conversations, client : ClientIds, text : Texts, kind : Kinds]
Drafts   == TemplateConvs \X ClientIds \X Texts

ASSUME NoneAssumption == None \notin Workers \cup Rows \cup Requests

rank == [s \in {"QUEUED", "SENDING", "SENT", "DELIVERED", "READ"} |->
           CASE s = "QUEUED" -> 0 [] s = "SENDING" -> 1 [] s = "SENT" -> 2
             [] s = "DELIVERED" -> 3 [] s = "READ" -> 4]

\* A handler runs on a process whose event loop the worker does not occupy.
LoopFree(p)     == pc[p] # "claimed"
SomeProcessFree == \E p \in Workers : LoopFree(p)

ClientIdFree(k) == \A m \in Messages : row[m] # None => row[m].client # k

\* validateReply: a text needs an open window, a template never does.
ReplyAllowed(c, kind) == kind = "TEMPLATE" \/ c \notin WindowedConvs \/ window[c]

NextMessage(m) == row[m] = None /\ \A k \in Messages : k < m => row[k] # None

Carried(r) == \E m \in Messages : ext[m] = r
\* UNIQUE(channel_account_id, external_message_id) would be violated by r.
Taken(r) == Carried(r) \/ r \in systemRows

-----------------------------------------------------------------------------
Init ==
  /\ row       = [m \in Messages |-> None]
  /\ status    = [m \in Messages |-> "NONE"]
  /\ ext       = [m \in Messages |-> None]
  /\ job       = [m \in Messages |-> "NONE"]
  /\ attempts  = [m \in Messages |-> 0]
  /\ due       = [m \in Messages |-> FALSE]
  /\ lockedBy  = [m \in Messages |-> None]
  /\ systemRows = {}
  /\ processed = {}
  /\ window    = [c \in Conversations |-> TRUE]
  /\ pc        = [w \in Workers |-> "idle"]
  /\ held      = [w \in Workers |-> None]
  /\ req       = [w \in Workers |-> None]
  /\ sends     = [m \in Messages |-> 0]
  /\ failed    = [m \in Messages |-> 0]
  /\ refusals  = {}
  /\ drafts    = [w \in Workers |-> {}]
  /\ wire      = {}
  /\ accepted  = {}
  /\ abandoned = {}
  /\ crashes   = 0

MutInsertUnchecked(m, c, k, t, kind) ==
  /\ NextMessage(m)
  /\ ReplyAllowed(c, kind)
  /\ row'    = [row EXCEPT ![m] = [conv |-> c, client |-> k, text |-> t, kind |-> kind]]
  /\ status' = [status EXCEPT ![m] = "QUEUED"]
  /\ job'    = [job EXCEPT ![m] = "PENDING"]
  /\ due'    = [due EXCEPT ![m] = TRUE]
  /\ UNCHANGED <<ext, systemRows, attempts, lockedBy>>

\* queueOutbound: the message and its job.  The UNIQUE index on client_message_id, which
\* would refuse a second row as well, is left out.
Insert(m, c, k, t, kind) ==
  /\ NextMessage(m)
  /\ ClientIdFree(k)
  /\ ReplyAllowed(c, kind)
  /\ row'    = [row EXCEPT ![m] = [conv |-> c, client |-> k, text |-> t, kind |-> kind]]
  /\ status' = [status EXCEPT ![m] = "QUEUED"]
  /\ job'    = [job EXCEPT ![m] = "PENDING"]
  /\ due'    = [due EXCEPT ![m] = TRUE]
  /\ UNCHANGED <<ext, systemRows, attempts, lockedBy>>

\* POST /conversations/:id/replies.  A known client id changes nothing.
QueueReply(m, c, k, t) ==
  /\ SomeProcessFree
  /\ Insert(m, c, k, t, "TEXT")
  /\ UNCHANGED <<processed, window, worker, drafts, provider, abandoned, crashes>>

\* POST /conversations/:id/whatsapp-template up to its await.
TemplateRequested(p, c, k, t) ==
  /\ LoopFree(p)
  /\ c \in TemplateConvs
  /\ ClientIdFree(k)
  /\ drafts' = [drafts EXCEPT ![p] = @ \cup {<<c, k, t>>}]
  /\ UNCHANGED <<rows, jobs, processed, window, worker, provider, abandoned, crashes>>

\* The provider knows the template: queueWhatsAppTemplate checks the id again.
TemplateValidated(p, m, d) ==
  /\ LoopFree(p)
  /\ d \in drafts[p]
  /\ Insert(m, d[1], d[2], d[3], "TEMPLATE")
  /\ drafts' = [drafts EXCEPT ![p] = @ \ {d}]
  /\ UNCHANGED <<processed, window, worker, provider, abandoned, crashes>>

\* The validation failed, or the client id was taken during the await.
TemplateDropped(p, d) ==
  /\ LoopFree(p)
  /\ d \in drafts[p]
  /\ drafts' = [drafts EXCEPT ![p] = @ \ {d}]
  /\ UNCHANGED <<rows, jobs, processed, window, worker, provider, abandoned, crashes>>

-----------------------------------------------------------------------------
(* The worker: OutboxWorker.tick and claim.                                *)

MutDueJobsIgnoringLock == {m \in Messages : job[m] \in {"PENDING", "PROCESSING"} /\ due[m]}

DueJobs == {m \in Messages : job[m] = "PENDING" /\ due[m] /\ lockedBy[m] = None}

\* The worker is not running: its last tick has ended.  This is why one `held' and one `req'
\* per process are enough for the locals of tick.
Free(w) == pc[w] = "idle"

Claim(w) ==
  /\ Free(w)
  /\ \E m \in DueJobs :
       /\ \A k \in DueJobs : m <= k
       /\ job'      = [job EXCEPT ![m] = "PROCESSING"]
       /\ lockedBy' = [lockedBy EXCEPT ![m] = w]
       /\ status'   = [status EXCEPT ![m] = IF @ = "QUEUED" THEN "SENDING" ELSE @]
       /\ held'     = [held EXCEPT ![w] = m]
  /\ pc' = [pc EXCEPT ![w] = "claimed"]
  /\ UNCHANGED <<row, ext, systemRows, attempts, due, processed, window, req, sends,
                 failed, refusals, drafts, provider, abandoned, crashes>>

\* validateReply, phase SEND: the window is read again at each attempt.
SendAllowed(m) == ReplyAllowed(row[m].conv, row[m].kind)

Dispatch(w) ==
  /\ pc[w] = "claimed"
  /\ SendAllowed(held[w])
  /\ sends' = [sends EXCEPT ![held[w]] = @ + 1]
  /\ req'   = [req EXCEPT ![w] = <<held[w], sends[held[w]] + 1>>]
  /\ wire'  = wire \cup {<<held[w], sends[held[w]] + 1>>}
  /\ pc'    = [pc EXCEPT ![w] = "awaiting"]
  /\ UNCHANGED <<rows, jobs, processed, window, held, failed, refusals, drafts, accepted,
                 abandoned, crashes>>

\* Only the holder of the lock may write the outcome of an attempt.
Owns(w, m) == lockedBy[m] = w

MutTerminalEarly(m, retryable) == ~retryable \/ attempts[m] + 2 >= MaxAttempts
MutTerminalOffByOne(m, retryable) == ~retryable \/ attempts[m] + 1 > MaxAttempts
Terminal(m, retryable) == ~retryable \/ attempts[m] + 1 >= MaxAttempts

MutLockKept(w) == w
\* locked_by after a failed attempt.
LockAfterFailure(w) == None

\* The catch block of tick: FAILED, or QUEUED again after a backoff.
Fail(w, retryable) ==
  LET m == held[w] IN
  /\ status' = IF Owns(w, m) /\ job[m] = "PROCESSING"
               THEN [status EXCEPT ![m] = IF Terminal(m, retryable) THEN "FAILED" ELSE "QUEUED"]
               ELSE status
  /\ IF Owns(w, m)
     THEN /\ job'      = [job EXCEPT ![m] = IF Terminal(m, retryable) THEN "FAILED" ELSE "PENDING"]
          /\ attempts' = [attempts EXCEPT ![m] = @ + 1]
          /\ due'      = [due EXCEPT ![m] = FALSE]
          /\ lockedBy' = [lockedBy EXCEPT ![m] = LockAfterFailure(w)]
     ELSE UNCHANGED jobs
  /\ pc'   = [pc EXCEPT ![w] = "idle"]
  /\ held' = [held EXCEPT ![w] = None]
  /\ req'  = [req EXCEPT ![w] = None]
  /\ failed'   = IF ext[m] = None THEN [failed EXCEPT ![m] = @ + 1] ELSE failed
  /\ refusals' = IF ext[m] = None /\ ~retryable THEN refusals \cup {m} ELSE refusals
  /\ UNCHANGED <<row, ext, systemRows, sends>>

\* Decryption, attachments, validateReply or the account's credentials fail.  An unknown
\* channel type would fail before the inner try; every type is registered.
PreparationFails(w, retryable) ==
  /\ pc[w] = "claimed"
  /\ Fail(w, retryable)
  /\ UNCHANGED <<processed, window, drafts, provider, abandoned, crashes>>

\* The provider answered with an error status.
Refused(w, retryable) ==
  /\ pc[w] = "awaiting"
  /\ req[w] \in wire
  /\ wire' = wire \ {req[w]}
  /\ Fail(w, retryable)
  /\ UNCHANGED <<processed, window, drafts, accepted, abandoned, crashes>>

\* No usable answer arrived in time; the provider may still accept.
TimesOut(w) ==
  /\ pc[w] = "awaiting"
  /\ abandoned' = abandoned \cup {req[w]}
  /\ Fail(w, TRUE)
  /\ UNCHANGED <<processed, window, drafts, provider, crashes>>

\* The success transaction violates the UNIQUE index, inside the try block.
Collides(w) ==
  /\ pc[w] = "awaiting"
  /\ req[w] \in accepted
  /\ status[held[w]] = "SENDING" /\ Taken(req[w])
  /\ abandoned' = abandoned \cup {req[w]}
  /\ Fail(w, TRUE)
  /\ UNCHANGED <<processed, window, drafts, provider, crashes>>

MutCompleteWithoutId(w) ==
  LET m == held[w] IN
  /\ pc[w] = "awaiting"
  /\ req[w] \in accepted
  /\ status' = [status EXCEPT ![m] = IF @ = "SENDING" THEN "SENT" ELSE @]
  /\ job'      = [job EXCEPT ![m] = IF Owns(w, m) THEN "COMPLETED" ELSE @]
  /\ lockedBy' = [lockedBy EXCEPT ![m] = IF Owns(w, m) THEN None ELSE @]
  /\ pc'   = [pc EXCEPT ![w] = "idle"]
  /\ held' = [held EXCEPT ![w] = None]
  /\ req'  = [req EXCEPT ![w] = None]
  /\ UNCHANGED <<row, ext, systemRows, attempts, due, processed, window, sends,
                 failed, refusals, drafts, provider, abandoned, crashes>>

\* The success transaction of tick.
Complete(w) ==
  LET m == held[w] IN
  /\ pc[w] = "awaiting"
  /\ req[w] \in accepted
  /\ ~ (status[m] = "SENDING" /\ Taken(req[w]))
  /\ IF status[m] = "SENDING"
     THEN /\ status' = [status EXCEPT ![m] = "SENT"]
          /\ ext'    = [ext EXCEPT ![m] = req[w]]
     ELSE UNCHANGED <<status, ext>>
  /\ IF Owns(w, m)
     THEN /\ job'      = [job EXCEPT ![m] = "COMPLETED"]
          /\ lockedBy' = [lockedBy EXCEPT ![m] = None]
     ELSE UNCHANGED <<job, lockedBy>>
  /\ pc'   = [pc EXCEPT ![w] = "idle"]
  /\ held' = [held EXCEPT ![w] = None]
  /\ req'  = [req EXCEPT ![w] = None]
  /\ UNCHANGED <<row, systemRows, attempts, due, processed, window, sends, failed, refusals,
                 drafts, provider, abandoned, crashes>>

BackoffElapses(m) ==
  /\ job[m] = "PENDING" /\ ~due[m]
  /\ due' = [due EXCEPT ![m] = TRUE]
  /\ UNCHANGED <<rows, job, attempts, lockedBy, processed, window, worker, drafts,
                 provider, abandoned, crashes>>

-----------------------------------------------------------------------------
(* The provider and the customer.                                          *)

Accept(r) ==
  /\ r \in wire
  /\ wire' = wire \ {r}
  /\ accepted' = accepted \cup {r}
  /\ UNCHANGED <<rows, jobs, processed, window, worker, drafts, abandoned, crashes>>

WindowCloses(c) ==
  /\ c \in WindowedConvs /\ window[c]
  /\ window' = [window EXCEPT ![c] = FALSE]
  /\ UNCHANGED <<rows, jobs, processed, worker, drafts, provider, abandoned, crashes>>

CustomerWrites(c) ==
  /\ SomeProcessFree
  /\ c \in WindowedConvs /\ ~window[c]
  /\ window' = [window EXCEPT ![c] = TRUE]
  /\ UNCHANGED <<rows, jobs, processed, worker, drafts, provider, abandoned, crashes>>

MutAdvancesAlways(old, new) == new = "FAILED" \/ old # "FAILED"
MutFailedAlwaysApplies(old, new) ==
  IF new = "FAILED" THEN TRUE ELSE old # "FAILED" /\ rank[new] > rank[old]
\* shouldUpdate of applyMessageStatus.
Advances(old, new) ==
  IF new = "FAILED" THEN old \notin {"DELIVERED", "READ", "FAILED"}
                    ELSE old # "FAILED" /\ rank[new] > rank[old]

\* applyMessageStatus.  A receipt whose message is not recorded yet raises
\* an error and its transaction changes nothing: the provider sends it again.
ReceiptArrives(m, s) ==
  /\ SomeProcessFree
  /\ ext[m] # None /\ row[m].conv \in ReceiptConvs
  /\ <<ext[m], s>> \notin processed
  /\ status' = [status EXCEPT ![m] = IF Advances(@, s) THEN s ELSE @]
  /\ processed' = processed \cup {<<ext[m], s>>}
  /\ UNCHANGED <<row, ext, systemRows, jobs, window, worker, drafts, provider,
                 abandoned, crashes>>

-----------------------------------------------------------------------------
(* The marketplace poll: syncProviderAnswer.                               *)

MutAdoptableAnyText(r) ==
  {m \in Messages : /\ row[m] # None
                    /\ row[m].conv = row[r[1]].conv
                    /\ ext[m] = None
                    /\ status[m] \in {"QUEUED", "SENDING", "SENT"}}

Adoptable(r) ==
  {m \in Messages : /\ row[m] # None
                    /\ row[m].conv = row[r[1]].conv
                    /\ row[m].text = row[r[1]].text
                    /\ ext[m] = None
                    /\ status[m] \in {"QUEUED", "SENDING", "SENT"}}

AnswerSeen(r) == SomeProcessFree /\ r \in accepted /\ row[r[1]].conv \in PolledConvs

\* The row that already carries the answer is set to SENT.
AnswerKnown(m, r) ==
  /\ AnswerSeen(r)
  /\ ext[m] = r
  /\ status' = [status EXCEPT ![m] = "SENT"]
  /\ UNCHANGED <<row, ext, systemRows, jobs, processed, window, worker, drafts,
                 provider, abandoned, crashes>>

\* The newest open reply with the same text takes the answer and its job ends.
MutAnswerAdoptedJobLeft(m, r) ==
  /\ AnswerSeen(r)
  /\ ~Taken(r)
  /\ m \in Adoptable(r) /\ \A k \in Adoptable(r) : k <= m
  /\ ext'    = [ext EXCEPT ![m] = r]
  /\ status' = [status EXCEPT ![m] = "SENT"]
  /\ UNCHANGED <<row, systemRows, jobs, processed, window, worker,
                 drafts, provider, abandoned, crashes>>

AnswerAdopted(m, r) ==
  /\ AnswerSeen(r)
  /\ ~Taken(r)
  /\ m \in Adoptable(r) /\ \A k \in Adoptable(r) : k <= m
  /\ ext'    = [ext EXCEPT ![m] = r]
  /\ status' = [status EXCEPT ![m] = "SENT"]
  /\ IF job[m] \in {"PENDING", "PROCESSING"}
     THEN /\ job'      = [job EXCEPT ![m] = "COMPLETED"]
          /\ lockedBy' = [lockedBy EXCEPT ![m] = None]
     ELSE UNCHANGED <<job, lockedBy>>
  /\ UNCHANGED <<row, systemRows, attempts, due, processed, window, worker,
                 drafts, provider, abandoned, crashes>>

AnswerAppended(r) ==
  /\ AnswerSeen(r)
  /\ ~Taken(r)
  /\ Adoptable(r) = {}
  /\ systemRows' = systemRows \cup {r}
  /\ UNCHANGED <<row, status, ext, jobs, processed, window, worker, drafts,
                 provider, abandoned, crashes>>

-----------------------------------------------------------------------------
\* The process stops and is started again; nothing recovers its job.
Crash(w) ==
  /\ crashes < MaxCrashes
  /\ crashes'   = crashes + 1
  /\ abandoned' = IF pc[w] = "awaiting" THEN abandoned \cup {req[w]} ELSE abandoned
  /\ pc'     = [pc EXCEPT ![w] = "idle"]
  /\ held'   = [held EXCEPT ![w] = None]
  /\ req'    = [req EXCEPT ![w] = None]
  /\ drafts' = [drafts EXCEPT ![w] = {}]
  /\ UNCHANGED <<rows, jobs, processed, window, sends, failed, refusals, provider>>

WorkerStep(w) ==
  \/ Claim(w)
  \/ Dispatch(w)
  \/ Complete(w)
  \/ Collides(w)
  \/ TimesOut(w)
  \/ \E retryable \in BOOLEAN : PreparationFails(w, retryable)
  \/ \E retryable \in BOOLEAN : Refused(w, retryable)

Next ==
  \/ \E m \in Messages, c \in Conversations, k \in ClientIds, t \in Texts :
       QueueReply(m, c, k, t)
  \/ \E p \in Workers, c \in Conversations, k \in ClientIds, t \in Texts :
       TemplateRequested(p, c, k, t)
  \/ \E p \in Workers, m \in Messages, d \in Drafts : TemplateValidated(p, m, d)
  \/ \E p \in Workers, d \in Drafts : TemplateDropped(p, d)
  \/ \E w \in Workers : WorkerStep(w) \/ Crash(w)
  \/ \E m \in Messages : BackoffElapses(m)
  \/ \E r \in Requests : Accept(r)
  \/ \E c \in Conversations : WindowCloses(c) \/ CustomerWrites(c)
  \/ \E m \in Messages, s \in Receipts : ReceiptArrives(m, s)
  \/ \E m \in Messages, r \in Requests : AnswerKnown(m, r) \/ AnswerAdopted(m, r)
  \/ \E r \in Requests : AnswerAppended(r)

Spec == Init /\ [][Next]_vars

\* The poll timer keeps firing, a request ends at the latest by its timeout,
\* and time passes.  Nothing is assumed of the provider.
Fairness ==
  /\ \A w \in Workers : WF_vars(WorkerStep(w))
  /\ \A m \in Messages : WF_vars(BackoffElapses(m))

FairSpec == Spec /\ Fairness

-----------------------------------------------------------------------------
(* Properties.                                                             *)

MessageStatuses == {"NONE", "QUEUED", "SENDING", "SENT", "DELIVERED", "READ", "FAILED"}
JobStatuses     == {"NONE", "PENDING", "PROCESSING", "COMPLETED", "FAILED"}

\* Types of the rows, the jobs, the workers and the provider's requests; no
\* request beyond the retry budget of server/outbox/worker.ts is ever built.
TypeOK ==
  /\ row      \in [Messages -> Rows \cup {None}]
  /\ status   \in [Messages -> MessageStatuses]
  /\ ext      \in [Messages -> Requests \cup {None}]
  /\ job      \in [Messages -> JobStatuses]
  /\ attempts \in [Messages -> 0..MaxAttempts]
  /\ due      \in [Messages -> BOOLEAN]
  /\ lockedBy \in [Messages -> Workers \cup {None}]
  /\ systemRows \in SUBSET Requests
  /\ processed  \in SUBSET (Requests \X Receipts)
  /\ window   \in [Conversations -> BOOLEAN]
  /\ pc       \in [Workers -> {"idle", "claimed", "awaiting"}]
  /\ held     \in [Workers -> Messages \cup {None}]
  /\ req      \in [Workers -> Requests \cup {None}]
  /\ sends    \in [Messages -> 0..MaxAttempts]
  /\ failed   \in [Messages -> 0..MaxAttempts] /\ refusals \subseteq Messages
  /\ drafts   \in [Workers -> SUBSET Drafts]
  /\ wire      \in SUBSET Requests
  /\ accepted  \in SUBSET Requests
  /\ abandoned \in SUBSET Requests
  /\ crashes   \in 0..MaxCrashes

\* A message and its job are written by four handlers and never disagree:
\* QUEUED goes with PENDING, SENDING with PROCESSING under a lock, and an
\* external id with COMPLETED; a job that can still be tried has attempts left.
JobAgrees(m) ==
  /\ (row[m] = None) <=> (status[m] = "NONE")
  /\ (job[m] = "NONE") <=> (status[m] = "NONE")
  /\ (job[m] = "PENDING") <=> (status[m] = "QUEUED")
  /\ (job[m] = "PROCESSING") <=> (status[m] = "SENDING")
  /\ (job[m] = "PROCESSING") <=> (lockedBy[m] # None)
  /\ (job[m] = "COMPLETED") <=> (ext[m] # None)
  /\ (job[m] = "FAILED") => (status[m] = "FAILED")
  /\ (job[m] \notin {"FAILED"}) => (attempts[m] < MaxAttempts)

JobMessageAgree == \A m \in Messages : JobAgrees(m)

\* Two workers never work on one message at a time, and the job a worker has
\* in hand is locked by it, or was completed under it by the poll.
Holds(w, m) == pc[w] # "idle" /\ held[w] = m

OneSender ==
  /\ \A v, w \in Workers : \A m \in Messages : Holds(v, m) /\ Holds(w, m) => v = w
  /\ \A w \in Workers, m \in Messages :
       Holds(w, m) => (job[m] = "PROCESSING" /\ lockedBy[m] = w) \/ job[m] = "COMPLETED"

\* A client id names one message, also when a template request checked it
\* before its await and queued after another request had used it.
OneMessagePerClientId ==
  \A m, n \in Messages :
    row[m] # None /\ row[n] # None /\ row[m].client = row[n].client => m = n

\* Nothing the provider accepted is forgotten: the request is recorded on a
\* row, or still awaited, unless the outcome of a send of that message was lost
\* or the poll had given the message the equal answer of another one.
Awaited(r) == \E w \in Workers : pc[w] = "awaiting" /\ req[w] = r
AbandonedSome(m) == \E q \in abandoned : q[1] = m

Crossed(m) == ext[m] # None /\ ext[m][1] # m

AcceptedIsRecorded ==
  \A r \in accepted : Taken(r) \/ Awaited(r) \/ AbandonedSome(r[1]) \/ Crossed(r[1])

\* A provider is handed a message a second time only after the outcome of an
\* earlier send was lost: a refusal or a success never leads to a duplicate.
DuplicateOnlyAfterLoss ==
  \A r, q \in accepted : r[1] = q[1] /\ r # q => AbandonedSome(r[1])

\* An external id the hub shows on a message is an accepted request that
\* carried this very text in this very conversation, and no two rows share it.
RecordedIsGenuine ==
  \A m \in Messages : ext[m] # None =>
    /\ ext[m] \in accepted
    /\ row[ext[m][1]].conv = row[m].conv
    /\ row[ext[m][1]].text = row[m].text
    /\ ext[m] \notin systemRows
    /\ \A n \in Messages : ext[n] = ext[m] => n = m

\* Receipts may come in any order and twice: the status of a message is the
\* furthest one processed for it, unless a failure was reported first.
ReceiptsConverge ==
  \A m \in Messages : ext[m] # None /\ status[m] # "FAILED" =>
    LET seen == {s \in {"SENT", "DELIVERED", "READ"} : <<ext[m], s>> \in processed} \cup {"SENT"}
    IN  status[m] \in seen /\ \A s \in seen : rank[s] <= rank[status[m]]

\* A reply is given up exactly when there is cause: an attempt failed for good, or
\* MaxAttempts attempts failed, as many as the schedule of backoffs allows.  A reply that still
\* waits has neither behind it, whichever process, crash or poll took part in its attempts.
GivenUpForCause ==
  \A m \in Messages :
    LET cause == m \in refusals \/ failed[m] = MaxAttempts IN
    /\ job[m] = "FAILED" => cause
    /\ job[m] \in {"PENDING", "PROCESSING"} => ~cause

Settled(m)  == status[m] \in {"SENT", "DELIVERED", "READ", "FAILED"}
Stranded(m) == status[m] = "SENDING" /\ \A w \in Workers : ~Holds(w, m)

\* A job that is locked or PROCESSING is in some worker's hand, but for one per crash, which
\* the crash took from its worker: no outcome of an attempt, whether it sends, fails or backs
\* off, leaves behind a job that claim never selects again.
Orphaned(m) ==
  /\ lockedBy[m] # None \/ job[m] = "PROCESSING"
  /\ \A w \in Workers : ~Holds(w, m)

OneOrphanPerCrash ==
  LET orphans == {m \in Messages : Orphaned(m)} IN
  IsFiniteSet(orphans) /\ Cardinality(orphans) <= crashes

\* Every queued reply is eventually sent or failed, unless the process that
\* had claimed it crashed.
EverySendSettles == \A m \in Messages : status[m] = "QUEUED" ~> (Settled(m) \/ Stranded(m))
=============================================================================
