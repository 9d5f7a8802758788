------------------------------ MODULE EmailSync ------------------------------
(***************************************************************************)
(* How a mailbox gets into the inbox (server/channels/email/adapter.ts,    *)
(* threading.ts, and ingestInbound and persistInboundAttachments as it     *)
(* calls them).  A poll opens the mailbox, lists what is new, fetches and  *)
(* stores mail by mail, and moves its two cursors when all is done; the    *)
(* mailbox goes on changing at every await.  What is stored of one mail    *)
(* are three transactions: its row, its files, and the thread's metadata,  *)
(* from which the outbox takes the References of the agents' replies.      *)
(*                                                                         *)
(* The scheduler runs one poll at a time, repeats it after an error, and   *)
(* gives the account up (DEGRADED) after five errors in a row; a crash     *)
(* loses the poll and nothing else.  What an administrator does about a    *)
(* degraded account, bodies, names, subjects and the rows of contacts are  *)
(* left out; a mail without a valid sender is Malformed.                   *)
(***************************************************************************)
EXTENDS Naturals, Sequences, FiniteSets, SequencesExt

CONSTANTS
  Mails,           \* what customers write
  Replies,         \* hub messages, by their Message-ID
  InReplyTo,       \* InReplyTo[m]: the mail or reply that m answers, or None
  KeepsReferences, \* mails of clients that send References
  Anonymous,       \* mails without a Message-ID
  Malformed,       \* mails without a valid sender
  Attached,        \* mails with a file that filterInboundAttachments accepts
  FirstSyncMax,    \* INITIAL_SYNC_MAX_MESSAGES
  DegradedAfter,   \* consecutive failures that degrade an account, 5 in the scheduler
  MaxUid, MaxValidity, MaxCrashes,
  None

Uids       == 1..MaxUid
Validities == 1..MaxValidity

ASSUME MailsAssumption ==
  /\ Mails \cap Replies = {} /\ None \notin Mails \cup Replies
  /\ (Mails \cup Replies \cup {None}) \cap (Validities \X Uids) = {}
  /\ UNION {KeepsReferences, Anonymous, Malformed, Attached} \subseteq Mails
  /\ InReplyTo \in [Mails -> (Mails \ Anonymous) \cup Replies \cup {None}]
ASSUME BoundsAssumption ==
  /\ {FirstSyncMax, DegradedAfter, MaxUid, MaxValidity} \subseteq Nat \ {0}
  /\ MaxCrashes \in Nat

\* Message-IDs, those of fallbackMessageId included.
Ids        == Mails \cup Replies \cup (Validities \X Uids)

VARIABLES
  box,        \* the mailbox: the mail with a uid, or None
  next,       \* UIDNEXT
  validity,   \* UIDVALIDITY
  gone,       \* mails that were deleted or moved away, for good
  aged,       \* mails that are more than INITIAL_SYNC_DAYS old
  references, \* References of the mails that were written
  cursor,     \* the two sync_cursors, or None
  message,    \* messages by external id: the conversation and what is in it
  filed,      \* messages whose attachments are stored
  thread,     \* metadata_json of a conversation: root, latest and references
  reply,      \* conversation, In-Reply-To and References of the replies sent
  session,    \* the poll that runs, or None
  outside,    \* mails a first poll left out by its bounds (history)
  failures,   \* consecutive_failure_count of the account
  crashes

mailbox == <<box, next, validity, gone, aged, references>>
hub     == <<message, filed, thread, reply>>
vars    == <<mailbox, hub, cursor, session, outside, failures, crashes>>

-----------------------------------------------------------------------------
Present    == {u \in Uids : box[u] # None}
InBox(m)   == \E u \in Present : box[u] = m
Written(m) == references[m] # None
Stored     == DOMAIN message
Convs      == DOMAIN thread
MaxOf(i, j) == IF i > j THEN i ELSE j

\* The mail's Message-ID, or the id derived from its place in the mailbox.
MessageId(m, v, u) == IF m \in Anonymous THEN <<v, u>> ELSE m

\* The n largest members of a set of uids.
Latest(n, S) == {u \in S : Cardinality({w \in S : w > u}) < n}

\* The k-th smallest member of a set of numbers.
Nth(S, k) == CHOOSE i \in S : Cardinality({j \in S : j < i}) = k - 1

\* A header of ids; a search from its end sees the last occurrence of each.
LastSeen(s) == {i \in DOMAIN s : \A j \in DOMAIN s : j > i => s[j] # s[i]}
IdList(s)   == [k \in 1..Cardinality(LastSeen(s)) |-> s[Nth(LastSeen(s), k)]]

\* Threads are named after the mail that opened them.
Unknown == [root |-> None, latest |-> None, references |-> <<>>]

Init ==
  /\ box = [u \in Uids |-> None] /\ next = 1 /\ validity = 1
  /\ gone = {} /\ aged = {} /\ references = [m \in Mails |-> None]
  /\ cursor = None /\ session = None
  /\ message = <<>> /\ filed = {} /\ thread = <<>>
  /\ reply = [h \in Replies |-> None]
  /\ outside = {} /\ failures = 0 /\ crashes = 0

-----------------------------------------------------------------------------
(* The mailbox and its correspondents.                                     *)

\* A customer writes a mail: a new one, or an answer to what it has seen.
Write(m) ==
  /\ ~Written(m)
  /\ LET p == InReplyTo[m] IN
     /\ p \in Mails => Written(p)
     /\ p \in Replies => reply[p] # None
     /\ references' = [references EXCEPT ![m] =
          IF m \notin KeepsReferences \/ p = None THEN <<>>
          ELSE Append(IF p \in Mails THEN references[p] ELSE reply[p].references, p)]
  /\ UNCHANGED <<box, next, validity, gone, aged, hub, cursor, session, outside, failures, crashes>>

Arrive(m) ==
  /\ Written(m) /\ next <= MaxUid
  /\ ~InBox(m) /\ m \notin gone
  /\ box' = [box EXCEPT ![next] = m] /\ next' = next + 1
  /\ UNCHANGED <<validity, gone, aged, references, hub, cursor, session, outside, failures, crashes>>

Age(m) ==
  /\ InBox(m) /\ aged' = aged \cup {m}
  /\ UNCHANGED <<box, next, validity, gone, references, hub, cursor, session, outside, failures, crashes>>

\* Someone deletes a mail or moves it away.
Expunge(u) ==
  /\ u \in Present
  /\ box' = [box EXCEPT ![u] = None] /\ gone' = gone \cup {box[u]}
  /\ UNCHANGED <<next, validity, aged, references, hub, cursor, session, outside, failures, crashes>>

\* The server numbers the mailbox anew; a session on it ends.
Renumber ==
  /\ validity < MaxValidity /\ validity' = validity + 1
  /\ box' = [u \in Uids |-> IF u <= Cardinality(Present) THEN box[Nth(Present, u)] ELSE None]
  /\ next' = Cardinality(Present) + 1
  /\ session' = None
  /\ failures' = IF session = None THEN failures ELSE failures + 1
  /\ UNCHANGED <<gone, aged, references, hub, cursor, outside, crashes>>

-----------------------------------------------------------------------------
(* A poll.                                                                 *)

At(stage)   == session # None /\ session.stage = stage
Fails       == session' = None /\ failures' = failures + 1
Incremental == cursor # None /\ cursor.validity = validity
\* What lastUid starts from; next was read by Open.
Baseline == IF Incremental THEN cursor.uid ELSE session.last

Degraded == failures >= DegradedAfter

\* connect, open; the cursors only change when this poll ends.
Open ==
  /\ session = None /\ ~Degraded
  /\ session' = [stage |-> "open", todo |-> {}, last |-> next - 1, uid |-> 0, mail |-> None]
  /\ UNCHANGED <<mailbox, hub, cursor, outside, failures, crashes>>

MutListedLate ==
  IF Incremental THEN {u \in Present : u > cursor.uid + 1}
  ELSE Latest(FirstSyncMax, {u \in Present : box[u] \notin aged})
\* What search returns, filtered and cut.  The range prev+1:* also returns the highest
\* uid when it is not above prev; the filter drops it.
Listed ==
  IF Incremental THEN {u \in Present : u > cursor.uid}
  ELSE Latest(FirstSyncMax, {u \in Present : box[u] \notin aged})

List ==
  /\ At("open")
  /\ session' = [session EXCEPT !.stage = "listed", !.todo = Listed, !.last = Baseline]
  /\ outside' = IF Incremental THEN outside ELSE outside \cup {box[u] : u \in Present \ Listed}
  /\ UNCHANGED <<mailbox, hub, cursor, failures, crashes>>

MutFirstIsNewest(S) == CHOOSE u \in S : \A w \in S : w <= u
\* The uids are sorted in ascending order.
First(S) == CHOOSE u \in S : \A w \in S : u <= w

Fetch ==
  /\ At("listed") /\ session.todo # {}
  /\ LET u == First(session.todo) IN
     /\ u \in Present
     /\ session' = [session EXCEPT !.stage = "fetched", !.uid = u, !.mail = box[u]]
  /\ UNCHANGED <<mailbox, hub, cursor, outside, failures, crashes>>

\* The mail is gone: an error, the poll is over.
FetchNothing ==
  /\ At("listed") /\ session.todo # {} /\ First(session.todo) \notin Present
  /\ Fails
  /\ UNCHANGED <<mailbox, hub, cursor, outside, crashes>>

Reject ==
  /\ At("fetched") /\ session.mail \in Malformed
  /\ Fails
  /\ UNCHANGED <<mailbox, hub, cursor, outside, crashes>>

Id == MessageId(session.mail, validity, session.uid)

MutCitesDirectly(m) == <<InReplyTo[m]>>
\* What the mail cites: In-Reply-To first, then References from the end.
Cites(m) == <<InReplyTo[m]>> \o Reverse(references[m])

\* resolveEmailThread: the conversation of the first id that is stored.
ThreadOf(m) ==
  LET hits == {i \in DOMAIN Cites(m) : Cites(m)[i] \in Stored} IN
  IF hits = {} THEN Id ELSE message[Cites(m)[First(hits)]].conv

\* The tables with a new row.
WithMessage(i, c, m) ==
  [j \in Stored \cup {i} |-> IF j = i THEN [conv |-> c, mail |-> m] ELSE message[j]]
WithThread(c, refs) ==
  [d \in Convs \cup {c} |-> IF d = c THEN [Unknown EXCEPT !.references = refs] ELSE thread[d]]

MutIngestRowSkipsDuplicate ==
  /\ At("fetched") /\ session.mail \notin Malformed
  /\ LET c == ThreadOf(session.mail) IN
     IF Id \in Stored
     THEN /\ session' = [session EXCEPT !.stage = "listed", !.todo = @ \ {session.uid},
                                       !.last = MaxOf(@, session.uid), !.uid = 0, !.mail = None]
          /\ UNCHANGED <<message, thread>>
     ELSE /\ session' = [session EXCEPT !.stage = "stored"]
          /\ message' = WithMessage(Id, c, session.mail)
          /\ thread' = IF c \in Convs THEN thread ELSE WithThread(c, references[session.mail])
  /\ UNCHANGED <<mailbox, filed, reply, cursor, outside, failures, crashes>>

\* ingestInbound: the row, and a new conversation's first metadata.
IngestRow ==
  /\ At("fetched") /\ session.mail \notin Malformed
  /\ LET c == ThreadOf(session.mail) IN
     IF Id \in Stored THEN UNCHANGED <<message, thread>>
     ELSE /\ message' = WithMessage(Id, c, session.mail)
          /\ thread' = IF c \in Convs THEN thread ELSE WithThread(c, references[session.mail])
  /\ session' = [session EXCEPT !.stage = "stored"]
  /\ UNCHANGED <<mailbox, filed, reply, cursor, outside, failures, crashes>>

\* persistInboundAttachments: the files with their rows.
Persist ==
  /\ At("stored")
  /\ filed' = IF session.mail \in Attached THEN filed \cup {Id} ELSE filed
  /\ session' = [session EXCEPT !.stage = "filed"]
  /\ UNCHANGED <<mailbox, message, thread, reply, cursor, outside, failures, crashes>>

\* The thread's metadata; the next uid.
Describe ==
  /\ At("filed")
  /\ LET m    == session.mail
         c    == message[Id].conv
         t    == thread[c]
         cite == IF references[m] # <<>> THEN references[m][1] ELSE InReplyTo[m]
         root == IF t.root # None THEN t.root ELSE IF cite # None THEN cite ELSE Id
     IN thread' = [thread EXCEPT ![c] =
          [root |-> root, latest |-> Id,
           references |-> IdList(t.references \o references[m] \o <<root, Id>>)]]
  /\ session' = [session EXCEPT !.stage = "listed", !.todo = @ \ {session.uid},
                                !.last = MaxOf(@, session.uid), !.uid = 0, !.mail = None]
  /\ UNCHANGED <<mailbox, message, filed, reply, cursor, outside, failures, crashes>>

MutReachedNext == next
\* lastUid when the loop has ended.
Reached == session.last

\* storeCursors, and the scheduler's update after a success.
Finish ==
  /\ At("listed") /\ session.todo = {}
  /\ cursor' = [validity |-> validity, uid |-> Reached]
  /\ session' = None /\ failures' = 0
  /\ UNCHANGED <<mailbox, hub, outside, crashes>>

\* The provider, the database or the disk fails.
Fail ==
  /\ session # None /\ Fails
  /\ UNCHANGED <<mailbox, hub, cursor, outside, crashes>>

Crash ==
  /\ session # None /\ crashes < MaxCrashes
  /\ session' = None /\ crashes' = crashes + 1
  /\ UNCHANGED <<mailbox, hub, cursor, outside, failures>>

-----------------------------------------------------------------------------
(* Replies: the outbox reads the thread's metadata, sends, and records the *)
(* Message-ID when the server has answered, if ever.                       *)

\* No await between the three transactions of a mail keeps the worker out.
LoopFree == ~At("stored") /\ ~At("filed")

\* EmailAdapter.sendMessage.
Send(h, c) ==
  /\ LoopFree /\ reply[h] = None /\ c \in Convs
  /\ reply' = [reply EXCEPT ![h] =
       [conv |-> c, inReplyTo |-> thread[c].latest, references |-> thread[c].references]]
  /\ UNCHANGED <<mailbox, message, filed, thread, cursor, session, outside, failures, crashes>>

Recorded(h) ==
  /\ LoopFree /\ reply[h] # None /\ h \notin Stored
  /\ message' = WithMessage(h, reply[h].conv, h)
  /\ UNCHANGED <<mailbox, filed, thread, reply, cursor, session, outside, failures, crashes>>

-----------------------------------------------------------------------------
PollStep == \/ Open \/ List \/ Fetch \/ FetchNothing \/ Reject
            \/ IngestRow \/ Persist \/ Describe \/ Finish

Next ==
  \/ PollStep \/ Fail \/ Crash \/ Renumber
  \/ \E m \in Mails : Write(m) \/ Arrive(m) \/ Age(m)
  \/ \E u \in Uids : Expunge(u)
  \/ \E h \in Replies, c \in Convs : Send(h, c)
  \/ \E h \in Replies : Recorded(h)

Spec     == Init /\ [][Next]_vars
\* The scheduler polls an active account for ever, and a request ends with its timeout.
FairSpec == Spec /\ WF_vars(PollStep)

-----------------------------------------------------------------------------
Polls == [stage : {"open", "listed", "fetched", "stored", "filed"}, todo : SUBSET Uids,
          last : 0..MaxUid, uid : 0..MaxUid, mail : Mails \cup {None}]
Rows == [conv : Convs, mail : Mails \cup Replies]
Threads == [root : Ids \cup {None}, latest : Ids \cup {None}, references : Seq(Ids)]
Sent == [conv : Convs, inReplyTo : Ids \cup {None}, references : Seq(Ids)]

TypeOK ==
  /\ box \in [Uids -> Mails \cup {None}] /\ next \in 1..MaxUid + 1
  /\ validity \in Validities
  /\ gone \cup aged \cup outside \subseteq Mails
  /\ references \in [Mails -> Seq(Ids) \cup {None}]
  /\ cursor \in [validity : Validities, uid : 0..MaxUid] \cup {None}
  /\ Stored \cup filed \subseteq Ids /\ Convs \subseteq Stored
  /\ message \in [Stored -> Rows] /\ thread \in [Convs -> Threads]
  /\ reply \in [Replies -> Sent \cup {None}]
  /\ session \in Polls \cup {None}
  /\ failures \in 0..DegradedAfter /\ crashes \in 0..MaxCrashes

\* The mails the cursor says were handled, those a first poll left out by its bounds excepted.
Behind == IF cursor = None \/ cursor.validity # validity THEN {}
          ELSE {u \in Present : u <= cursor.uid /\ box[u] \notin outside}

\* Every mail behind the cursor is stored and whole, whatever arrived, was deleted, renumbered or
\* failed while the polls ran: the cursor passes no mail nobody saw (syncMessages), and none whose
\* files or place in the thread's references are missing, though a mail's row, its files and the
\* thread's metadata are written one after the other and any of them may fail (ingestMessage).
CompleteBehindCursor ==
  \A u \in Behind :
    LET i == MessageId(box[u], validity, u) IN
    /\ i \in Stored
    /\ box[u] \in Attached => i \in filed
    /\ \E k \in DOMAIN thread[message[i].conv].references :
         thread[message[i].conv].references[k] = i

\* A mail that answers an earlier mail of the mailbox is in that mail's conversation
\* (resolveEmailThread, and the ascending order of the uids).
ThreadsTogether ==
  \A u, v \in Present :
    LET p == MessageId(box[u], validity, u) m == MessageId(box[v], validity, v) IN
    u < v /\ InReplyTo[box[v]] = p /\ box[u] \notin outside /\ {p, m} \subseteq Stored
      => message[m].conv = message[p].conv

\* An answer to the hub's reply is in the reply's conversation even if it is stored before
\* the reply's Message-ID is recorded: its References lead to what the reply answered.
AnswerJoinsReply ==
  \A m \in KeepsReferences \cap Stored :
    LET h == InReplyTo[m] IN
    h \in Replies /\ reply[h].inReplyTo # None => message[m].conv = reply[h].conv

Waiting(m) ==
  /\ \E u \in Present : box[u] = m /\ MessageId(m, validity, u) \notin Stored
  /\ m \notin outside /\ ~Degraded

\* A mail does not wait for ever: it is stored, or too many polls fail (a malformed mail
\* makes all of them fail) and the account is degraded.
MailArrives == \A m \in Mails : Waiting(m) ~> ~Waiting(m)
=============================================================================
