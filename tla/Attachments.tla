----------------------------- MODULE Attachments -----------------------------
(***************************************************************************)
(* Files and their rows (server/attachments/storage.ts and router.ts,      *)
(* queueOutbound of server/outbox/service.ts), and backups of both         *)
(* (scripts/backup.sh, server/db/backup-cli.ts, README.md:225).  A handler *)
(* writes each file under a new random name, then its row; the rows become *)
(* visible when the transaction commits, and a rollback unlinks the files  *)
(* as well as it can.  A backup is another process: first a snapshot of    *)
(* the database, then a copy of the directory, file by file.               *)
(*                                                                         *)
(* Handlers have no await: one runs at a time, but the backup's steps, a   *)
(* failure or a stop may come between any two of theirs.  The random names *)
(* are numbers that were never used before.  Power failures, which may     *)
(* lose what was written but not yet on the disk, are left out.            *)
(***************************************************************************)
EXTENDS Naturals

CONSTANTS
  Mails, Replies,   \* messages of customers and of agents
  Contents,         \* files by name, type and checksum
  Accepted,         \* those of an allowed type and size
  Attached,         \* Attached[m]: what message m brings along
  MaxFiles, MaxFailures, MaxRestores,
  None

Messages == Mails \cup Replies
Rows     == [message : Messages, content : Contents, disk : Nat]
Files    == [disk : Nat, content : Contents, whole : BOOLEAN]
Database == [rows : SUBSET Rows, received : SUBSET Mails, queued : SUBSET Replies]
Handlers == [message : Messages, todo : SUBSET Contents, writing : Contents \cup {None},
             created : SUBSET Nat, rows : SUBSET Rows]
Copies   == [db : Database, left : SUBSET Files, copied : SUBSET Files, listed : BOOLEAN]
Archives == [db : Database, files : SUBSET Files]

ASSUME MessagesAssumption == Mails \cap Replies = {} /\ Attached \in [Messages -> SUBSET Contents]
ASSUME AcceptedAssumption == Accepted \subseteq Contents
ASSUME AbsentAssumption == None \notin Contents \cup Handlers \cup Copies \cup Archives

VARIABLES
  db,         \* the committed rows: attachments, inbound messages, queued replies
  files,      \* ATTACHMENTS_DIR
  next,       \* the next unused random name
  handler,    \* the transaction that stores attachments, or None
  backup,     \* backup.sh under way, or None
  saved,      \* the last backup that ended well, or None
  failures, restores

hub  == <<db, files, next, handler>>
vars == <<hub, backup, saved, failures, restores>>

Init ==
  /\ db = [rows |-> {}, received |-> {}, queued |-> {}]
  /\ files = {} /\ next = 0
  /\ handler = None /\ backup = None /\ saved = None
  /\ failures = 0 /\ restores = 0

-----------------------------------------------------------------------------
(* Storing.                                                                *)

Started(m, contents) ==
  [message |-> m, todo |-> contents, writing |-> None, created |-> {}, rows |-> {}]

\* ingestMessage: the message row is committed, filterInboundAttachments has
\* dropped what is too large or of another type.  A mail may come again.
BeginMail(m) ==
  /\ handler = None
  /\ db' = [db EXCEPT !.received = @ \cup {m}]
  /\ handler' = Started(m, Attached[m] \cap Accepted)
  /\ UNCHANGED <<files, next, backup, saved, failures, restores>>

\* POST /attachments/messages/:messageId, for messages of customers only.
BeginUpload(m, c) ==
  /\ handler = None
  /\ m \in db.received /\ c \in Accepted
  /\ handler' = Started(m, {c})
  /\ UNCHANGED <<db, files, next, backup, saved, failures, restores>>

\* queueEmailReplyWithAttachments: validateOutboundAttachments refuses the
\* reply if one of its files is refused; a reply that was queued is not queued
\* again.
BeginReply(m) ==
  /\ handler = None
  /\ Attached[m] \subseteq Accepted /\ m \notin db.queued
  /\ handler' = Started(m, Attached[m])
  /\ UNCHANGED <<db, files, next, backup, saved, failures, restores>>

MutStoredOfAny(m, c) == \E r \in db.rows \cup handler.rows : r.content = c
MutStoredNever(m, c) == FALSE
\* The message has the file, by an earlier delivery or upload of it: a content stands for a
\* name and a checksum, which are compared, the MIME type is not.
StoredAlready(m, c) == \E r \in db.rows \cup handler.rows : r.message = m /\ r.content = c

Skip(c) ==
  /\ handler # None /\ handler.writing = None
  /\ c \in handler.todo /\ StoredAlready(handler.message, c)
  /\ handler' = [handler EXCEPT !.todo = @ \ {c}]
  /\ UNCHANGED <<db, files, next, backup, saved, failures, restores>>

\* writeFileSync creates the file, then fills it.
CreateFile(c) ==
  /\ handler # None /\ handler.writing = None /\ next < MaxFiles
  /\ c \in handler.todo /\ ~StoredAlready(handler.message, c)
  /\ files' = files \cup {[disk |-> next, content |-> c, whole |-> FALSE]}
  /\ handler' = [handler EXCEPT !.writing = c]
  /\ UNCHANGED <<db, next, backup, saved, failures, restores>>

\* It is full: createdPaths.push, and the row of the transaction.
FillFile ==
  /\ handler # None /\ handler.writing # None
  /\ LET c == handler.writing IN
     /\ files' = {f \in files : f.disk # next}
                   \cup {[disk |-> next, content |-> c, whole |-> TRUE]}
     /\ handler' = [handler EXCEPT
          !.todo = @ \ {c}, !.writing = None, !.created = @ \cup {next},
          !.rows = @ \cup {[message |-> handler.message, content |-> c, disk |-> next]}]
  /\ next' = next + 1
  /\ UNCHANGED <<db, backup, saved, failures, restores>>

\* The rows, and with a reply its message and its job.
Commit ==
  /\ handler # None /\ handler.todo = {} /\ handler.writing = None
  /\ db' = [db EXCEPT !.rows = @ \cup handler.rows,
                      !.queued = @ \cup (Replies \cap {handler.message})]
  /\ handler' = None
  /\ UNCHANGED <<files, next, backup, saved, failures, restores>>

\* The disk or the database fails: rollback, and removeStoredFiles, which does
\* not know the file that was being written and ignores the errors of unlink.
Rollback ==
  /\ handler # None /\ failures < MaxFailures
  /\ \E removed \in SUBSET handler.created : files' = {f \in files : f.disk \notin removed}
  /\ next' = next + 1
  /\ handler' = None /\ failures' = failures + 1
  /\ UNCHANGED <<db, backup, saved, restores>>

\* The process stops: the database forgets the transaction, the files stay.
Crash ==
  /\ handler # None /\ failures < MaxFailures
  /\ next' = next + 1
  /\ handler' = None /\ failures' = failures + 1
  /\ UNCHANGED <<db, files, backup, saved, restores>>

-----------------------------------------------------------------------------
(* Backup and restore.                                                     *)

\* backup-cli.js: db.backup of what is committed.
Snapshot ==
  /\ backup = None
  /\ backup' = [db |-> db, left |-> {}, copied |-> {}, listed |-> FALSE]
  /\ UNCHANGED <<hub, saved, failures, restores>>

\* tar lists the directory and reads the files one by one, as they then are.
ListFiles ==
  /\ backup # None /\ ~backup.listed
  /\ backup' = [backup EXCEPT !.left = files, !.listed = TRUE]
  /\ UNCHANGED <<hub, saved, failures, restores>>

CopyFile ==
  /\ backup # None
  /\ \E f \in backup.left, g \in files :
       /\ g.disk = f.disk
       /\ backup' = [backup EXCEPT !.left = @ \ {f}, !.copied = @ \cup {g}]
  /\ UNCHANGED <<hub, saved, failures, restores>>

MutSavedDatabaseNow == db
\* The database file of a backup is older than its archive.
SavedDatabase == backup.db

EndBackup ==
  /\ backup # None /\ backup.listed /\ backup.left = {}
  /\ saved' = [db |-> SavedDatabase, files |-> backup.copied]
  /\ backup' = None
  /\ UNCHANGED <<hub, failures, restores>>

\* A file vanished, the integrity check failed, the script was stopped: set -e.
AbandonBackup ==
  /\ backup # None
  /\ backup' = None
  /\ UNCHANGED <<hub, saved, failures, restores>>

\* The service is stopped, the database put back, the archive unpacked into an
\* empty directory.
Restore ==
  /\ handler = None /\ saved # None /\ restores < MaxRestores
  /\ db' = saved.db /\ files' = saved.files
  /\ backup' = None /\ restores' = restores + 1
  /\ UNCHANGED <<next, handler, saved, failures>>

Next ==
  \/ \E m \in Mails : BeginMail(m)
  \/ \E m \in Mails, c \in Contents : BeginUpload(m, c)
  \/ \E m \in Replies : BeginReply(m)
  \/ \E c \in Contents : Skip(c)
  \/ \E c \in Contents : CreateFile(c)
  \/ FillFile \/ Commit \/ Rollback \/ Crash
  \/ Snapshot \/ ListFiles \/ CopyFile \/ EndBackup \/ AbandonBackup \/ Restore

Spec == Init /\ [][Next]_vars

-----------------------------------------------------------------------------
(* Properties.                                                             *)

\* Types of the rows, the directory, the transaction and the backup.
TypeOK ==
  /\ db \in Database /\ files \subseteq Files /\ next \in Nat
  /\ handler \in Handlers \cup {None}
  /\ backup \in Copies \cup {None}
  /\ saved \in Archives \cup {None}
  /\ failures \in Nat /\ restores \in Nat

\* readStoredAttachment: the file is there, with the size and checksum.
Readable(r) == [disk |-> r.disk, content |-> r.content, whole |-> TRUE] \in files

\* loadMessageAttachments: what the worker sends with a message.
Loaded(m) == {r.content : r \in {s \in db.rows : s.message = m}}

\* A row never lacks its file, in whatever order rollbacks, crashes, backups
\* and restores come (storeMessageAttachments, scripts/backup.sh).
RowHasFile == \A r \in db.rows : Readable(r)

\* A reply in the queue has exactly the files the agent attached, though they
\* were stored one by one and a mail may have brought the same file
\* (queueEmailReplyWithAttachments, docs/channel-capabilities.md:22).
ReplyIsWhole == \A m \in db.queued : Loaded(m) = Attached[m]

\* A mail that is read again and a file that is uploaded twice are filed once,
\* and no two rows share a file.
FiledOnce ==
  \A r, s \in db.rows :
    (r.message = s.message /\ r.content = s.content) \/ r.disk = s.disk => r = s
=============================================================================
