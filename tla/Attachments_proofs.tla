-------------------------- MODULE Attachments_proofs --------------------------
(***************************************************************************)
(* For any messages, files, failures, backups and restores: a row never    *)
(* lacks its file, a queued reply has all of its files, and nothing is     *)
(* filed twice.                                                            *)
(***************************************************************************)
EXTENDS Attachments, TLAPS

Whole(r) == [disk |-> r.disk, content |-> r.content, whole |-> TRUE]

\* The files F hold what the rows R promise, and nothing else under their names.
Sound(R, F) == \A r \in R : Whole(r) \in F /\ \A f \in F : f.disk = r.disk => f = Whole(r)

Once(R) ==
  \A r, s \in R : (r.message = s.message /\ r.content = s.content) \/ r.disk = s.disk => r = s

Below(R, n) == \A r \in R : r.disk < n

Has(R, m, c) == \E r \in R : r.message = m /\ r.content = c

\* A reply is in the queue with all of its files or has none stored.
Complete(d) ==
  /\ \A m \in d.queued : \A c \in Contents : c \in Attached[m] <=> Has(d.rows, m, c)
  /\ \A r \in d.rows : r.message \in Replies => r.message \in d.queued

Proper(d, n) == Once(d.rows) /\ Below(d.rows, n) /\ Complete(d)

\* What is being written is a file the message does not have.
NewFile ==
  handler # None /\ handler.writing # None =>
    handler.writing \in handler.todo /\ ~StoredAlready(handler.message, handler.writing)

\* The rows to commit have their files, which no other row has.
HandlerHolds ==
  handler # None =>
    /\ Sound(handler.rows, files) /\ Once(db.rows \cup handler.rows) /\ Below(handler.rows, next)
    /\ \A r \in handler.rows : r.message = handler.message
    /\ \A d \in handler.created : d < next /\ \A r \in db.rows : r.disk # d
    /\ handler.message \in Replies =>
         /\ handler.message \notin db.queued
         /\ \A c \in Contents : c \in Attached[handler.message] <=>
              c \in handler.todo \/ Has(handler.rows, handler.message, c)

\* What the snapshot promises is in the directory until it is in the archive.
BackupHolds ==
  backup # None =>
    /\ Proper(backup.db, next) /\ backup.db.rows \subseteq db.rows
    /\ \A r \in backup.db.rows : \A f \in backup.copied : f.disk = r.disk => f = Whole(r)
    /\ backup.listed => \A r \in backup.db.rows :
         Whole(r) \in backup.copied \/ \E f \in backup.left : f.disk = r.disk

SavedHolds == saved # None => Proper(saved.db, next) /\ Sound(saved.db.rows, saved.files)

IInv ==
  /\ TypeOK
  /\ Proper(db, next) /\ Sound(db.rows, files)
  /\ HandlerHolds /\ NewFile /\ BackupHolds /\ SavedHolds

-----------------------------------------------------------------------------
(* The predicates.                                                         *)

\* What is below a name is below a later one.
LEMMA ProperGrows ==
  ASSUME NEW d \in Database, NEW n \in Nat, NEW k \in Nat, n <= k, Proper(d, n)
  PROVE  Proper(d, k)
<1>1. \A r \in d.rows : r.disk \in Nat
  BY DEF Database, Rows
<1> QED
  BY <1>1 DEF Proper, Below

LEMMA BelowGrows ==
  ASSUME NEW R \in SUBSET Rows, NEW n \in Nat, NEW k \in Nat, n <= k, Below(R, n)
  PROVE  Below(R, k)
BY DEF Below, Rows

\* Files under unused names do not matter.
LEMMA SoundGrows ==
  ASSUME NEW R \in SUBSET Rows, NEW F, NEW f \in Files, NEW n \in Nat,
         Sound(R, F), Below(R, n), f.disk = n
  PROVE  /\ Sound(R, F \cup {f})
         /\ Sound(R, {g \in F : g.disk # n} \cup {f})
<1>1. \A r \in R : r.disk \in Nat /\ r.disk < n /\ r.disk # f.disk /\ Whole(r).disk = r.disk
  BY DEF Below, Rows, Whole
<1>2. \A r \in R : Whole(r) \in F /\ Whole(r).disk # n
  BY <1>1 DEF Sound
<1>3. \A r \in R : \A g \in F \cup {f} : g.disk = r.disk => g = Whole(r)
  BY <1>1 DEF Sound
<1> QED
  BY <1>2, <1>3 DEF Sound

-----------------------------------------------------------------------------
LEMMA InitInv == Init => IInv
<1> SUFFICES ASSUME Init PROVE IInv
  OBVIOUS
<1>1. TypeOK
  BY DEF Init, TypeOK, Database
<1>2. Proper(db, next) /\ Sound(db.rows, files)
  BY DEF Init, Proper, Once, Below, Complete, Sound
<1> QED
  BY <1>1, <1>2 DEF Init, IInv, HandlerHolds, NewFile, BackupHolds, SavedHolds

\* A handler begins with nothing created.
LEMMA StartedInv ==
  ASSUME IInv, NEW m \in Messages, NEW S \in SUBSET Contents,
         handler = None, handler' = Started(m, S),
         db'.rows = db.rows, db'.queued = db.queued, db' \in Database,
         m \in Replies => m \notin db.queued /\ S = Attached[m],
         UNCHANGED <<files, next, backup, saved, failures, restores>>
  PROVE  IInv'
<1> USE DEF IInv
<1>1. handler' \in Handlers
  BY DEF Started, Handlers
<1>2. /\ handler'.rows = {} /\ handler'.created = {} /\ handler'.todo = S /\ handler'.message = m
      /\ handler'.writing = None
  BY DEF Started
<1>3. TypeOK'
  BY <1>1 DEF TypeOK
<1>4. Proper(db, next)' /\ Sound(db.rows, files)'
  BY DEF Proper, Complete
<1>5. HandlerHolds'
  <2>1. Once(db'.rows \cup handler'.rows)
    BY <1>2 DEF Proper
  <2>2. Sound(handler'.rows, files') /\ Below(handler'.rows, next')
    BY <1>2 DEF Sound, Below
  <2>3. \A c \in Contents : ~Has(handler'.rows, m, c)
    BY <1>2 DEF Has
  <2> QED
    BY <1>2, <2>1, <2>2, <2>3 DEF HandlerHolds
<1>6. BackupHolds' /\ SavedHolds' /\ NewFile'
  BY <1>2 DEF BackupHolds, SavedHolds, NewFile
<1> QED
  BY <1>3, <1>4, <1>5, <1>6

LEMMA BeginMailInv == ASSUME IInv, NEW m \in Mails, BeginMail(m) PROVE IInv'
<1>1. db \in Database
  BY DEF IInv, TypeOK
<1>2. db' \in Database /\ db'.rows = db.rows /\ db'.queued = db.queued
  BY <1>1 DEF BeginMail, Database
<1>3. m \in Messages /\ m \notin Replies /\ Attached[m] \cap Accepted \in SUBSET Contents
  BY MessagesAssumption, AcceptedAssumption DEF Messages
<1> QED
  BY <1>2, <1>3, StartedInv DEF BeginMail

LEMMA BeginUploadInv ==
  ASSUME IInv, NEW m \in Mails, NEW c \in Contents, BeginUpload(m, c) PROVE IInv'
<1>1. db' = db /\ db \in Database
  BY DEF IInv, TypeOK, BeginUpload
<1>2. m \in Messages /\ m \notin Replies /\ {c} \in SUBSET Contents
  BY MessagesAssumption DEF Messages
<1> QED
  BY <1>1, <1>2, StartedInv DEF BeginUpload

LEMMA BeginReplyInv == ASSUME IInv, NEW m \in Replies, BeginReply(m) PROVE IInv'
<1>1. db' = db /\ db \in Database
  BY DEF IInv, TypeOK, BeginReply
<1>2. m \in Messages /\ Attached[m] \in SUBSET Contents
  BY MessagesAssumption DEF Messages
<1> QED
  BY <1>1, <1>2, StartedInv DEF BeginReply

\* A file the message has is not stored again: for a reply, one of this
\* transaction, since no row of a reply is visible before it is queued.
LEMMA SkipInv == ASSUME IInv, NEW c \in Contents, Skip(c) PROVE IInv'
<1> USE DEF IInv
<1>1. /\ handler # None /\ handler' = [handler EXCEPT !.todo = @ \ {c}]
      /\ c \in handler.todo /\ StoredAlready(handler.message, c)
      /\ UNCHANGED <<db, files, next, backup, saved, failures, restores>>
  BY DEF Skip
<1>2. handler \in Handlers
  BY <1>1 DEF TypeOK
<1>3. /\ handler' \in Handlers /\ handler'.todo = handler.todo \ {c}
      /\ handler'.message = handler.message /\ handler'.rows = handler.rows
      /\ handler'.created = handler.created /\ handler'.writing = None
  BY <1>1, <1>2 DEF Handlers, Skip
<1>4. TypeOK'
  BY <1>1, <1>3 DEF TypeOK
<1>5. handler.message \in Replies => Has(handler.rows, handler.message, c)
  BY <1>1 DEF StoredAlready, Has, HandlerHolds, Proper, Complete
<1>6. HandlerHolds'
  <2>1. ASSUME handler.message \in Replies, NEW e \in Contents
        PROVE  e \in Attached[handler.message] <=>
                 e \in handler'.todo \/ Has(handler.rows, handler.message, e)
    BY <1>1, <1>3, <1>5, <2>1 DEF HandlerHolds
  <2> QED
    BY <1>1, <1>3, <2>1 DEF HandlerHolds
<1>7. BackupHolds' /\ SavedHolds' /\ NewFile'
  BY <1>1, <1>3 DEF BackupHolds, SavedHolds, NewFile
<1> QED
  BY <1>1, <1>4, <1>6, <1>7

\* The new file's name is nobody's.
LEMMA CreateFileInv == ASSUME IInv, NEW c \in Contents, CreateFile(c) PROVE IInv'
<1> USE DEF IInv
<1> DEFINE new == [disk |-> next, content |-> c, whole |-> FALSE]
<1>1. /\ handler # None /\ handler' = [handler EXCEPT !.writing = c]
      /\ files' = files \cup {new}
      /\ c \in handler.todo /\ ~StoredAlready(handler.message, c)
      /\ UNCHANGED <<db, next, backup, saved, failures, restores>>
  BY DEF CreateFile
<1>2. handler \in Handlers /\ db \in Database /\ next \in Nat /\ new \in Files /\ new.disk = next
  BY <1>1 DEF TypeOK, Files
<1>3. /\ handler' \in Handlers /\ handler'.todo = handler.todo
      /\ handler'.message = handler.message /\ handler'.rows = handler.rows
      /\ handler'.created = handler.created /\ handler'.writing = c
  BY <1>1, <1>2 DEF Handlers
<1>4. TypeOK'
  BY <1>1, <1>2, <1>3 DEF TypeOK
<1>5. db.rows \in SUBSET Rows /\ handler.rows \in SUBSET Rows
  BY <1>2 DEF Database, Handlers
<1>6. Sound(db.rows, files)' /\ Sound(handler.rows, files)'
  <2>1. Sound(db.rows, files \cup {new})
    BY <1>2, <1>5, SoundGrows DEF Proper
  <2>2. Sound(handler.rows, files \cup {new})
    BY <1>1, <1>2, <1>5, SoundGrows DEF HandlerHolds
  <2> QED
    BY <1>1, <1>3, <2>1, <2>2
<1>7. HandlerHolds' /\ NewFile'
  BY <1>1, <1>3, <1>6 DEF HandlerHolds, NewFile, StoredAlready
<1>8. BackupHolds' /\ SavedHolds' /\ Proper(db, next)'
  BY <1>1 DEF BackupHolds, SavedHolds
<1> QED
  BY <1>4, <1>6, <1>7, <1>8

\* The backups under way and done when a name is used up.
LEMMA CopiesGrow ==
  ASSUME IInv, next' = next + 1, backup' = backup, saved' = saved, db' = db
  PROVE  BackupHolds' /\ SavedHolds' /\ Proper(db, next)'
<1> USE DEF IInv
<1>1. next \in Nat /\ next + 1 \in Nat /\ next <= next + 1 /\ db \in Database
  BY DEF TypeOK
<1>2. Proper(db, next + 1)
  BY <1>1, ProperGrows
<1>3. backup # None => backup.db \in Database /\ Proper(backup.db, next + 1)
  BY <1>1, ProperGrows DEF TypeOK, Copies, BackupHolds
<1>4. saved # None => saved.db \in Database /\ Proper(saved.db, next + 1)
  BY <1>1, ProperGrows DEF TypeOK, Archives, SavedHolds
<1> QED
  BY <1>2, <1>3, <1>4 DEF BackupHolds, SavedHolds

\* The file is whole, and the transaction has its row.
LEMMA FillFileInv == ASSUME IInv, FillFile PROVE IInv'
<1> USE DEF IInv
<1> DEFINE c   == handler.writing
           new == [disk |-> next, content |-> c, whole |-> TRUE]
           row == [message |-> handler.message, content |-> c, disk |-> next]
<1>1. /\ handler # None /\ c # None
      /\ files' = {f \in files : f.disk # next} \cup {new}
      /\ handler' = [handler EXCEPT
           !.todo = @ \ {c}, !.writing = None, !.created = @ \cup {next}, !.rows = @ \cup {row}]
      /\ next' = next + 1
      /\ UNCHANGED <<db, backup, saved, failures, restores>>
  BY DEF FillFile
<1>2. handler \in Handlers /\ db \in Database /\ next \in Nat
  BY <1>1 DEF TypeOK
<1>3. /\ c \in Contents /\ new \in Files /\ new.disk = next /\ Whole(row) = new
      /\ row \in Rows /\ row.disk = next /\ row.message = handler.message /\ row.content = c
  BY <1>1, <1>2 DEF Files, Rows, Handlers, Whole
<1> HIDE DEF c, new, row
<1>4. /\ handler' \in Handlers /\ handler'.todo = handler.todo \ {c}
      /\ handler'.message = handler.message /\ handler'.rows = handler.rows \cup {row}
      /\ handler'.created = handler.created \cup {next} /\ handler'.writing = None
  BY <1>1, <1>2, <1>3 DEF Handlers
<1>5. TypeOK'
  <2>1. files' \subseteq Files
    BY <1>1, <1>3 DEF TypeOK
  <2> QED
    BY <2>1, <1>1, <1>2, <1>4 DEF TypeOK
<1>6. db.rows \in SUBSET Rows /\ handler.rows \in SUBSET Rows
  BY <1>2 DEF Database, Handlers
<1>7. Sound(db.rows, files') /\ Sound(handler.rows, files')
  <2>1. Below(db.rows, next) /\ Below(handler.rows, next)
    BY <1>1 DEF Proper, HandlerHolds
  <2>2. Sound(db.rows, files) /\ Sound(handler.rows, files)
    BY <1>1 DEF HandlerHolds
  <2>3. Sound(db.rows, {g \in files : g.disk # next} \cup {new})
    BY <2>1, <2>2, <1>2, <1>3, <1>6, SoundGrows
  <2>4. Sound(handler.rows, {g \in files : g.disk # next} \cup {new})
    BY <2>1, <2>2, <1>2, <1>3, <1>6, SoundGrows
  <2> QED
    BY <2>3, <2>4, <1>1
<1>8. Sound(handler.rows \cup {row}, files')
  <2>1. new \in files' /\ \A f \in files' : f.disk = next => f = new
    BY <1>1
  <2> QED
    BY <2>1, <1>3, <1>7 DEF Sound
<1>9. Below(handler.rows \cup {row}, next + 1)
  <2>1. Below(handler.rows, next + 1)
    BY <1>1, <1>2, <1>6, BelowGrows DEF HandlerHolds
  <2> QED
    BY <2>1, <1>2, <1>3 DEF Below
<1>10. Once(db.rows \cup handler.rows \cup {row})
  <2>1. ASSUME NEW r \in db.rows \cup handler.rows
        PROVE  r.disk # next /\ ~(r.message = handler.message /\ r.content = c)
    <3>1. r.disk < next /\ r.disk \in Nat
      BY <1>1, <1>6 DEF Proper, HandlerHolds, Below, Rows
    <3>2. ~(r.message = handler.message /\ r.content = c)
      BY <1>1 DEF NewFile, StoredAlready, c
    <3> QED
      BY <3>1, <3>2, <1>2
  <2>2. Once(db.rows \cup handler.rows)
    BY <1>1 DEF HandlerHolds
  <2> QED
    BY <2>1, <2>2, <1>3 DEF Once
<1>11. HandlerHolds'
  <2>1. \A r \in handler'.rows : r.message = handler'.message
    BY <1>1, <1>3, <1>4 DEF HandlerHolds
  <2>2. \A d \in handler'.created : d < next' /\ \A r \in db'.rows : r.disk # d
    <3>1. \A d \in handler.created : d < next + 1 /\ \A r \in db.rows : r.disk # d
      BY <1>1, <1>2 DEF HandlerHolds, Handlers
    <3>2. \A r \in db.rows : r.disk # next
      BY <1>2, <1>6 DEF Proper, Below, Rows
    <3> QED
      BY <3>1, <3>2, <1>1, <1>2, <1>4
  <2>3. ASSUME handler.message \in Replies, NEW e \in Contents
        PROVE  e \in Attached[handler.message] <=>
                 e \in handler'.todo \/ Has(handler'.rows, handler.message, e)
    <3>1. Has(handler'.rows, handler.message, e) <=>
            e = c \/ Has(handler.rows, handler.message, e)
      BY <1>3, <1>4 DEF Has
    <3>2. c \in handler.todo
      BY <1>1 DEF NewFile, c
    <3> QED
      BY <2>3, <3>1, <3>2, <1>1, <1>4 DEF HandlerHolds
  <2> QED
    BY <2>1, <2>2, <2>3, <1>1, <1>4, <1>8, <1>9, <1>10 DEF HandlerHolds
<1>12. NewFile'
  BY <1>4 DEF NewFile
<1> QED
  BY <1>1, <1>5, <1>7, <1>11, <1>12, CopiesGrow

\* A reply enters the queue with the rows of all of its files.
LEMMA CommitInv == ASSUME IInv, Commit PROVE IInv'
<1> USE DEF IInv
<1> DEFINE sent == Replies \cap {handler.message}
<1>1. /\ handler # None /\ handler.todo = {} /\ handler' = None
      /\ db' = [db EXCEPT !.rows = @ \cup handler.rows, !.queued = @ \cup sent]
      /\ UNCHANGED <<files, next, backup, saved, failures, restores>>
  BY DEF Commit
<1>2. handler \in Handlers /\ db \in Database /\ next \in Nat
  BY <1>1 DEF TypeOK
<1>3. /\ db' \in Database
      /\ db'.rows = db.rows \cup handler.rows /\ db'.queued = db.queued \cup sent
  BY <1>1, <1>2 DEF Database, Handlers
<1>4. TypeOK'
  BY <1>1, <1>3 DEF TypeOK
<1>5. \A r \in handler.rows : r.message = handler.message
  BY <1>1 DEF HandlerHolds
<1>6. Complete(db')
  <2>1. ASSUME NEW m \in db.queued, NEW c \in Contents
        PROVE  c \in Attached[m] <=> Has(db'.rows, m, c)
    <3>1. m # handler.message
      BY <1>1, <1>2, MessagesAssumption DEF HandlerHolds, Database
    <3> QED
      BY <3>1, <1>3, <1>5 DEF Has, Proper, Complete
  <2>2. ASSUME NEW m \in sent, NEW c \in Contents
        PROVE  c \in Attached[m] <=> Has(db'.rows, m, c)
    <3>1. m = handler.message /\ m \in Replies /\ m \notin db.queued
      BY <1>1 DEF HandlerHolds
    <3>2. \A r \in db.rows : r.message # m
      BY <3>1 DEF Proper, Complete
    <3>3. Has(db'.rows, m, c) <=> Has(handler.rows, m, c)
      BY <3>2, <1>3 DEF Has
    <3> QED
      BY <3>1, <3>3, <1>1 DEF HandlerHolds
  <2>3. \A r \in db'.rows : r.message \in Replies => r.message \in db'.queued
    BY <1>3, <1>5 DEF Proper, Complete
  <2> QED
    BY <2>1, <2>2, <2>3, <1>3 DEF Complete
<1>7. Proper(db', next)
  BY <1>1, <1>3, <1>6 DEF Proper, HandlerHolds, Below
<1>8. Sound(db'.rows, files)
  BY <1>1, <1>3 DEF Sound, HandlerHolds
<1>9. BackupHolds' /\ SavedHolds' /\ HandlerHolds' /\ NewFile'
  BY <1>1, <1>3 DEF BackupHolds, SavedHolds, HandlerHolds, NewFile
<1> QED
  BY <1>1, <1>4, <1>7, <1>8, <1>9

\* What is unlinked belongs to no committed row.
LEMMA RollbackInv == ASSUME IInv, Rollback PROVE IInv'
<1> USE DEF IInv
<1>1. /\ handler # None /\ handler' = None /\ next' = next + 1 /\ failures' = failures + 1
      /\ UNCHANGED <<db, backup, saved, restores>>
  BY DEF Rollback
<1>2. PICK removed \in SUBSET handler.created : files' = {f \in files : f.disk \notin removed}
  BY DEF Rollback
<1>3. TypeOK'
  BY <1>1, <1>2 DEF TypeOK
<1>4. \A r \in db.rows : Whole(r).disk \notin removed
  BY <1>1, <1>2 DEF HandlerHolds, Whole
<1>5. Sound(db.rows, files)'
  BY <1>1, <1>2, <1>4 DEF Sound
<1>6. HandlerHolds' /\ NewFile'
  BY <1>1 DEF HandlerHolds, NewFile
<1> QED
  BY <1>1, <1>3, <1>5, <1>6, CopiesGrow

LEMMA CrashInv == ASSUME IInv, Crash PROVE IInv'
<1> USE DEF IInv
<1>1. /\ handler' = None /\ next' = next + 1 /\ failures' = failures + 1
      /\ UNCHANGED <<db, files, backup, saved, restores>>
  BY DEF Crash
<1>2. TypeOK'
  BY <1>1 DEF TypeOK
<1>3. Sound(db.rows, files)' /\ HandlerHolds' /\ NewFile'
  BY <1>1 DEF HandlerHolds, NewFile
<1> QED
  BY <1>1, <1>2, <1>3, CopiesGrow

\* What a step of the backup leaves alone.
LEMMA BackupStep ==
  ASSUME IInv, UNCHANGED <<hub, failures, restores>>,
         backup' \in Copies \cup {None}, saved' \in Archives \cup {None}
  PROVE  /\ TypeOK' /\ Proper(db, next)' /\ Sound(db.rows, files)'
         /\ HandlerHolds' /\ NewFile'
<1> USE DEF IInv, hub
<1>1. TypeOK'
  BY DEF TypeOK
<1>2. Proper(db, next)' /\ Sound(db.rows, files)'
  OBVIOUS
<1>3. HandlerHolds' /\ NewFile'
  BY DEF HandlerHolds, NewFile, StoredAlready
<1> QED
  BY <1>1, <1>2, <1>3

LEMMA SnapshotInv == ASSUME IInv, Snapshot PROVE IInv'
<1> USE DEF IInv
<1>1. /\ backup' = [db |-> db, left |-> {}, copied |-> {}, listed |-> FALSE]
      /\ UNCHANGED <<hub, saved, failures, restores>>
  BY DEF Snapshot
<1>2. backup' \in Copies /\ saved' \in Archives \cup {None}
  BY <1>1 DEF TypeOK, Copies
<1>3. BackupHolds' /\ SavedHolds'
  BY <1>1 DEF BackupHolds, SavedHolds, hub
<1> QED
  BY <1>1, <1>2, <1>3, BackupStep

LEMMA ListFilesInv == ASSUME IInv, ListFiles PROVE IInv'
<1> USE DEF IInv
<1>1. /\ backup # None /\ backup' = [backup EXCEPT !.left = files, !.listed = TRUE]
      /\ UNCHANGED <<hub, saved, failures, restores>>
  BY DEF ListFiles
<1>2. backup \in Copies
  BY <1>1 DEF TypeOK
<1>3. /\ backup' \in Copies /\ saved' \in Archives \cup {None}
      /\ backup'.db = backup.db /\ backup'.left = files /\ backup'.copied = backup.copied
  BY <1>1, <1>2 DEF TypeOK, Copies
<1>4. \A r \in backup.db.rows : \E f \in files : f.disk = r.disk
  <2>1. \A r \in backup.db.rows : Whole(r) \in files /\ Whole(r).disk = r.disk
    BY <1>1 DEF BackupHolds, Sound, Whole
  <2> QED
    BY <2>1
<1>5. BackupHolds' /\ SavedHolds'
  BY <1>1, <1>3, <1>4 DEF BackupHolds, SavedHolds, hub
<1> QED
  BY <1>1, <1>3, <1>5, BackupStep

\* The file of a row that the snapshot has is copied as the row promises.
LEMMA CopyFileInv == ASSUME IInv, CopyFile PROVE IInv'
<1> USE DEF IInv
<1>1. backup # None /\ backup \in Copies /\ UNCHANGED <<hub, saved, failures, restores>>
  BY DEF CopyFile, TypeOK
<1>2. PICK f \in backup.left, g \in files :
        /\ g.disk = f.disk
        /\ backup' = [backup EXCEPT !.left = @ \ {f}, !.copied = @ \cup {g}]
  BY DEF CopyFile
<1>3. /\ backup' \in Copies /\ saved' \in Archives \cup {None}
      /\ backup'.db = backup.db /\ backup'.listed = backup.listed
      /\ backup'.left = backup.left \ {f} /\ backup'.copied = backup.copied \cup {g}
  BY <1>1, <1>2 DEF TypeOK, Copies
<1>4. \A r \in backup.db.rows : g.disk = r.disk => g = Whole(r)
  BY <1>1, <1>2 DEF BackupHolds, Sound
<1>5. BackupHolds'
  <2>1. Proper(backup'.db, next') /\ backup'.db.rows \subseteq db'.rows
    BY <1>1, <1>3 DEF BackupHolds, hub
  <2>2. \A r \in backup'.db.rows : \A h \in backup'.copied : h.disk = r.disk => h = Whole(r)
    BY <1>1, <1>3, <1>4 DEF BackupHolds
  <2>3. ASSUME backup'.listed, NEW r \in backup'.db.rows
        PROVE  Whole(r) \in backup'.copied \/ \E h \in backup'.left : h.disk = r.disk
    BY <1>1, <1>2, <1>3, <1>4, <2>3 DEF BackupHolds
  <2> QED
    BY <2>1, <2>2, <2>3 DEF BackupHolds
<1>6. SavedHolds'
  BY <1>1 DEF SavedHolds, hub
<1> QED
  BY <1>1, <1>3, <1>5, <1>6, BackupStep

\* Nothing is left to copy: the archive has every file the snapshot promises.
LEMMA EndBackupInv == ASSUME IInv, EndBackup PROVE IInv'
<1> USE DEF IInv
<1>1. /\ backup # None /\ backup.listed /\ backup.left = {} /\ backup' = None
      /\ saved' = [db |-> backup.db, files |-> backup.copied]
      /\ UNCHANGED <<hub, failures, restores>>
  BY DEF EndBackup, SavedDatabase
<1>2. backup \in Copies
  BY <1>1 DEF TypeOK
<1>3. saved' \in Archives /\ saved'.db = backup.db /\ saved'.files = backup.copied
  BY <1>1, <1>2 DEF Copies, Archives
<1>4. Proper(backup.db, next) /\ Sound(backup.db.rows, backup.copied)
  BY <1>1 DEF BackupHolds, Sound
<1>5. BackupHolds' /\ SavedHolds'
  BY <1>1, <1>3, <1>4 DEF BackupHolds, SavedHolds, hub
<1> QED
  BY <1>1, <1>3, <1>5, BackupStep

LEMMA AbandonBackupInv == ASSUME IInv, AbandonBackup PROVE IInv'
<1> USE DEF IInv
<1>1. backup' = None /\ UNCHANGED <<hub, saved, failures, restores>>
  BY DEF AbandonBackup
<1>2. saved' \in Archives \cup {None}
  BY <1>1 DEF TypeOK
<1>3. BackupHolds' /\ SavedHolds'
  BY <1>1 DEF BackupHolds, SavedHolds, hub
<1> QED
  BY <1>1, <1>2, <1>3, BackupStep

LEMMA RestoreInv == ASSUME IInv, Restore PROVE IInv'
<1> USE DEF IInv
<1>1. /\ handler = None /\ saved # None
      /\ db' = saved.db /\ files' = saved.files /\ backup' = None /\ restores' = restores + 1
      /\ UNCHANGED <<next, handler, saved, failures>>
  BY DEF Restore
<1>2. db' \in Database /\ files' \subseteq Files
  BY <1>1 DEF TypeOK, Archives
<1>3. TypeOK'
  BY <1>1, <1>2 DEF TypeOK
<1>4. Proper(db, next)' /\ Sound(db.rows, files)'
  BY <1>1 DEF SavedHolds
<1>5. HandlerHolds' /\ NewFile' /\ BackupHolds' /\ SavedHolds'
  BY <1>1 DEF HandlerHolds, NewFile, BackupHolds, SavedHolds
<1> QED
  BY <1>3, <1>4, <1>5

-----------------------------------------------------------------------------
(* The theorems.                                                           *)

\* Every reachable state satisfies the inductive invariant.
THEOREM Inductive == Spec => []IInv
<1>1. Init => IInv
  BY InitInv
<1>2. IInv /\ [Next]_vars => IInv'
  <2> SUFFICES ASSUME IInv, [Next]_vars PROVE IInv'
    OBVIOUS
  <2>1. CASE \E m \in Mails : BeginMail(m)
    BY <2>1, BeginMailInv
  <2>2. CASE \E m \in Mails, c \in Contents : BeginUpload(m, c)
    BY <2>2, BeginUploadInv
  <2>3. CASE \E m \in Replies : BeginReply(m)
    BY <2>3, BeginReplyInv
  <2>4. CASE \E c \in Contents : Skip(c)
    BY <2>4, SkipInv
  <2>5. CASE \E c \in Contents : CreateFile(c)
    BY <2>5, CreateFileInv
  <2>6. CASE FillFile \/ Commit \/ Rollback \/ Crash
    BY <2>6, FillFileInv, CommitInv, RollbackInv, CrashInv
  <2>7. CASE Snapshot \/ ListFiles \/ CopyFile \/ EndBackup \/ AbandonBackup \/ Restore
    BY <2>7, SnapshotInv, ListFilesInv, CopyFileInv, EndBackupInv, AbandonBackupInv, RestoreInv
  <2>8. CASE UNCHANGED vars
    BY <2>8 DEF vars, hub, IInv, TypeOK, HandlerHolds, NewFile, StoredAlready, BackupHolds, SavedHolds
  <2> QED
    BY <2>1, <2>2, <2>3, <2>4, <2>5, <2>6, <2>7, <2>8 DEF Next
<1> QED
  BY <1>1, <1>2, PTL DEF Spec

\* Rows, files, transaction and backups are always of their types.
THEOREM TypeCorrect == Spec => []TypeOK
<1>1. IInv => TypeOK
  BY DEF IInv
<1> QED
  BY <1>1, Inductive, PTL

\* No rollback, crash, backup or restore leaves a row without its file.
THEOREM FileForEveryRow == Spec => []RowHasFile
<1>1. IInv => RowHasFile
  BY DEF IInv, RowHasFile, Readable, Sound, Whole
<1> QED
  BY <1>1, Inductive, PTL

\* A queued reply has exactly the files the agent attached.
THEOREM RepliesWhole == Spec => []ReplyIsWhole
<1>1. IInv => ReplyIsWhole
  <2> SUFFICES ASSUME IInv, NEW m \in db.queued PROVE Loaded(m) = Attached[m]
    BY DEF ReplyIsWhole
  <2>1. db \in Database
    BY DEF IInv, TypeOK
  <2>2. Attached[m] \subseteq Contents /\ db.rows \subseteq Rows
    BY <2>1, MessagesAssumption DEF Database, Messages
  <2>3. \A c \in Contents : c \in Attached[m] <=> \E r \in db.rows : r.message = m /\ r.content = c
    BY DEF IInv, Proper, Complete, Has
  <2>4. \A r \in db.rows : r.content \in Contents
    BY <2>2 DEF Rows
  <2> QED
    BY <2>2, <2>3, <2>4 DEF Loaded
<1> QED
  BY <1>1, Inductive, PTL

\* A file that comes again is filed once, and no two rows share a file.
THEOREM FiledOnceOnly == Spec => []FiledOnce
<1>1. IInv => FiledOnce
  BY DEF IInv, Proper, Once, FiledOnce
<1> QED
  BY <1>1, Inductive, PTL
=============================================================================
