---------------------------- MODULE Outbox_proofs ----------------------------
(***************************************************************************)
(* Proofs about module Outbox.  JobMessageAgree and OneSender are not      *)
(* inductive: that the holder of a job owns its lock needs the agreement   *)
(* of message and job, and the agreement needs the retry budget and what   *)
(* a worker that is not idle has in hand (InHand), which IInv adds         *)
(* together with the failures behind a reply (TriesCounted).               *)
(*                                                                         *)
(* From that invariant follows what the outbox does with requests and      *)
(* answers: no answer is forgotten or put on the wrong row, nothing is     *)
(* sent twice but after a lost outcome, statuses do not regress, and the   *)
(* outbox implements OutboundContract.  The central fact is Accounted: a   *)
(* request that was made and that nobody awaits has a lost outcome, or its *)
(* message is out of the workers' hands and carries this very answer or,   *)
(* after the poll crossed two replies of equal text, the answer of the     *)
(* other one.                                                              *)
(***************************************************************************)
EXTENDS OutboxRefinement, FiniteSetTheorems, TLAPS

InHand ==
  \A w \in Workers :
    /\ pc[w] # "idle" => held[w] \in Messages
    /\ pc[w] = "awaiting" => req[w] \in Requests /\ req[w][1] = held[w]

SendsBounded ==
  /\ \A m \in Messages :
       /\ sends[m] <= attempts[m] + 1
       /\ job[m] \in {"NONE", "PENDING"} => sends[m] <= attempts[m]
  /\ \A w \in Workers : pc[w] = "claimed" => sends[held[w]] <= attempts[held[w]]

\* The hub counts an attempt exactly when one failed, and gives up a reply for cause only.
TriesCounted ==
  \A m \in Messages :
    /\ failed[m] = attempts[m]
    /\ m \in refusals => job[m] = "FAILED"
    /\ job[m] = "FAILED" => m \in refusals \/ attempts[m] = MaxAttempts

IInv == TypeOK /\ JobMessageAgree /\ OneSender /\ InHand /\ SendsBounded /\ TriesCounted

-----------------------------------------------------------------------------
\* Initially there is no message, job or request.
LEMMA InitIInv == Init => IInv
<1> SUFFICES ASSUME Init PROVE IInv
  OBVIOUS
<1> USE DEF Init
<1>1. TypeOK
  BY BoundsAssumption DEF TypeOK, MessageStatuses, JobStatuses
<1>2. JobMessageAgree
  BY BoundsAssumption DEF JobMessageAgree, JobAgrees
<1>3. OneSender /\ InHand /\ SendsBounded /\ TriesCounted
  BY DEF OneSender, Holds, InHand, SendsBounded, TriesCounted
<1> QED
  BY <1>1, <1>2, <1>3 DEF IInv

\* A queued message changes only its own row and job, which no worker holds.
LEMMA InsertIInv ==
  ASSUME IInv, NEW m \in Messages, NEW c \in Conversations, NEW k \in ClientIds,
         NEW t \in Texts, NEW kind \in Kinds, Insert(m, c, k, t, kind),
         UNCHANGED <<worker, processed, window, provider, abandoned, crashes>>,
         drafts' \in [Workers -> SUBSET Drafts]
  PROVE  IInv'
<1> DEFINE R == [conv |-> c, client |-> k, text |-> t, kind |-> kind]
<1>1. R \in Rows /\ R # None
  BY NoneAssumption DEF Rows
<1>2. status[m] = "NONE" /\ job[m] = "NONE" /\ ext[m] = None /\ lockedBy[m] = None
      /\ attempts[m] < MaxAttempts
  BY DEF IInv, JobMessageAgree, JobAgrees, Insert, NextMessage, TypeOK
<1> HIDE DEF R
<1>3. /\ row' = [row EXCEPT ![m] = R]
      /\ status' = [status EXCEPT ![m] = "QUEUED"]
      /\ job'    = [job EXCEPT ![m] = "PENDING"]
      /\ due'    = [due EXCEPT ![m] = TRUE]
      /\ UNCHANGED <<ext, systemRows, attempts, lockedBy, pc, held, req, sends,
                     failed, refusals, processed, window, wire, accepted, abandoned, crashes>>
  BY DEF Insert, R, worker, provider
<1>4. TypeOK'
  BY <1>1, <1>3 DEF IInv, TypeOK, MessageStatuses, JobStatuses
<1>5. JobMessageAgree'
  BY <1>1, <1>2, <1>3 DEF IInv, TypeOK, JobMessageAgree, JobAgrees
<1>6. OneSender'
  BY <1>2, <1>3 DEF IInv, TypeOK, OneSender, Holds
<1>7. InHand' /\ SendsBounded' /\ TriesCounted'
  BY <1>2, <1>3 DEF IInv, TypeOK, InHand, SendsBounded, TriesCounted
<1> QED
  BY <1>4, <1>5, <1>6, <1>7 DEF IInv

\* A job that is due is locked by nobody, so no worker has it in hand yet.
LEMMA ClaimIInv ==
  ASSUME IInv, NEW w \in Workers, Claim(w)
  PROVE  IInv'
<1>1. PICK m \in DueJobs :
        /\ job'      = [job EXCEPT ![m] = "PROCESSING"]
        /\ lockedBy' = [lockedBy EXCEPT ![m] = w]
        /\ status'   = [status EXCEPT ![m] = IF @ = "QUEUED" THEN "SENDING" ELSE @]
        /\ held'     = [held EXCEPT ![w] = m]
  BY DEF Claim, Free
<1>2. m \in Messages /\ job[m] = "PENDING" /\ lockedBy[m] = None /\ status[m] = "QUEUED"
  BY DEF DueJobs, IInv, JobMessageAgree, JobAgrees
<1>3. /\ pc[w] = "idle"
      /\ pc' = [pc EXCEPT ![w] = "claimed"]
      /\ UNCHANGED <<row, ext, systemRows, attempts, due, processed, window, req,
                     sends, failed, refusals, drafts, wire, accepted, abandoned, crashes>>
  BY DEF Claim, Free, provider
<1>4. status' = [status EXCEPT ![m] = "SENDING"]
  BY <1>1, <1>2 DEF IInv, TypeOK
<1>5. TypeOK'
  BY <1>1, <1>2, <1>3, <1>4 DEF IInv, TypeOK, MessageStatuses, JobStatuses
<1>6. JobMessageAgree'
  BY <1>1, <1>2, <1>3, <1>4, NoneAssumption DEF IInv, TypeOK, JobMessageAgree, JobAgrees
<1>7. \A v \in Workers : ~ Holds(v, m)
  BY <1>2 DEF IInv, OneSender, Holds
<1>8. OneSender'
  BY <1>1, <1>2, <1>3, <1>7 DEF IInv, TypeOK, OneSender, Holds
<1>9. InHand' /\ SendsBounded'
  BY <1>1, <1>2, <1>3 DEF IInv, TypeOK, InHand, SendsBounded
<1>10. TriesCounted'
  BY <1>1, <1>2, <1>3 DEF IInv, TypeOK, TriesCounted
<1> QED
  BY <1>5, <1>6, <1>8, <1>9, <1>10 DEF IInv

\* The send made under a claim stays within the retry budget.
LEMMA DispatchIInv ==
  ASSUME IInv, NEW w \in Workers, Dispatch(w)
  PROVE  IInv'
<1> DEFINE m == held[w]
           r == <<m, sends[m] + 1>>
<1>1. /\ pc[w] = "claimed" /\ m \in Messages /\ sends[m] <= attempts[m]
      /\ job[m] \in {"PROCESSING", "COMPLETED"}
  BY DEF Dispatch, IInv, InHand, SendsBounded, OneSender, Holds
<1>2. attempts[m] < MaxAttempts /\ attempts[m] \in Nat /\ sends[m] \in Nat
  BY <1>1 DEF IInv, JobMessageAgree, JobAgrees, TypeOK
<1>3. r \in Requests
  BY <1>1, <1>2, BoundsAssumption DEF Requests
<1>4. /\ sends' = [sends EXCEPT ![m] = @ + 1]
      /\ req'   = [req EXCEPT ![w] = r]
      /\ wire'  = wire \cup {r}
      /\ pc'    = [pc EXCEPT ![w] = "awaiting"]
      /\ r[1] = m
      /\ UNCHANGED <<row, status, ext, systemRows, job, attempts, due, lockedBy,
                     processed, window, held, failed, refusals, drafts, accepted, abandoned,
                     crashes>>
  BY DEF Dispatch, rows, jobs
<1> HIDE DEF r
<1>5. TypeOK'
  BY <1>1, <1>2, <1>3, <1>4, BoundsAssumption DEF IInv, TypeOK
<1>6. JobMessageAgree' /\ OneSender'
  BY <1>1, <1>4 DEF IInv, TypeOK, JobMessageAgree, JobAgrees, OneSender, Holds
<1>7. InHand'
  BY <1>1, <1>3, <1>4 DEF IInv, TypeOK, InHand
<1>8. \A n \in Messages : sends'[n] <= attempts'[n] + 1
                       /\ (job'[n] \in {"NONE", "PENDING"} => sends'[n] <= attempts'[n])
  BY <1>1, <1>2, <1>4 DEF IInv, TypeOK, SendsBounded
<1>9. \A v \in Workers : pc'[v] = "claimed" => sends'[held'[v]] <= attempts'[held'[v]]
  <2> SUFFICES ASSUME NEW v \in Workers, pc'[v] = "claimed"
               PROVE  sends'[held'[v]] <= attempts'[held'[v]]
    OBVIOUS
  <2>1. v # w /\ pc[v] = "claimed"
    BY <1>4 DEF IInv, TypeOK
  <2>2. held[v] \in Messages /\ held[v] # m
    BY <1>1, <2>1 DEF IInv, InHand, OneSender, Holds
  <2> QED
    BY <1>4, <2>1, <2>2 DEF IInv, TypeOK, SendsBounded
<1>10. TriesCounted'
  BY <1>4 DEF IInv, TriesCounted
<1> QED
  BY <1>5, <1>6, <1>7, <1>8, <1>9, <1>10 DEF IInv, SendsBounded

\* A failed attempt writes through the lock, or, the poll having completed the
\* job, writes nothing.
LEMMA FailIInv ==
  ASSUME IInv, NEW w \in Workers, NEW retryable \in BOOLEAN, pc[w] # "idle",
         Fail(w, retryable),
         UNCHANGED <<processed, window, drafts, crashes>>,
         wire' \in SUBSET Requests, accepted' \in SUBSET Requests,
         abandoned' \in SUBSET Requests
  PROVE  IInv'
<1> DEFINE m == held[w]
           terminal == Terminal(m, retryable)
<1>1. m \in Messages /\ Holds(w, m)
  BY DEF IInv, InHand, Holds
<1>2. /\ pc'   = [pc EXCEPT ![w] = "idle"]
      /\ held' = [held EXCEPT ![w] = None]
      /\ req'  = [req EXCEPT ![w] = None]
      /\ UNCHANGED <<row, ext, systemRows, sends>>
  BY DEF Fail
<1>3. InHand'
  BY <1>2 DEF IInv, TypeOK, InHand
<1>4. \A v \in Workers \ {w} : pc'[v] = pc[v] /\ held'[v] = held[v]
  BY <1>2 DEF IInv, TypeOK
<1>5. pc'[w] = "idle"
  BY <1>2 DEF IInv, TypeOK
<1>6. CASE lockedBy[m] = w
  <2>1. job[m] = "PROCESSING" /\ status[m] = "SENDING" /\ ext[m] = None
        /\ attempts[m] < MaxAttempts /\ attempts[m] \in Nat
    BY <1>1, <1>6, NoneAssumption
    DEF IInv, TypeOK, OneSender, Holds, JobMessageAgree, JobAgrees
  <2>2. /\ status'   = [status EXCEPT ![m] = IF terminal THEN "FAILED" ELSE "QUEUED"]
        /\ job'      = [job EXCEPT ![m] = IF terminal THEN "FAILED" ELSE "PENDING"]
        /\ attempts' = [attempts EXCEPT ![m] = @ + 1]
        /\ due'      = [due EXCEPT ![m] = FALSE]
        /\ lockedBy' = [lockedBy EXCEPT ![m] = None]
        /\ failed'   = [failed EXCEPT ![m] = @ + 1]
        /\ refusals' = IF retryable THEN refusals ELSE refusals \cup {m}
    BY <1>6, <2>1 DEF Fail, Owns, LockAfterFailure
  <2>3. /\ ~terminal => attempts[m] + 1 < MaxAttempts /\ retryable
        /\ terminal => attempts[m] + 1 = MaxAttempts \/ ~retryable
    BY <2>1, BoundsAssumption DEF Terminal
  <2> HIDE DEF terminal
  <2>9. failed[m] = attempts[m]
    BY <1>1 DEF IInv, TriesCounted
  <2>4. TypeOK'
    BY <2>9, <1>1, <1>2, <2>1, <2>2, BoundsAssumption DEF IInv, TypeOK, MessageStatuses, JobStatuses
  <2>5. JobMessageAgree'
    <3> SUFFICES ASSUME NEW n \in Messages PROVE JobAgrees(n)'
      BY DEF JobMessageAgree
    <3>1. CASE n = m
      BY <1>1, <1>2, <2>1, <2>2, <2>3, <3>1 DEF IInv, TypeOK, JobMessageAgree, JobAgrees
    <3>2. CASE n # m
      BY <1>1, <1>2, <2>2, <3>2 DEF IInv, TypeOK, JobMessageAgree, JobAgrees
    <3> QED
      BY <3>1, <3>2
  <2>6. OneSender'
    BY <1>1, <1>4, <1>5, <2>2 DEF IInv, TypeOK, OneSender, Holds
  <2>7. \A n \in Messages : attempts'[n] = IF n = m THEN attempts[n] + 1 ELSE attempts[n]
    BY <1>1, <2>2 DEF IInv, TypeOK
  <2>8. SendsBounded'
    BY <1>1, <1>2, <1>4, <1>5, <2>1, <2>2, <2>7
    DEF IInv, TypeOK, SendsBounded, OneSender, Holds, InHand
  <2>10. TriesCounted'
    <3> SUFFICES ASSUME NEW n \in Messages
                 PROVE  /\ failed'[n] = attempts'[n]
                        /\ n \in refusals' => job'[n] = "FAILED"
                        /\ job'[n] = "FAILED" => n \in refusals' \/ attempts'[n] = MaxAttempts
      BY DEF TriesCounted
    <3>1. CASE n = m
      BY <1>1, <2>1, <2>2, <2>3, <2>9, <3>1 DEF IInv, TypeOK, TriesCounted
    <3>2. CASE n # m
      BY <1>1, <2>2, <3>2 DEF IInv, TypeOK, TriesCounted
    <3> QED
      BY <3>1, <3>2
  <2> QED
    BY <1>3, <2>4, <2>5, <2>6, <2>8, <2>10 DEF IInv
<1>7. CASE lockedBy[m] # w
  <2>1. UNCHANGED <<status, job, attempts, due, lockedBy, failed, refusals>>
    <3>1. ext[m] # None
      BY <1>1, <1>7 DEF IInv, OneSender, JobMessageAgree, JobAgrees
    <3> QED
      BY <1>7, <3>1 DEF Fail, Owns, jobs
  <2>2. TypeOK'
    BY <1>1, <1>2, <2>1 DEF IInv, TypeOK
  <2>3. JobMessageAgree'
    BY <1>2, <2>1 DEF IInv, JobMessageAgree, JobAgrees
  <2>4. OneSender' /\ SendsBounded'
    BY <1>1, <1>2, <1>4, <1>5, <2>1 DEF IInv, TypeOK, OneSender, Holds, SendsBounded
  <2>5. TriesCounted'
    BY <2>1 DEF IInv, TriesCounted
  <2> QED
    BY <1>3, <2>2, <2>3, <2>4, <2>5 DEF IInv
<1> QED
  BY <1>6, <1>7

\* A success either ends the job its worker still owns and records the answer,
\* or finds the message sent by the poll and changes neither row.
LEMMA CompleteIInv ==
  ASSUME IInv, NEW w \in Workers, Complete(w)
  PROVE  IInv'
<1> DEFINE m == held[w]
<1>1. m \in Messages /\ Holds(w, m) /\ req[w] \in Requests /\ req[w] # None
  BY NoneAssumption DEF Complete, IInv, InHand, Holds
<1>2. /\ pc'   = [pc EXCEPT ![w] = "idle"]
      /\ held' = [held EXCEPT ![w] = None]
      /\ req'  = [req EXCEPT ![w] = None]
      /\ UNCHANGED <<row, systemRows, attempts, due, processed, window, sends,
                     failed, refusals, drafts, wire, accepted, abandoned, crashes>>
  BY DEF Complete, provider
<1>3. InHand'
  BY <1>2 DEF IInv, TypeOK, InHand
<1>4. \A v \in Workers \ {w} : pc'[v] = pc[v] /\ held'[v] = held[v]
  BY <1>2 DEF IInv, TypeOK
<1>5. pc'[w] = "idle"
  BY <1>2 DEF IInv, TypeOK
<1>6. CASE status[m] = "SENDING"
  <2>1. job[m] = "PROCESSING" /\ lockedBy[m] = w /\ attempts[m] < MaxAttempts
    BY <1>1, <1>6 DEF IInv, OneSender, JobMessageAgree, JobAgrees
  <2>2. /\ status'   = [status EXCEPT ![m] = "SENT"]
        /\ ext'      = [ext EXCEPT ![m] = req[w]]
        /\ job'      = [job EXCEPT ![m] = "COMPLETED"]
        /\ lockedBy' = [lockedBy EXCEPT ![m] = None]
    BY <1>6, <2>1 DEF Complete, Owns
  <2>3. TypeOK'
    BY <1>1, <1>2, <2>2 DEF IInv, TypeOK, MessageStatuses, JobStatuses
  <2>4. JobMessageAgree'
    <3> SUFFICES ASSUME NEW n \in Messages PROVE JobAgrees(n)'
      BY DEF JobMessageAgree
    <3>1. CASE n = m
      BY <1>1, <1>2, <1>6, <2>1, <2>2, <3>1 DEF IInv, TypeOK, JobMessageAgree, JobAgrees
    <3>2. CASE n # m
      BY <1>1, <1>2, <2>2, <3>2 DEF IInv, TypeOK, JobMessageAgree, JobAgrees
    <3> QED
      BY <3>1, <3>2
  <2>5. OneSender' /\ SendsBounded'
    BY <1>1, <1>2, <1>4, <1>5, <2>1, <2>2 DEF IInv, TypeOK, OneSender, Holds, SendsBounded
  <2>6. TriesCounted'
    BY <1>1, <1>2, <2>1, <2>2 DEF IInv, TypeOK, TriesCounted
  <2> QED
    BY <1>3, <2>3, <2>4, <2>5, <2>6 DEF IInv
<1>7. CASE status[m] # "SENDING"
  <2>1. lockedBy[m] # w
    BY <1>1, <1>7, NoneAssumption DEF IInv, OneSender, JobMessageAgree, JobAgrees
  <2>2. UNCHANGED <<status, ext, job, lockedBy>>
    BY <1>7, <2>1 DEF Complete, Owns
  <2>3. TypeOK' /\ JobMessageAgree'
    BY <1>1, <1>2, <2>2 DEF IInv, TypeOK, JobMessageAgree, JobAgrees
  <2>4. OneSender' /\ SendsBounded'
    BY <1>1, <1>2, <1>4, <1>5, <2>2 DEF IInv, TypeOK, OneSender, Holds, SendsBounded
  <2>5. TriesCounted'
    BY <1>2, <2>2 DEF IInv, TriesCounted
  <2> QED
    BY <1>3, <2>3, <2>4, <2>5 DEF IInv
<1> QED
  BY <1>6, <1>7

\* A receipt finds only messages with an external id, whose job is completed.
LEMMA ReceiptIInv ==
  ASSUME IInv, NEW m \in Messages, NEW s \in Receipts, ReceiptArrives(m, s)
  PROVE  IInv'
<1>1. job[m] = "COMPLETED" /\ status[m] \notin {"NONE", "QUEUED", "SENDING"}
      /\ ext[m] \in Requests
  BY DEF ReceiptArrives, IInv, TypeOK, JobMessageAgree, JobAgrees
<1>2. PICK new \in Receipts \cup {status[m]} : status' = [status EXCEPT ![m] = new]
  BY DEF ReceiptArrives, IInv, TypeOK
<1>3. /\ processed' = processed \cup {<<ext[m], s>>}
      /\ UNCHANGED <<row, ext, systemRows, job, attempts, due, lockedBy, window, pc, held,
                     req, sends, failed, refusals, drafts, wire, accepted, abandoned, crashes>>
  BY DEF ReceiptArrives, jobs, worker, provider
<1>4. TypeOK'
  BY <1>1, <1>2, <1>3 DEF IInv, TypeOK, MessageStatuses, Receipts
<1>5. JobMessageAgree'
  BY <1>1, <1>2, <1>3 DEF IInv, TypeOK, JobMessageAgree, JobAgrees, Receipts
<1>6. OneSender' /\ InHand' /\ SendsBounded' /\ TriesCounted'
  BY <1>3 DEF IInv, OneSender, Holds, InHand, SendsBounded, TriesCounted
<1> QED
  BY <1>4, <1>5, <1>6 DEF IInv

\* The poll takes a job away from its worker only by completing it.
LEMMA AdoptIInv ==
  ASSUME IInv, NEW m \in Messages, NEW r \in Requests, AnswerAdopted(m, r)
  PROVE  IInv'
<1>1. /\ job[m] \in {"PENDING", "PROCESSING"} /\ ext[m] = None /\ r # None
      /\ attempts[m] < MaxAttempts
  BY NoneAssumption
  DEF AnswerAdopted, Adoptable, IInv, TypeOK, JobMessageAgree, JobAgrees, JobStatuses
<1>2. /\ ext'      = [ext EXCEPT ![m] = r]
      /\ status'   = [status EXCEPT ![m] = "SENT"]
      /\ job'      = [job EXCEPT ![m] = "COMPLETED"]
      /\ lockedBy' = [lockedBy EXCEPT ![m] = None]
      /\ UNCHANGED <<row, systemRows, attempts, due, processed, window, pc, held, req,
                     sends, failed, refusals, drafts, wire, accepted, abandoned, crashes>>
  BY <1>1 DEF AnswerAdopted, worker, provider
<1>3. TypeOK'
  BY <1>2 DEF IInv, TypeOK, MessageStatuses, JobStatuses
<1>4. JobMessageAgree'
  <2> SUFFICES ASSUME NEW n \in Messages PROVE JobAgrees(n)'
    BY DEF JobMessageAgree
  <2>1. CASE n = m
    BY <1>1, <1>2, <2>1 DEF IInv, TypeOK, JobMessageAgree, JobAgrees
  <2>2. CASE n # m
    BY <1>2, <2>2 DEF IInv, TypeOK, JobMessageAgree, JobAgrees
  <2> QED
    BY <2>1, <2>2
<1>5. OneSender' /\ InHand' /\ SendsBounded' /\ TriesCounted'
  BY <1>1, <1>2 DEF IInv, TypeOK, OneSender, Holds, InHand, SendsBounded, TriesCounted
<1> QED
  BY <1>3, <1>4, <1>5 DEF IInv

\* The poll sets a message that has an answer to SENT; its job is completed.
LEMMA KnownIInv ==
  ASSUME IInv, NEW m \in Messages, NEW r \in Requests, AnswerKnown(m, r)
  PROVE  IInv'
<1>1. job[m] = "COMPLETED" /\ status[m] \notin {"NONE", "QUEUED", "SENDING"}
  BY NoneAssumption DEF AnswerKnown, IInv, JobMessageAgree, JobAgrees
<1>2. /\ status' = [status EXCEPT ![m] = "SENT"]
      /\ UNCHANGED <<row, ext, systemRows, job, attempts, due, lockedBy, processed, window,
                     pc, held, req, sends, failed, refusals, drafts, wire, accepted, abandoned,
                     crashes>>
  BY DEF AnswerKnown, jobs, worker, provider
<1>3. TypeOK'
  BY <1>2 DEF IInv, TypeOK, MessageStatuses
<1>4. JobMessageAgree'
  BY <1>1, <1>2 DEF IInv, TypeOK, JobMessageAgree, JobAgrees
<1>5. OneSender' /\ InHand' /\ SendsBounded' /\ TriesCounted'
  BY <1>2 DEF IInv, OneSender, Holds, InHand, SendsBounded, TriesCounted
<1> QED
  BY <1>3, <1>4, <1>5 DEF IInv

\* A crash empties the hands of a worker and leaves its lock behind.
LEMMA CrashIInv ==
  ASSUME IInv, NEW w \in Workers, Crash(w)
  PROVE  IInv'
<1>1. abandoned' \in SUBSET Requests
  BY DEF Crash, IInv, TypeOK, InHand
<1>2. /\ crashes < MaxCrashes /\ crashes' = crashes + 1
      /\ pc'     = [pc EXCEPT ![w] = "idle"]
      /\ held'   = [held EXCEPT ![w] = None]
      /\ req'    = [req EXCEPT ![w] = None]
      /\ drafts' = [drafts EXCEPT ![w] = {}]
      /\ UNCHANGED <<row, status, ext, systemRows, job, attempts, due, lockedBy, processed,
                     window, sends, failed, refusals, wire, accepted>>
  BY DEF Crash, rows, jobs, provider
<1>3. TypeOK'
  BY <1>1, <1>2, BoundsAssumption DEF IInv, TypeOK
<1>4. JobMessageAgree'
  BY <1>2 DEF IInv, JobMessageAgree, JobAgrees
<1>5. OneSender' /\ InHand' /\ SendsBounded' /\ TriesCounted'
  BY <1>2 DEF IInv, TypeOK, OneSender, Holds, InHand, SendsBounded, TriesCounted
<1> QED
  BY <1>3, <1>4, <1>5 DEF IInv

\* Steps that leave the rows, the jobs' columns but `due`, and the workers alone.
LEMMA OtherIInv ==
  ASSUME IInv, UNCHANGED <<row, status, ext, job, attempts, lockedBy, worker>>, TypeOK'
  PROVE  IInv'
BY DEF IInv, worker, JobMessageAgree, JobAgrees, OneSender, Holds, InHand, SendsBounded,
       TriesCounted

\* Every step of the outbox preserves the strengthening, action by action.
LEMMA NextIInv == IInv /\ [Next]_vars => IInv'
<1> SUFFICES ASSUME IInv, [Next]_vars PROVE IInv'
  OBVIOUS
<1>1. ASSUME NEW m \in Messages, NEW c \in Conversations, NEW k \in ClientIds,
             NEW t \in Texts, QueueReply(m, c, k, t)
      PROVE  IInv'
  <2>1. "TEXT" \in Kinds /\ drafts' \in [Workers -> SUBSET Drafts]
    BY <1>1 DEF QueueReply, Kinds, IInv, TypeOK
  <2> QED
    BY <1>1, <2>1, InsertIInv DEF QueueReply
<1>2. ASSUME NEW p \in Workers, NEW c \in Conversations, NEW k \in ClientIds,
             NEW t \in Texts, TemplateRequested(p, c, k, t)
      PROVE  IInv'
  <2>1. <<c, k, t>> \in Drafts
    BY <1>2 DEF TemplateRequested, Drafts
  <2>2. TypeOK'
    BY <1>2, <2>1 DEF TemplateRequested, rows, jobs, worker, provider, IInv, TypeOK
  <2> QED
    BY <1>2, <2>2, OtherIInv DEF TemplateRequested, rows, jobs
<1>3. ASSUME NEW p \in Workers, NEW m \in Messages, NEW d \in Drafts,
             TemplateValidated(p, m, d)
      PROVE  IInv'
  <2>1. /\ "TEMPLATE" \in Kinds /\ drafts' \in [Workers -> SUBSET Drafts]
        /\ d[1] \in Conversations /\ d[2] \in ClientIds /\ d[3] \in Texts
    BY <1>3, ChannelsAssumption DEF TemplateValidated, Kinds, Drafts, IInv, TypeOK
  <2> QED
    BY <1>3, <2>1, InsertIInv DEF TemplateValidated
<1>4. ASSUME NEW p \in Workers, NEW d \in Drafts, TemplateDropped(p, d)
      PROVE  IInv'
  <2>1. TypeOK'
    BY <1>4 DEF TemplateDropped, rows, jobs, worker, provider, IInv, TypeOK
  <2> QED
    BY <1>4, <2>1, OtherIInv DEF TemplateDropped, rows, jobs
<1>5. ASSUME NEW w \in Workers, WorkerStep(w)
      PROVE  IInv'
  <2>1. CASE Claim(w)
    BY <2>1, ClaimIInv
  <2>2. CASE Dispatch(w)
    BY <2>2, DispatchIInv
  <2>3. CASE Complete(w)
    BY <2>3, CompleteIInv
  <2>4. CASE Collides(w)
    <3>1. pc[w] # "idle" /\ abandoned' \in SUBSET Requests
      BY <2>4 DEF Collides, IInv, TypeOK, InHand
    <3> QED
      BY <2>4, <3>1, FailIInv DEF Collides, provider, IInv, TypeOK
  <2>5. CASE TimesOut(w)
    <3>1. pc[w] # "idle" /\ abandoned' \in SUBSET Requests
      BY <2>5 DEF TimesOut, IInv, TypeOK, InHand
    <3> QED
      BY <2>5, <3>1, FailIInv DEF TimesOut, provider, IInv, TypeOK
  <2>6. ASSUME NEW retryable \in BOOLEAN, PreparationFails(w, retryable)
        PROVE  IInv'
    BY <2>6, FailIInv DEF PreparationFails, provider, IInv, TypeOK
  <2>7. ASSUME NEW retryable \in BOOLEAN, Refused(w, retryable)
        PROVE  IInv'
    BY <2>7, FailIInv DEF Refused, IInv, TypeOK
  <2> QED
    BY <1>5, <2>1, <2>2, <2>3, <2>4, <2>5, <2>6, <2>7 DEF WorkerStep
<1>6. ASSUME NEW m \in Messages, BackoffElapses(m)
      PROVE  IInv'
  <2>1. TypeOK'
    BY <1>6 DEF BackoffElapses, rows, worker, provider, IInv, TypeOK
  <2> QED
    BY <1>6, <2>1, OtherIInv DEF BackoffElapses, rows
<1>7. ASSUME NEW r \in Requests, Accept(r)
      PROVE  IInv'
  <2>1. TypeOK'
    BY <1>7 DEF Accept, rows, jobs, worker, IInv, TypeOK
  <2> QED
    BY <1>7, <2>1, OtherIInv DEF Accept, rows, jobs
<1>8. ASSUME NEW c \in Conversations, WindowCloses(c) \/ CustomerWrites(c)
      PROVE  IInv'
  <2>1. TypeOK'
    BY <1>8 DEF WindowCloses, CustomerWrites, rows, jobs, worker, provider, IInv, TypeOK
  <2> QED
    BY <1>8, <2>1, OtherIInv DEF WindowCloses, CustomerWrites, rows, jobs
<1>9. ASSUME NEW r \in Requests, AnswerAppended(r)
      PROVE  IInv'
  <2>1. TypeOK'
    BY <1>9 DEF AnswerAppended, jobs, worker, provider, IInv, TypeOK
  <2> QED
    BY <1>9, <2>1, OtherIInv DEF AnswerAppended, jobs
<1>10. CASE UNCHANGED vars
  <2>1. TypeOK'
    BY <1>10 DEF vars, rows, jobs, worker, provider, IInv, TypeOK
  <2> QED
    BY <1>10, <2>1, OtherIInv DEF vars, rows, jobs
<1> QED
  BY <1>1, <1>2, <1>3, <1>4, <1>5, <1>6, <1>7, <1>8, <1>9, <1>10,
     CrashIInv, ReceiptIInv, KnownIInv, AdoptIInv DEF Next

-----------------------------------------------------------------------------
\* The strengthening holds in every reachable state.
THEOREM Inductive == Spec => []IInv
BY InitIInv, NextIInv, PTL DEF Spec

\* Every request, row, job and worker of server/outbox keeps its type, for any
\* number of messages and processes; no send exceeds the retry budget.
THEOREM TypeCorrect == Spec => []TypeOK
BY Inductive, PTL DEF IInv

\* Message and job agree although worker, poll, receipts and crashes write them.
THEOREM Agreement == Spec => []JobMessageAgree
BY Inductive, PTL DEF IInv

\* A reply fails for good exactly when an attempt was refused for good or all MaxAttempts failed.
THEOREM ForCause == Spec => []GivenUpForCause
<1>1. ASSUME IInv, NEW m \in Messages
      PROVE  /\ failed[m] = attempts[m] /\ attempts[m] \in Nat /\ MaxAttempts \in Nat
             /\ job[m] = "FAILED" => m \in refusals \/ attempts[m] = MaxAttempts
             /\ job[m] # "FAILED" => m \notin refusals /\ attempts[m] < MaxAttempts
  BY <1>1, BoundsAssumption DEF IInv, TypeOK, TriesCounted, JobMessageAgree, JobAgrees
<1>2. IInv => GivenUpForCause
  BY <1>1 DEF GivenUpForCause
<1> QED
  BY <1>2, Inductive, PTL

\* The claim of server/outbox/worker.ts gives a message to one worker at a time.
THEOREM Exclusion == Spec => []OneSender
BY Inductive, PTL DEF IInv

-----------------------------------------------------------------------------
(* Requests and answers.                                                   *)

Issued == wire \cup accepted

IssuedKnown == \A r \in Issued : row[r[1]] # None /\ r[2] <= sends[r[1]]

Undecided == wire \cap accepted = {}

PolledStaySent ==
  \A m \in Messages : ext[m] # None /\ row[m].conv \notin ReceiptConvs => status[m] = "SENT"

InSomeHand(m) == \E w \in Workers : Holds(w, m)
Ended(q) == ~InSomeHand(q[1]) /\ (ext[q[1]] = q \/ Crossed(q[1]))

Accounted == \A q \in Issued : Awaited(q) \/ AbandonedSome(q[1]) \/ Ended(q)

OneIssued == \A q, r \in Issued : q[1] = r[1] /\ q # r => AbandonedSome(q[1])

DInv == /\ IssuedKnown /\ Undecided /\ RecordedIsGenuine
        /\ PolledStaySent /\ Accounted /\ OneIssued

-----------------------------------------------------------------------------
\* No request exists initially.
LEMMA InitDInv == Init => DInv
BY DEF Init, DInv, IssuedKnown, Issued, Undecided, RecordedIsGenuine, PolledStaySent,
       Accounted, OneIssued

\* What an issued request is, and what a message in hand has.
LEMMA IssuedFacts ==
  ASSUME IInv, DInv, NEW q \in Issued
  PROVE  q \in Requests /\ q = <<q[1], q[2]>> /\ q[1] \in Messages /\ row[q[1]] # None
BY DEF IInv, TypeOK, Issued, Requests, DInv, IssuedKnown

\* A request that somebody awaits is the one of the worker that holds its message.
LEMMA AwaitedFacts ==
  ASSUME IInv, NEW w \in Workers, NEW q \in Requests, Holds(w, q[1]), Awaited(q)
  PROVE  pc[w] = "awaiting" /\ req[w] = q
<1>1. PICK v \in Workers : pc[v] = "awaiting" /\ req[v] = q
  BY DEF Awaited
<1>2. Holds(v, q[1]) /\ q[1] \in Messages
  BY <1>1 DEF IInv, InHand, Holds, Requests
<1>3. v = w
  BY <1>2 DEF IInv, OneSender
<1> QED
  BY <1>1, <1>3

\* Steps that change nothing of requests, answers, statuses and hands.
LEMMA QuietDInv ==
  ASSUME DInv, UNCHANGED <<row, status, ext, systemRows, pc, held, req, sends, wire,
                           accepted, abandoned>>
  PROVE  DInv'
BY DEF DInv, IssuedKnown, Issued, Undecided, RecordedIsGenuine, PolledStaySent, Accounted,
       Awaited, AbandonedSome, Ended, InSomeHand, Holds, Crossed, OneIssued

\* A queued message has a row of its own; no request was made for it before.
LEMMA InsertDInv ==
  ASSUME IInv, DInv, NEW m \in Messages, NEW c \in Conversations, NEW k \in ClientIds,
         NEW t \in Texts, NEW kind \in Kinds, Insert(m, c, k, t, kind),
         UNCHANGED <<worker, provider, abandoned>>
  PROVE  DInv'
<1>1. PICK R \in Rows :
        /\ row' = [row EXCEPT ![m] = R]
        /\ status' = [status EXCEPT ![m] = "QUEUED"]
        /\ row[m] = None /\ ext[m] = None
        /\ UNCHANGED <<ext, systemRows, pc, held, req, sends, wire, accepted, abandoned>>
  BY DEF Insert, NextMessage, Rows, worker, provider, IInv, JobMessageAgree, JobAgrees
<1>2. R # None
  BY NoneAssumption
<1>3. \A q \in Issued : q[1] \in Messages /\ q[1] # m
  BY <1>1, IssuedFacts
<1>4. \A n \in Messages : row'[n] = IF n = m THEN R ELSE row[n]
  BY <1>1 DEF IInv, TypeOK
<1>5. IssuedKnown' /\ Undecided'
  BY <1>1, <1>3, <1>4 DEF DInv, IssuedKnown, Issued, Undecided
<1>6. RecordedIsGenuine'
  BY <1>1, <1>3, <1>4 DEF DInv, RecordedIsGenuine, Issued
<1>7. PolledStaySent'
  BY <1>1, <1>4 DEF DInv, PolledStaySent, IInv, TypeOK
<1>8. Accounted' /\ OneIssued'
  BY <1>1 DEF DInv, Accounted, OneIssued, Issued, Awaited, AbandonedSome, Ended, InSomeHand,
              Holds, Crossed
<1> QED
  BY <1>5, <1>6, <1>7, <1>8 DEF DInv

\* A message that is claimed carries no answer, so its issued requests were lost.
LEMMA ClaimDInv ==
  ASSUME IInv, DInv, NEW w \in Workers, Claim(w)
  PROVE  DInv'
<1>1. PICK m \in Messages :
        /\ job[m] = "PENDING"
        /\ status' = [status EXCEPT ![m] = IF @ = "QUEUED" THEN "SENDING" ELSE @]
        /\ held'   = [held EXCEPT ![w] = m]
  BY DEF Claim, DueJobs
<1>2. /\ pc[w] = "idle"
      /\ pc' = [pc EXCEPT ![w] = "claimed"]
      /\ UNCHANGED <<row, ext, systemRows, req, sends, wire, accepted, abandoned>>
  BY DEF Claim, Free, provider
<1>3. ext[m] = None
  BY <1>1 DEF IInv, JobMessageAgree, JobAgrees
<1>4. IssuedKnown' /\ Undecided' /\ RecordedIsGenuine' /\ OneIssued'
  BY <1>2 DEF DInv, IssuedKnown, Issued, Undecided, RecordedIsGenuine, OneIssued, AbandonedSome
<1>5. PolledStaySent'
  BY <1>1, <1>2, <1>3 DEF DInv, PolledStaySent, IInv, TypeOK
<1>6. Accounted'
  <2> SUFFICES ASSUME NEW q \in Issued
               PROVE  (Awaited(q) \/ AbandonedSome(q[1]) \/ Ended(q))'
    BY <1>2 DEF Accounted, Issued
  <2>1. Awaited(q) => Awaited(q)'
    BY <1>2 DEF Awaited, IInv, TypeOK
  <2>2. Ended(q) => q[1] # m
    BY <1>3, IssuedFacts, NoneAssumption DEF Ended, Crossed
  <2>3. Ended(q) => Ended(q)'
    BY <1>1, <1>2, <2>2 DEF Ended, InSomeHand, Holds, Crossed, IInv, TypeOK
  <2> QED
    BY <1>2, <2>1, <2>3 DEF DInv, Accounted, AbandonedSome
<1> QED
  BY <1>4, <1>5, <1>6 DEF DInv

\* Before a second send the first one has been lost: nobody awaits it, and a
\* message in hand has not ended.
LEMMA DispatchDInv ==
  ASSUME IInv, DInv, NEW w \in Workers, Dispatch(w)
  PROVE  DInv'
<1> DEFINE m == held[w]
           r == <<m, sends[m] + 1>>
<1>1. pc[w] = "claimed" /\ m \in Messages /\ Holds(w, m) /\ sends[m] \in Nat
  BY DEF Dispatch, IInv, InHand, Holds, TypeOK
<1>2. /\ sends' = [sends EXCEPT ![m] = @ + 1]
      /\ req'   = [req EXCEPT ![w] = r]
      /\ wire'  = wire \cup {r}
      /\ pc'    = [pc EXCEPT ![w] = "awaiting"]
      /\ UNCHANGED <<row, status, ext, systemRows, held, accepted, abandoned>>
  BY DEF Dispatch, rows
<1>3. r[1] = m /\ r[2] = sends[m] + 1
  OBVIOUS
<1>4. row[m] # None
  BY <1>1 DEF IInv, OneSender, JobMessageAgree, JobAgrees
<1>5. \A q \in Issued : q[1] = m => AbandonedSome(m)
  <2> SUFFICES ASSUME NEW q \in Issued, q[1] = m PROVE AbandonedSome(m)
    OBVIOUS
  <2>1. ~Awaited(q)
    BY <1>1, AwaitedFacts, IssuedFacts
  <2>2. ~Ended(q)
    BY <1>1 DEF Ended, InSomeHand
  <2> QED
    BY <2>1, <2>2 DEF DInv, Accounted
<1>6. \A q \in Issued : q[1] \in Messages /\ q[2] \in Nat /\ q[2] <= sends[q[1]] /\ row[q[1]] # None
  BY BoundsAssumption DEF DInv, IssuedKnown, IInv, TypeOK, Issued, Requests
<1>7. r \notin Issued
  BY <1>1, <1>3, <1>6
<1> HIDE DEF r
<1>8. \A n \in Messages : sends'[n] = IF n = m THEN sends[n] + 1 ELSE sends[n]
  BY <1>1, <1>2 DEF IInv, TypeOK
<1>9. IssuedKnown'
  <2> SUFFICES ASSUME NEW q \in Issued \cup {r} PROVE row[q[1]] # None /\ q[2] <= sends'[q[1]]
    BY <1>2 DEF IssuedKnown, Issued
  <2>1. CASE q = r
    BY <1>1, <1>3, <1>4, <1>8, <2>1
  <2>2. CASE q # r
    <3>1. sends[q[1]] \in Nat
      BY <1>6, <2>2 DEF IInv, TypeOK
    <3> QED
      BY <1>6, <1>8, <2>2, <3>1
  <2> QED
    BY <2>1, <2>2
<1>10. Undecided' /\ RecordedIsGenuine' /\ PolledStaySent'
  BY <1>2, <1>7 DEF DInv, Undecided, Issued, RecordedIsGenuine, PolledStaySent
<1>11. OneIssued'
  BY <1>2, <1>3, <1>5 DEF DInv, OneIssued, Issued, AbandonedSome
<1>12. Accounted'
  <2> SUFFICES ASSUME NEW q \in Issued \cup {r}
               PROVE  (Awaited(q) \/ AbandonedSome(q[1]) \/ Ended(q))'
    BY <1>2 DEF Accounted, Issued
  <2>1. CASE q = r
    BY <1>1, <1>2, <2>1 DEF Awaited, IInv, TypeOK
  <2>2. CASE q \in Issued
    <3>1. Awaited(q) => Awaited(q)'
      BY <1>1, <1>2 DEF Awaited, IInv, TypeOK
    <3>2. Ended(q) => Ended(q)'
      BY <1>1, <1>2 DEF Ended, InSomeHand, Holds, Crossed, IInv, TypeOK
    <3> QED
      BY <1>2, <2>2, <3>1, <3>2 DEF DInv, Accounted, AbandonedSome
  <2> QED
    BY <2>1, <2>2
<1> QED
  BY <1>9, <1>10, <1>11, <1>12 DEF DInv

\* A worker lets go of its message: the request it awaited is refused or lost.
LEMMA ReleaseDInv ==
  ASSUME IInv, DInv, NEW w \in Workers,
         pc'   = [pc EXCEPT ![w] = "idle"],
         held' = [held EXCEPT ![w] = None],
         req'  = [req EXCEPT ![w] = None],
         UNCHANGED <<row, ext, systemRows, sends, accepted>>,
         wire' \subseteq wire, abandoned \subseteq abandoned',
         \A m \in Messages : ext[m] # None => status'[m] = status[m],
         pc[w] = "awaiting" => req[w] \in abandoned' \/ req[w] \notin Issued'
  PROVE  DInv'
<1>1. Issued' \subseteq Issued
  BY DEF Issued
<1>2. IssuedKnown' /\ Undecided' /\ RecordedIsGenuine' /\ PolledStaySent'
  BY <1>1 DEF DInv, IssuedKnown, Undecided, RecordedIsGenuine, PolledStaySent
<1>3. \A m : AbandonedSome(m) => AbandonedSome(m)'
  BY DEF AbandonedSome
<1>4. OneIssued'
  BY <1>1, <1>3 DEF DInv, OneIssued
<1>5. Accounted'
  <2> SUFFICES ASSUME NEW q \in Issued'
               PROVE  (Awaited(q) \/ AbandonedSome(q[1]) \/ Ended(q))'
    BY DEF Accounted
  <2>1. CASE AbandonedSome(q[1])
    BY <1>3, <2>1
  <2>2. CASE Ended(q)
    BY <2>2 DEF Ended, InSomeHand, Holds, Crossed, IInv, TypeOK
  <2>3. ASSUME NEW v \in Workers, pc[v] = "awaiting", req[v] = q
        PROVE  (Awaited(q) \/ AbandonedSome(q[1]) \/ Ended(q))'
    <3>1. CASE v = w
      BY <2>3, <3>1 DEF AbandonedSome
    <3>2. CASE v # w
      BY <2>3, <3>2 DEF Awaited, IInv, TypeOK
    <3> QED
      BY <3>1, <3>2
  <2> QED
    BY <1>1, <2>1, <2>2, <2>3 DEF DInv, Accounted, Awaited
<1> QED
  BY <1>2, <1>4, <1>5 DEF DInv

\* A failed attempt touches the status of a message without an answer only.
LEMMA FailDInv ==
  ASSUME IInv, DInv, NEW w \in Workers, NEW retryable \in BOOLEAN, Fail(w, retryable),
         pc[w] # "idle", wire' \subseteq wire, UNCHANGED accepted, abandoned \subseteq abandoned',
         pc[w] = "awaiting" => req[w] \in abandoned' \/ req[w] \notin Issued'
  PROVE  DInv'
<1>1. \A m \in Messages : ext[m] # None => status'[m] = status[m]
  BY DEF Fail, Owns, IInv, TypeOK, JobMessageAgree, JobAgrees
<1> QED
  BY <1>1, ReleaseDInv DEF Fail

\* A success records the very answer it got, or finds the message answered:
\* by this answer, by another one's, or by that of an earlier, lost send.
LEMMA CompleteDInv ==
  ASSUME IInv, DInv, NEW w \in Workers, Complete(w)
  PROVE  DInv'
<1>1. PICK m \in Messages, r \in Requests :
        /\ held[w] = m /\ req[w] = r
        /\ Holds(w, m) /\ r[1] = m /\ r \in accepted /\ pc[w] = "awaiting" /\ r # None
  BY NoneAssumption DEF Complete, IInv, InHand, Holds
<1>2. /\ pc'   = [pc EXCEPT ![w] = "idle"]
      /\ held' = [held EXCEPT ![w] = None]
      /\ req'  = [req EXCEPT ![w] = None]
      /\ UNCHANGED <<row, systemRows, sends, wire, accepted, abandoned>>
  BY DEF Complete, provider
<1>3. ~InSomeHand(m)'
  BY <1>1, <1>2 DEF IInv, TypeOK, OneSender, InSomeHand, Holds
<1>4. \A q \in Issued : Awaited(q) => q = r \/ Awaited(q)'
  BY <1>1, <1>2 DEF Awaited, IInv, TypeOK
<1>5. row[m] # None
  BY <1>1, IssuedFacts DEF Issued
<1>6. CASE status[m] = "SENDING"
  <2>1. /\ status' = [status EXCEPT ![m] = "SENT"]
        /\ ext'    = [ext EXCEPT ![m] = r]
        /\ ~Taken(r)
    BY <1>1, <1>6 DEF Complete
  <2>2. ext[m] = None
    BY <1>1, <1>6 DEF IInv, JobMessageAgree, JobAgrees
  <2>3. \A n \in Messages : ext'[n] = IF n = m THEN r ELSE ext[n]
    BY <1>1, <2>1 DEF IInv, TypeOK
  <2>4. \A n \in Messages : status'[n] = IF n = m THEN "SENT" ELSE status[n]
    BY <1>1, <2>1 DEF IInv, TypeOK
  <2>5. RecordedIsGenuine'
    BY <1>1, <1>2, <2>1, <2>3 DEF DInv, RecordedIsGenuine, Taken, Carried
  <2>6. PolledStaySent'
    BY <1>2, <2>3, <2>4 DEF DInv, PolledStaySent
  <2>7. Accounted'
    <3> SUFFICES ASSUME NEW q \in Issued
                 PROVE  (Awaited(q) \/ AbandonedSome(q[1]) \/ Ended(q))'
      BY <1>2 DEF Accounted, Issued
    <3>1. q[1] \in Messages
      BY IssuedFacts
    <3>2. CASE q = r
      BY <1>1, <1>3, <2>3, <3>2 DEF Ended
    <3>3. CASE Ended(q)
      <4>1. q[1] # m
        BY <1>1, <3>3 DEF Ended, InSomeHand
      <4> QED
        BY <1>2, <2>3, <3>1, <3>3, <4>1 DEF Ended, InSomeHand, Holds, Crossed, IInv, TypeOK
    <3> QED
      BY <1>2, <1>4, <3>2, <3>3 DEF DInv, Accounted, AbandonedSome
  <2> QED
    BY <1>2, <2>5, <2>6, <2>7
    DEF DInv, IssuedKnown, Issued, Undecided, OneIssued, AbandonedSome
<1>7. CASE status[m] # "SENDING"
  <2>1. UNCHANGED <<status, ext>>
    BY <1>1, <1>7 DEF Complete
  <2>2. ext[m] # None
    BY <1>1, <1>7 DEF IInv, OneSender, JobMessageAgree, JobAgrees
  <2>3. AbandonedSome(m) \/ ext[m] = r \/ Crossed(m)
    <3> SUFFICES ASSUME ext[m] # r, ~Crossed(m) PROVE AbandonedSome(m)
      OBVIOUS
    <3> DEFINE q == ext[m]
    <3>1. q \in Issued /\ q \in Requests /\ q[1] = m
      BY <1>1, <2>2 DEF DInv, RecordedIsGenuine, Issued, Crossed, IInv, TypeOK
    <3>2. r \in Issued
      BY <1>1 DEF Issued
    <3> QED
      BY <1>1, <3>1, <3>2 DEF DInv, OneIssued
  <2>4. Accounted'
    <3> SUFFICES ASSUME NEW q \in Issued
                 PROVE  (Awaited(q) \/ AbandonedSome(q[1]) \/ Ended(q))'
      BY <1>2 DEF Accounted, Issued
    <3>1. CASE q = r
      BY <1>1, <1>2, <1>3, <2>1, <2>2, <2>3, <3>1 DEF Ended, Crossed, AbandonedSome
    <3>2. CASE Ended(q)
      BY <1>2, <2>1, <3>2 DEF Ended, InSomeHand, Holds, Crossed, IInv, TypeOK
    <3> QED
      BY <1>2, <1>4, <3>1, <3>2 DEF DInv, Accounted, AbandonedSome
  <2> QED
    BY <1>2, <2>1, <2>4 DEF DInv, IssuedKnown, Issued, Undecided, OneIssued, AbandonedSome,
                            RecordedIsGenuine, PolledStaySent
<1> QED
  BY <1>6, <1>7

\* The provider's decision moves a request and tells the hub nothing yet.
LEMMA AcceptDInv ==
  ASSUME DInv, NEW r \in Requests, Accept(r)
  PROVE  DInv'
<1>1. /\ r \in wire /\ wire' = wire \ {r} /\ accepted' = accepted \cup {r}
      /\ UNCHANGED <<row, status, ext, systemRows, pc, held, req, sends, abandoned>>
  BY DEF Accept, rows, worker
<1>2. Issued' = Issued
  BY <1>1 DEF Issued
<1>3. Undecided' /\ RecordedIsGenuine'
  BY <1>1 DEF DInv, Undecided, RecordedIsGenuine
<1> QED
  BY <1>1, <1>2, <1>3 DEF DInv, IssuedKnown, PolledStaySent, Accounted, Awaited,
       AbandonedSome, Ended, InSomeHand, Holds, Crossed, OneIssued

\* A receipt, or an answer that is known, changes the status of one message.
LEMMA StatusDInv ==
  ASSUME IInv, DInv, NEW m \in Messages, NEW s, status' = [status EXCEPT ![m] = s],
         row[m].conv \in ReceiptConvs \/ s = "SENT",
         UNCHANGED <<row, ext, systemRows, worker, provider, abandoned>>
  PROVE  DInv'
<1>1. PolledStaySent'
  BY DEF DInv, PolledStaySent, IInv, TypeOK
<1> QED
  BY <1>1 DEF DInv, IssuedKnown, Issued, Undecided, RecordedIsGenuine, Accounted,
     Awaited, AbandonedSome, Ended, InSomeHand, Holds, Crossed, OneIssued, worker, provider

\* The poll gives an answer nobody carries to a message that carries none.
LEMMA AdoptDInv ==
  ASSUME IInv, DInv, NEW m \in Messages, NEW r \in Requests, AnswerAdopted(m, r)
  PROVE  DInv'
<1>1. /\ ext'    = [ext EXCEPT ![m] = r]
      /\ status' = [status EXCEPT ![m] = "SENT"]
      /\ r \in accepted /\ ~Taken(r)
      /\ row[r[1]].conv = row[m].conv /\ row[r[1]].text = row[m].text
      /\ ext[m] = None
      /\ UNCHANGED <<row, systemRows, pc, held, req, sends, wire, accepted, abandoned>>
  BY DEF AnswerAdopted, AnswerSeen, Adoptable, worker, provider
<1>2. \A n \in Messages : ext'[n] = IF n = m THEN r ELSE ext[n]
  BY <1>1 DEF IInv, TypeOK
<1>3. \A n \in Messages : status'[n] = IF n = m THEN "SENT" ELSE status[n]
  BY <1>1 DEF IInv, TypeOK
<1>4. RecordedIsGenuine'
  BY <1>1, <1>2 DEF DInv, RecordedIsGenuine, Taken, Carried
<1>5. PolledStaySent'
  BY <1>1, <1>2, <1>3 DEF DInv, PolledStaySent
<1>6. Accounted'
  <2> SUFFICES ASSUME NEW q \in Issued
               PROVE  (Awaited(q) \/ AbandonedSome(q[1]) \/ Ended(q))'
    BY <1>1 DEF Accounted, Issued
  <2>1. q[1] \in Messages /\ q # None
    BY IssuedFacts, NoneAssumption
  <2>2. Ended(q) => q[1] # m
    BY <1>1, <2>1 DEF Ended, Crossed
  <2>3. Ended(q) => Ended(q)'
    BY <1>1, <1>2, <2>1, <2>2 DEF Ended, InSomeHand, Holds, Crossed
  <2> QED
    BY <1>1, <2>3 DEF DInv, Accounted, Awaited, AbandonedSome
<1> QED
  BY <1>1, <1>4, <1>5, <1>6
  DEF DInv, IssuedKnown, Issued, Undecided, OneIssued, AbandonedSome

\* The poll stores an answer nobody carries as a row of its own.
LEMMA AppendDInv ==
  ASSUME DInv, NEW r \in Requests, AnswerAppended(r)
  PROVE  DInv'
<1>1. RecordedIsGenuine'
  BY DEF AnswerAppended, Taken, Carried, DInv, RecordedIsGenuine, provider
<1> QED
  BY <1>1 DEF AnswerAppended, DInv, IssuedKnown, Issued, Undecided, PolledStaySent, Accounted,
     Awaited, AbandonedSome, Ended, InSomeHand, Holds, Crossed, OneIssued, worker, provider

\* A crash loses what its worker awaited.
LEMMA CrashDInv ==
  ASSUME IInv, DInv, NEW w \in Workers, Crash(w)
  PROVE  DInv'
BY ReleaseDInv DEF Crash, rows, provider

\* Every step of the outbox preserves the strengthening, action by action.
LEMMA NextDInv == IInv /\ DInv /\ [Next]_vars => DInv'
<1> SUFFICES ASSUME IInv, DInv, [Next]_vars PROVE DInv'
  OBVIOUS
<1>1. ASSUME NEW m \in Messages, NEW c \in Conversations, NEW k \in ClientIds,
             NEW t \in Texts, QueueReply(m, c, k, t)
      PROVE  DInv'
  BY <1>1, InsertDInv DEF QueueReply, Kinds
<1>2. ASSUME NEW p \in Workers, NEW m \in Messages, NEW d \in Drafts,
             TemplateValidated(p, m, d)
      PROVE  DInv'
  <2>1. d[1] \in Conversations /\ d[2] \in ClientIds /\ d[3] \in Texts
    BY ChannelsAssumption DEF Drafts
  <2> QED
    BY <1>2, <2>1, InsertDInv DEF TemplateValidated, Kinds
<1>3. ASSUME NEW p \in Workers, NEW c \in Conversations, NEW k \in ClientIds,
             NEW t \in Texts, TemplateRequested(p, c, k, t)
      PROVE  DInv'
  BY <1>3, QuietDInv DEF TemplateRequested, rows, worker, provider
<1>4. ASSUME NEW p \in Workers, NEW d \in Drafts, TemplateDropped(p, d)
      PROVE  DInv'
  BY <1>4, QuietDInv DEF TemplateDropped, rows, worker, provider
<1>5. ASSUME NEW w \in Workers, WorkerStep(w)
      PROVE  DInv'
  <2>1. CASE Claim(w)
    BY <2>1, ClaimDInv
  <2>2. CASE Dispatch(w)
    BY <2>2, DispatchDInv
  <2>3. CASE Complete(w)
    BY <2>3, CompleteDInv
  <2>4. CASE Collides(w)
    BY <2>4, FailDInv DEF Collides, provider
  <2>5. CASE TimesOut(w)
    BY <2>5, FailDInv DEF TimesOut, provider
  <2>6. ASSUME NEW retryable \in BOOLEAN, PreparationFails(w, retryable)
        PROVE  DInv'
    BY <2>6, FailDInv DEF PreparationFails, provider
  <2>7. ASSUME NEW retryable \in BOOLEAN, Refused(w, retryable)
        PROVE  DInv'
    <3>1. req[w] \notin Issued'
      BY <2>7 DEF Refused, Issued, DInv, Undecided
    <3> QED
      BY <2>7, <3>1, FailDInv DEF Refused
  <2> QED
    BY <1>5, <2>1, <2>2, <2>3, <2>4, <2>5, <2>6, <2>7 DEF WorkerStep
<1>6. ASSUME NEW m \in Messages, BackoffElapses(m)
      PROVE  DInv'
  BY <1>6, QuietDInv DEF BackoffElapses, rows, worker, provider
<1>7. ASSUME NEW c \in Conversations, WindowCloses(c) \/ CustomerWrites(c)
      PROVE  DInv'
  BY <1>7, QuietDInv DEF WindowCloses, CustomerWrites, rows, worker, provider
<1>8. ASSUME NEW m \in Messages, NEW s \in Receipts, ReceiptArrives(m, s)
      PROVE  DInv'
  BY <1>8, StatusDInv DEF ReceiptArrives
<1>9. ASSUME NEW m \in Messages, NEW r \in Requests, AnswerKnown(m, r)
      PROVE  DInv'
  BY <1>9, StatusDInv DEF AnswerKnown
<1>10. CASE UNCHANGED vars
  BY <1>10, QuietDInv DEF vars, rows, worker, provider
<1> QED
  BY <1>1, <1>2, <1>3, <1>4, <1>5, <1>6, <1>7, <1>8, <1>9, <1>10,
     AcceptDInv, AdoptDInv, AppendDInv, CrashDInv DEF Next

-----------------------------------------------------------------------------
(* What a step can do to statuses and answers.                             *)

Pending == {"QUEUED", "SENDING"}

Silent ==
  /\ \A m \in Messages : status'[m] = status[m] \/ {status[m], status'[m]} \subseteq Pending
  /\ UNCHANGED <<ext, accepted, processed>>

Submitted(m) ==
  /\ status[m] = "NONE" /\ status' = [status EXCEPT ![m] = "QUEUED"]
  /\ UNCHANGED <<ext, accepted, processed>>

GivenUp(m) ==
  /\ status[m] \in Pending /\ status' = [status EXCEPT ![m] = "FAILED"]
  /\ UNCHANGED <<ext, accepted, processed>>

Confirmed(m, r) ==
  /\ status[m] \in Pending /\ ext[m] = None
  /\ r \in accepted /\ ~Carried(r)
  /\ status' = [status EXCEPT ![m] = "SENT"]
  /\ ext'    = [ext EXCEPT ![m] = r]
  /\ UNCHANGED <<accepted, processed>>

Answered(r) ==
  /\ r \notin accepted /\ accepted' = accepted \cup {r}
  /\ UNCHANGED <<status, ext, processed>>

StepKind ==
  \/ Silent
  \/ \E m \in Messages : Submitted(m) \/ GivenUp(m)
  \/ \E m \in Messages, r \in Requests : Confirmed(m, r)
  \/ \E r \in Requests : Answered(r)
  \/ \E m \in Messages, s \in Receipts : ReceiptArrives(m, s)

\* A step that leaves statuses and answers alone is silent.
LEMMA QuietKind == UNCHANGED <<status, ext, accepted, processed>> => StepKind
BY DEF StepKind, Silent

\* A failed attempt gives up or queues again, or, no longer owning the job, is silent.
LEMMA FailKind ==
  ASSUME IInv, NEW w \in Workers, NEW retryable \in BOOLEAN, Fail(w, retryable),
         pc[w] # "idle", UNCHANGED <<accepted, processed>>
  PROVE  StepKind
<1>1. PICK m \in Messages : held[w] = m
  BY DEF IInv, InHand
<1>2. UNCHANGED ext
  BY DEF Fail
<1>3. CASE Owns(w, m) /\ job[m] = "PROCESSING"
  <2>1. status[m] = "SENDING"
    BY <1>3 DEF IInv, JobMessageAgree, JobAgrees
  <2>2. CASE Terminal(m, retryable)
    BY <1>1, <1>2, <1>3, <2>1, <2>2 DEF Fail, StepKind, GivenUp, Pending
  <2>3. CASE ~Terminal(m, retryable)
    <3>1. status' = [status EXCEPT ![m] = "QUEUED"]
      BY <1>1, <1>3, <2>3 DEF Fail
    <3> QED
      BY <1>2, <2>1, <3>1 DEF StepKind, Silent, Pending, IInv, TypeOK
  <2> QED
    BY <2>2, <2>3
<1>4. CASE ~(Owns(w, m) /\ job[m] = "PROCESSING")
  BY <1>1, <1>2, <1>4, QuietKind DEF Fail
<1> QED
  BY <1>3, <1>4

\* Every step of the outbox is of one of these kinds.
LEMMA NextKind == IInv /\ DInv /\ [Next]_vars => StepKind
<1> SUFFICES ASSUME IInv, DInv, [Next]_vars PROVE StepKind
  OBVIOUS
<1>1. ASSUME NEW m \in Messages, NEW c, NEW k, NEW t, NEW kind, Insert(m, c, k, t, kind),
             UNCHANGED <<accepted, processed>>
      PROVE  StepKind
  <2>1. status[m] = "NONE"
    BY <1>1 DEF Insert, NextMessage, IInv, JobMessageAgree, JobAgrees
  <2> QED
    BY <1>1, <2>1 DEF Insert, StepKind, Submitted
<1>2. ASSUME NEW w \in Workers, WorkerStep(w)
      PROVE  StepKind
  <2>1. CASE Claim(w)
    BY <2>1 DEF Claim, provider, StepKind, Silent, Pending, IInv, TypeOK
  <2>2. CASE Dispatch(w)
    BY <2>2, QuietKind DEF Dispatch, rows
  <2>3. CASE Complete(w)
    <3>1. PICK m \in Messages, r \in Requests : held[w] = m /\ req[w] = r
      BY <2>3 DEF Complete, IInv, InHand
    <3>2. CASE status[m] = "SENDING"
      <4>1. ext[m] = None
        BY <3>2 DEF IInv, JobMessageAgree, JobAgrees
      <4> QED
        BY <2>3, <3>1, <3>2, <4>1 DEF Complete, Taken, provider, StepKind, Confirmed, Pending
    <3>3. CASE status[m] # "SENDING"
      BY <2>3, <3>1, <3>3, QuietKind DEF Complete, provider
    <3> QED
      BY <3>2, <3>3
  <2>4. CASE Collides(w)
    BY <2>4, FailKind DEF Collides, provider
  <2>5. CASE TimesOut(w)
    BY <2>5, FailKind DEF TimesOut, provider
  <2>6. ASSUME NEW retryable \in BOOLEAN, PreparationFails(w, retryable)
        PROVE  StepKind
    BY <2>6, FailKind DEF PreparationFails, provider
  <2>7. ASSUME NEW retryable \in BOOLEAN, Refused(w, retryable)
        PROVE  StepKind
    BY <2>7, FailKind DEF Refused
  <2> QED
    BY <1>2, <2>1, <2>2, <2>3, <2>4, <2>5, <2>6, <2>7 DEF WorkerStep
<1>3. ASSUME NEW r \in Requests, Accept(r)
      PROVE  StepKind
  <2>1. r \notin accepted
    BY <1>3 DEF Accept, DInv, Undecided
  <2> QED
    BY <1>3, <2>1 DEF Accept, rows, StepKind, Answered
<1>4. ASSUME NEW m \in Messages, NEW r \in Requests, AnswerKnown(m, r)
      PROVE  StepKind
  <2>1. /\ status' = [status EXCEPT ![m] = "SENT"]
        /\ UNCHANGED <<ext, accepted, processed>>
        /\ ext[m] = r /\ row[r[1]].conv \in PolledConvs
    BY <1>4 DEF AnswerKnown, AnswerSeen, provider
  <2>2. r # None
    BY NoneAssumption
  <2>3. row[m].conv \notin ReceiptConvs
    BY <2>1, <2>2, ChannelsAssumption DEF DInv, RecordedIsGenuine
  <2>4. status[m] = "SENT"
    BY <2>1, <2>2, <2>3 DEF DInv, PolledStaySent
  <2> QED
    BY <2>1, <2>4, QuietKind DEF IInv, TypeOK
<1>5. ASSUME NEW m \in Messages, NEW r \in Requests, AnswerAdopted(m, r)
      PROVE  StepKind
  <2>1. status[m] \in Pending /\ ext[m] = None
    BY <1>5 DEF AnswerAdopted, Adoptable, Pending, IInv, TypeOK, JobStatuses,
                JobMessageAgree, JobAgrees
  <2> QED
    BY <1>5, <2>1 DEF AnswerAdopted, AnswerSeen, Taken, provider, StepKind, Confirmed
<1>6. CASE UNCHANGED vars
  BY <1>6, QuietKind DEF vars, rows, provider
<1>7. ASSUME NEW w \in Workers, Crash(w) PROVE StepKind
  BY <1>7, QuietKind DEF Crash, rows, provider
<1>8. ASSUME NEW m \in Messages, NEW c \in Conversations, NEW k \in ClientIds,
             NEW t \in Texts, QueueReply(m, c, k, t)
      PROVE  StepKind
  BY <1>1, <1>8 DEF QueueReply, provider
<1>9. ASSUME NEW p \in Workers, NEW m \in Messages, NEW d \in Drafts, TemplateValidated(p, m, d)
      PROVE  StepKind
  BY <1>1, <1>9 DEF TemplateValidated, provider
<1>10. ASSUME NEW p \in Workers, NEW c \in Conversations, NEW k \in ClientIds,
              NEW t \in Texts, TemplateRequested(p, c, k, t)
       PROVE  StepKind
  BY <1>10, QuietKind DEF TemplateRequested, rows, provider
<1>11. ASSUME NEW p \in Workers, NEW d \in Drafts, TemplateDropped(p, d)
       PROVE  StepKind
  BY <1>11, QuietKind DEF TemplateDropped, rows, provider
<1>12. ASSUME NEW m \in Messages, BackoffElapses(m) PROVE StepKind
  BY <1>12, QuietKind DEF BackoffElapses, rows, provider
<1>13. ASSUME NEW c \in Conversations, WindowCloses(c) \/ CustomerWrites(c) PROVE StepKind
  BY <1>13, QuietKind DEF WindowCloses, CustomerWrites, rows, provider
<1>14. ASSUME NEW r \in Requests, AnswerAppended(r) PROVE StepKind
  BY <1>14, QuietKind DEF AnswerAppended, provider
<1>15. ASSUME NEW m \in Messages, NEW s \in Receipts, ReceiptArrives(m, s) PROVE StepKind
  BY <1>15 DEF StepKind
<1> QED
  BY <1>2, <1>3, <1>4, <1>5, <1>6, <1>7, <1>8, <1>9, <1>10, <1>11, <1>12, <1>13, <1>14, <1>15
  DEF Next

-----------------------------------------------------------------------------
(* Receipts.                                                               *)

ReceiptsCarried == \A e \in processed : Carried(e[1])

\* The ranks of server/messages/status.ts.
LEMMA RankFacts ==
  /\ rank["QUEUED"] = 0 /\ rank["SENDING"] = 1 /\ rank["SENT"] = 2
  /\ rank["DELIVERED"] = 3 /\ rank["READ"] = 4
BY DEF rank

\* A message with an answer has left the pending statuses.
LEMMA AnsweredStatus ==
  ASSUME IInv, NEW m \in Messages, ext[m] # None
  PROVE  status[m] \in {"SENT", "DELIVERED", "READ", "FAILED"}
BY DEF IInv, TypeOK, MessageStatuses, JobMessageAgree, JobAgrees

\* A receipt moves its message to the furthest status processed, and no other.
LEMMA ReceiptConverges ==
  ASSUME IInv, DInv, ReceiptsCarried, ReceiptsConverge,
         NEW m \in Messages, NEW s \in Receipts, ReceiptArrives(m, s)
  PROVE  ReceiptsCarried' /\ ReceiptsConverge'
<1>1. /\ ext[m] # None /\ ext' = ext
      /\ status' = [status EXCEPT ![m] = IF Advances(@, s) THEN s ELSE @]
      /\ processed' = processed \cup {<<ext[m], s>>}
  BY DEF ReceiptArrives
<1>2. ReceiptsCarried'
  BY <1>1 DEF ReceiptsCarried, Carried
<1>3. ReceiptsConverge'
  <2> SUFFICES ASSUME NEW n \in Messages, ext[n] # None, status'[n] # "FAILED"
               PROVE  LET seen == {x \in {"SENT", "DELIVERED", "READ"} :
                                     <<ext[n], x>> \in processed'} \cup {"SENT"}
                      IN  status'[n] \in seen /\ \A x \in seen : rank[x] <= rank[status'[n]]
    BY <1>1 DEF ReceiptsConverge
  <2>1. CASE n # m
    <3>1. ext[n] # ext[m]
      BY <1>1, <2>1 DEF DInv, RecordedIsGenuine
    <3>2. status'[n] = status[n] /\ \A x : <<ext[n], x>> \in processed' <=> <<ext[n], x>> \in processed
      BY <1>1, <2>1, <3>1 DEF IInv, TypeOK
    <3> QED
      BY <3>2 DEF ReceiptsConverge
  <2>2. CASE n = m
    <3> DEFINE old == {x \in {"SENT", "DELIVERED", "READ"} :
                                     <<ext[m], x>> \in processed} \cup {"SENT"}
    <3>1. status'[m] = IF Advances(status[m], s) THEN s ELSE status[m]
      BY <1>1 DEF IInv, TypeOK
    <3>2. status[m] # "FAILED"
      BY <2>2, <3>1 DEF Advances
    <3>3. status[m] \in old /\ \A x \in old : rank[x] <= rank[status[m]]
      BY <1>1, <3>2 DEF ReceiptsConverge
    <3>4. status[m] \in {"SENT", "DELIVERED", "READ"}
      BY <3>3
    <3>5. \A x : <<ext[m], x>> \in processed' <=> <<ext[m], x>> \in processed \/ x = s
      BY <1>1
    <3>6. CASE s = "FAILED"
      BY <2>2, <3>1, <3>3, <3>5, <3>6
    <3>7. CASE s # "FAILED"
      <4>1. s \in {"SENT", "DELIVERED", "READ"}
        BY <3>7 DEF Receipts
      <4>2. status'[m] = IF rank[s] > rank[status[m]] THEN s ELSE status[m]
        BY <3>1, <3>2, <3>7 DEF Advances
      <4> QED
        BY <2>2, <3>3, <3>4, <3>5, <4>1, <4>2, RankFacts
    <3> QED
      BY <3>6, <3>7
  <2> QED
    BY <2>1, <2>2
<1> QED
  BY <1>2, <1>3

\* No other step disturbs what the receipts of a message have led to.
LEMMA ConvergeStep ==
  ASSUME IInv, DInv, ReceiptsCarried, ReceiptsConverge, [Next]_vars
  PROVE  ReceiptsCarried' /\ ReceiptsConverge'
<1>1. CASE Silent
  <2>1. \A m \in Messages : ext[m] # None => status'[m] = status[m]
    BY <1>1, AnsweredStatus DEF Silent, Pending
  <2> QED
    BY <1>1, <2>1 DEF Silent, ReceiptsCarried, ReceiptsConverge, Carried
<1>2. ASSUME NEW m \in Messages, Submitted(m) \/ GivenUp(m)
      PROVE  ReceiptsCarried' /\ ReceiptsConverge'
  <2>1. \A n \in Messages : ext[n] # None => n # m
    BY <1>2, AnsweredStatus DEF Submitted, GivenUp, Pending
  <2>2. \A n \in Messages : ext[n] # None => status'[n] = status[n]
    BY <1>2, <2>1 DEF Submitted, GivenUp, IInv, TypeOK
  <2> QED
    BY <1>2, <2>2 DEF Submitted, GivenUp, ReceiptsCarried, ReceiptsConverge, Carried
<1>3. ASSUME NEW m \in Messages, NEW r \in Requests, Confirmed(m, r)
      PROVE  ReceiptsCarried' /\ ReceiptsConverge'
  <2>1. /\ \A n \in Messages : ext'[n] = IF n = m THEN r ELSE ext[n]
        /\ \A n \in Messages : status'[n] = IF n = m THEN "SENT" ELSE status[n]
        /\ ext[m] = None /\ processed' = processed /\ ~Carried(r)
    BY <1>3 DEF Confirmed, IInv, TypeOK
  <2>2. ReceiptsCarried'
    <3> SUFFICES ASSUME NEW e \in processed PROVE Carried(e[1])'
      BY <2>1 DEF ReceiptsCarried
    <3>1. PICK n \in Messages : ext[n] = e[1]
      BY DEF ReceiptsCarried, Carried
    <3>2. e[1] # None
      BY NoneAssumption DEF IInv, TypeOK
    <3> QED
      BY <2>1, <3>1, <3>2 DEF Carried
  <2>3. \A x : <<r, x>> \notin processed
    BY <2>1 DEF ReceiptsCarried
  <2>4. ReceiptsConverge'
    <3> SUFFICES ASSUME NEW n \in Messages, ext'[n] # None, status'[n] # "FAILED"
                 PROVE  LET seen == {x \in {"SENT", "DELIVERED", "READ"} :
                                       <<ext'[n], x>> \in processed} \cup {"SENT"}
                        IN  status'[n] \in seen /\ \A x \in seen : rank[x] <= rank[status'[n]]
      BY <2>1 DEF ReceiptsConverge
    <3>1. CASE n = m
      BY <2>1, <2>3, <3>1, RankFacts
    <3>2. CASE n # m
      BY <2>1, <3>2 DEF ReceiptsConverge
    <3> QED
      BY <3>1, <3>2
  <2> QED
    BY <2>2, <2>4
<1>4. ASSUME NEW r \in Requests, Answered(r)
      PROVE  ReceiptsCarried' /\ ReceiptsConverge'
  BY <1>4 DEF Answered, ReceiptsCarried, ReceiptsConverge, Carried
<1> QED
  BY <1>1, <1>2, <1>3, <1>4, ReceiptConverges, NextKind DEF StepKind

-----------------------------------------------------------------------------
(* The theorems.                                                           *)

\* The strengthening holds in every reachable state.
THEOREM DeliveryInductive == Spec => [](IInv /\ DInv)
<1>1. Init => IInv /\ DInv
  BY InitIInv, InitDInv
<1>2. (IInv /\ DInv) /\ [Next]_vars => (IInv /\ DInv)'
  BY NextIInv, NextDInv
<1> QED
  BY <1>1, <1>2, PTL DEF Spec

\* An external id the hub shows was given by the provider to this very text in
\* this conversation, and is shown once.
THEOREM Genuine == Spec => []RecordedIsGenuine
BY DeliveryInductive, PTL DEF DInv

\* What a provider accepted is on a row, awaited, lost by a failure the worker
\* saw, or crossed by the poll.
THEOREM NothingForgotten == Spec => []AcceptedIsRecorded
<1>1. IInv /\ DInv => AcceptedIsRecorded
  BY IssuedFacts
  DEF AcceptedIsRecorded, DInv, Accounted, Issued, Ended, Taken, Carried
<1> QED
  BY <1>1, DeliveryInductive, PTL

\* A second acceptance of a message always follows a lost outcome.
THEOREM NoNeedlessDuplicate == Spec => []DuplicateOnlyAfterLoss
<1>1. DInv => DuplicateOnlyAfterLoss
  BY DEF DInv, OneIssued, Issued, DuplicateOnlyAfterLoss
<1> QED
  BY <1>1, DeliveryInductive, PTL

\* Receipts in any order, early, late or repeated lead to the furthest status.
THEOREM Converge == Spec => []ReceiptsConverge
<1> DEFINE C == ReceiptsCarried /\ ReceiptsConverge
<1>1. Init => C
  BY DEF Init, ReceiptsCarried, ReceiptsConverge
<1>2. (IInv /\ DInv) /\ C /\ [Next]_vars => C'
  BY ConvergeStep
<1>3. C => ReceiptsConverge
  OBVIOUS
<1> HIDE DEF C
<1> QED
  BY <1>1, <1>2, <1>3, DeliveryInductive, PTL DEF Spec

\* A client id names one message, although templates are checked across an await.
THEOREM UniqueClientIds == Spec => []OneMessagePerClientId
<1>1. Init => OneMessagePerClientId
  BY DEF Init, OneMessagePerClientId
<1>2. ASSUME IInv, OneMessagePerClientId, NEW m \in Messages, NEW c, NEW k, NEW t, NEW kind,
             Insert(m, c, k, t, kind)
      PROVE  OneMessagePerClientId'
  <2>1. row' = [row EXCEPT ![m] = [conv |-> c, client |-> k, text |-> t, kind |-> kind]]
        /\ \A n \in Messages : row[n] # None => row[n].client # k
    BY <1>2 DEF Insert, ClientIdFree
  <2>2. \A n \in Messages :
          row'[n] = IF n = m THEN [conv |-> c, client |-> k, text |-> t, kind |-> kind] ELSE row[n]
    BY <2>1, <1>2 DEF IInv, TypeOK
  <2> QED
    BY <1>2, <2>1, <2>2 DEF OneMessagePerClientId
<1>3. IInv /\ OneMessagePerClientId /\ [Next]_vars => OneMessagePerClientId'
  <2> SUFFICES ASSUME IInv, OneMessagePerClientId, [Next]_vars PROVE OneMessagePerClientId'
    OBVIOUS
  <2>1. UNCHANGED row \/ \E m \in Messages : \E c, k, t, kind : Insert(m, c, k, t, kind)
    <3>1. CASE UNCHANGED vars
      BY <3>1 DEF vars, rows
    <3>2. ASSUME NEW w \in Workers, WorkerStep(w) \/ Crash(w) PROVE UNCHANGED row
      BY <3>2 DEF WorkerStep, Claim, Dispatch, Complete, Collides, TimesOut,
                  PreparationFails, Refused, Fail, Crash, rows
    <3>3. CASE Next
      BY <3>2, <3>3 DEF Next, QueueReply, TemplateRequested, TemplateValidated,
         TemplateDropped, BackoffElapses, Accept, WindowCloses, CustomerWrites,
         ReceiptArrives, AnswerKnown, AnswerAdopted, AnswerAppended, rows
    <3> QED
      BY <3>1, <3>3
  <2> QED
    BY <1>2, <2>1 DEF OneMessagePerClientId
<1> QED
  BY <1>1, <1>3, Inductive, PTL DEF Spec

\* What a user has seen is not taken back: READ and FAILED are final, DELIVERED
\* only becomes READ, and SENT never becomes QUEUED or SENDING again.
Final(old, new) ==
  CASE old = "READ"      -> new = "READ"
    [] old = "FAILED"    -> new = "FAILED"
    [] old = "DELIVERED" -> new \in {"DELIVERED", "READ"}
    [] old = "SENT"      -> new \in {"SENT", "DELIVERED", "READ", "FAILED"}
    [] OTHER             -> TRUE

StatusNeverRegresses == [][\A m \in Messages : Final(status[m], status'[m])]_vars

\* What a user has seen of a message is not taken back, whoever writes its status.
THEOREM NoRegress == Spec => StatusNeverRegresses
<1>1. IInv /\ DInv /\ [Next]_vars => \A m \in Messages : Final(status[m], status'[m])
  <2> SUFFICES ASSUME IInv, DInv, [Next]_vars, NEW n \in Messages
               PROVE  Final(status[n], status'[n])
    OBVIOUS
  <2>0. status[n] \in MessageStatuses
    BY DEF IInv, TypeOK
  <2>1. (status'[n] = status[n] \/ status[n] \in Pending \cup {"NONE"})
        => Final(status[n], status'[n])
    BY <2>0 DEF Final, Pending, MessageStatuses
  <2>2. CASE Silent
    BY <2>1, <2>2 DEF Silent
  <2>3. ASSUME NEW m \in Messages, Submitted(m) \/ GivenUp(m)
        PROVE  Final(status[n], status'[n])
    BY <2>1, <2>3 DEF Submitted, GivenUp, IInv, TypeOK
  <2>4. ASSUME NEW m \in Messages, NEW r \in Requests, Confirmed(m, r)
        PROVE  Final(status[n], status'[n])
    BY <2>1, <2>4 DEF Confirmed, IInv, TypeOK
  <2>5. ASSUME NEW r \in Requests, Answered(r)
        PROVE  Final(status[n], status'[n])
    BY <2>1, <2>5 DEF Answered
  <2>6. ASSUME NEW m \in Messages, NEW s \in Receipts, ReceiptArrives(m, s)
        PROVE  Final(status[n], status'[n])
    <3>1. status'[n] = status[n] \/ (status'[n] = s /\ n = m /\ Advances(status[m], s))
      BY <2>6 DEF ReceiptArrives, IInv, TypeOK
    <3>2. status[m] \in {"SENT", "DELIVERED", "READ", "FAILED"}
      BY <2>6, AnsweredStatus DEF ReceiptArrives
    <3>3. Advances(status[m], s) => Final(status[m], s)
      BY <3>2, RankFacts DEF Advances, Final, Receipts
    <3> QED
      BY <2>1, <3>1, <3>3
  <2> QED
    BY <2>2, <2>3, <2>4, <2>5, <2>6, NextKind DEF StepKind
<1>2. IInv /\ DInv /\ [Next]_vars => [\A m \in Messages : Final(status[m], status'[m])]_vars
  BY <1>1
<1> QED
  BY <1>2, DeliveryInductive, PTL DEF Spec, StatusNeverRegresses

-----------------------------------------------------------------------------
(* Locks that a crash leaves behind.                                       *)

StrandedSet == {m \in Messages : Stranded(m)}

StrandedBounded == IsFiniteSet(StrandedSet) /\ Cardinality(StrandedSet) <= crashes

\* With message and job in agreement, what is locked or PROCESSING is what is SENDING.
LEMMA OrphansStranded == IInv => {m \in Messages : Orphaned(m)} = StrandedSet
<1> SUFFICES ASSUME IInv, NEW m \in Messages PROVE Orphaned(m) <=> Stranded(m)
  BY DEF StrandedSet
<1> QED
  BY DEF IInv, JobMessageAgree, JobAgrees, Orphaned, Stranded

\* A worker that lets go of a message has settled it or put it back in the queue.
LEMMA FailReleases ==
  ASSUME IInv, NEW w \in Workers, NEW retryable \in BOOLEAN, pc[w] # "idle",
         Fail(w, retryable)
  PROVE  StrandedSet' \subseteq StrandedSet
<1>1. held[w] \in Messages /\ Holds(w, held[w])
  BY DEF IInv, InHand, Holds
<1>2. \A v \in Workers \ {w} : pc'[v] = pc[v] /\ held'[v] = held[v]
  BY DEF Fail, IInv, TypeOK
<1>3. \A n \in Messages \ {held[w]} : status'[n] = status[n]
  BY <1>1 DEF Fail, IInv, TypeOK
<1>4. status'[held[w]] # "SENDING"
  BY <1>1 DEF Fail, Owns, IInv, TypeOK, OneSender, JobMessageAgree, JobAgrees
<1> QED
  BY <1>1, <1>2, <1>3, <1>4 DEF StrandedSet, Stranded, Holds

LEMMA CompleteReleases ==
  ASSUME IInv, NEW w \in Workers, Complete(w)
  PROVE  StrandedSet' \subseteq StrandedSet
<1>1. held[w] \in Messages /\ Holds(w, held[w])
  BY DEF Complete, IInv, InHand, Holds
<1>2. \A v \in Workers \ {w} : pc'[v] = pc[v] /\ held'[v] = held[v]
  BY DEF Complete, IInv, TypeOK
<1>3. status'[held[w]] # "SENDING" /\ \A n \in Messages \ {held[w]} : status'[n] = status[n]
  BY <1>1 DEF Complete, IInv, TypeOK
<1> QED
  BY <1>1, <1>2, <1>3 DEF StrandedSet, Stranded, Holds

\* A message becomes SENDING only in the hand of the worker that claims it.
LEMMA ClaimInHand ==
  ASSUME IInv, NEW w \in Workers, Claim(w)
  PROVE  StrandedSet' \subseteq StrandedSet
<1>1. PICK m \in DueJobs :
        /\ status' = [status EXCEPT ![m] = IF @ = "QUEUED" THEN "SENDING" ELSE @]
        /\ held'   = [held EXCEPT ![w] = m]
  BY DEF Claim
<1>2. pc[w] = "idle" /\ pc' = [pc EXCEPT ![w] = "claimed"] /\ m \in Messages
  BY DEF Claim, Free, DueJobs
<1>3. Holds(w, m)' /\ \A v \in Workers, n \in Messages : Holds(v, n) => Holds(v, n)'
  BY <1>1, <1>2 DEF Holds, IInv, TypeOK
<1>4. \A n \in Messages \ {m} : status'[n] = status[n]
  BY <1>1, <1>2 DEF IInv, TypeOK
<1> QED
  BY <1>3, <1>4 DEF StrandedSet, Stranded

\* Steps that leave the hands alone and make no message SENDING.
LEMMA SameHandsStranded ==
  ASSUME UNCHANGED <<pc, held>>,
         \A n \in Messages : status'[n] = "SENDING" => status[n] = "SENDING"
  PROVE  StrandedSet' \subseteq StrandedSet
BY DEF StrandedSet, Stranded, Holds

\* A crash strands at most the message of the worker it stops.
LEMMA CrashStrands ==
  ASSUME IInv, NEW w \in Workers, Crash(w)
  PROVE  StrandedSet' \subseteq StrandedSet \cup {held[w]} /\ crashes' = crashes + 1
<1>1. \A v \in Workers \ {w} : pc'[v] = pc[v] /\ held'[v] = held[v]
  BY DEF Crash, IInv, TypeOK
<1> QED
  BY <1>1 DEF Crash, rows, StrandedSet, Stranded, Holds

\* A worker's step other than a crash strands no message.
LEMMA WorkerStrands ==
  ASSUME IInv, NEW w \in Workers, WorkerStep(w)
  PROVE  StrandedSet' \subseteq StrandedSet /\ crashes' = crashes
<1>1. CASE Claim(w)
  BY <1>1, ClaimInHand DEF Claim
<1>2. CASE Dispatch(w)
  <2>1. \A v \in Workers : held'[v] = held[v] /\ (pc[v] # "idle" => pc'[v] # "idle")
    BY <1>2 DEF Dispatch, IInv, TypeOK
  <2> QED
    BY <1>2, <2>1 DEF Dispatch, rows, StrandedSet, Stranded, Holds
<1>3. CASE Complete(w)
  BY <1>3, CompleteReleases DEF Complete
<1>4. CASE Collides(w)
  BY <1>4, FailReleases DEF Collides
<1>5. CASE TimesOut(w)
  BY <1>5, FailReleases DEF TimesOut
<1>6. ASSUME NEW retryable \in BOOLEAN,
             PreparationFails(w, retryable) \/ Refused(w, retryable)
      PROVE  StrandedSet' \subseteq StrandedSet /\ crashes' = crashes
  BY <1>6, FailReleases DEF PreparationFails, Refused
<1> QED
  BY <1>1, <1>2, <1>3, <1>4, <1>5, <1>6 DEF WorkerStep

\* No step but a crash strands a message, and a crash strands at most one.
LEMMA NextStrands ==
  ASSUME IInv, [Next]_vars
  PROVE  \/ StrandedSet' \subseteq StrandedSet /\ crashes' = crashes
         \/ \E m : StrandedSet' \subseteq StrandedSet \cup {m} /\ crashes' = crashes + 1
<1> DEFINE Quiet == StrandedSet' \subseteq StrandedSet /\ crashes' = crashes
<1>1. ASSUME NEW m \in Messages, NEW c \in Conversations, NEW k \in ClientIds,
             NEW t \in Texts, NEW kind \in Kinds, Insert(m, c, k, t, kind),
             UNCHANGED <<pc, held, crashes>>
      PROVE  Quiet
  BY <1>1, SameHandsStranded DEF Insert, IInv, TypeOK
<1>2. ASSUME NEW m \in Messages, NEW c \in Conversations, NEW k \in ClientIds,
             NEW t \in Texts, QueueReply(m, c, k, t)
      PROVE  Quiet
  BY <1>1, <1>2 DEF QueueReply, worker, Kinds
<1>3. ASSUME NEW p \in Workers, NEW m \in Messages, NEW d \in Drafts,
             TemplateValidated(p, m, d)
      PROVE  Quiet
  <2>1. d[1] \in Conversations /\ d[2] \in ClientIds /\ d[3] \in Texts
    BY ChannelsAssumption DEF Drafts
  <2> QED
    BY <1>1, <1>3, <2>1 DEF TemplateValidated, worker, Kinds
<1>4. ASSUME UNCHANGED <<status, pc, held, crashes>> PROVE Quiet
  BY <1>4, SameHandsStranded
<1>5. ASSUME NEW p \in Workers, NEW c \in Conversations, NEW k \in ClientIds,
             NEW t \in Texts, TemplateRequested(p, c, k, t)
      PROVE  Quiet
  BY <1>4, <1>5 DEF TemplateRequested, rows, worker
<1>6. ASSUME NEW p \in Workers, NEW d \in Drafts, TemplateDropped(p, d)
      PROVE  Quiet
  BY <1>4, <1>6 DEF TemplateDropped, rows, worker
<1>7. ASSUME NEW m \in Messages, BackoffElapses(m)
      PROVE  Quiet
  BY <1>4, <1>7 DEF BackoffElapses, rows, worker
<1>8. ASSUME NEW r \in Requests, Accept(r) \/ AnswerAppended(r)
      PROVE  Quiet
  BY <1>4, <1>8 DEF Accept, AnswerAppended, rows, worker
<1>9. ASSUME NEW c \in Conversations, WindowCloses(c) \/ CustomerWrites(c)
      PROVE  Quiet
  BY <1>4, <1>9 DEF WindowCloses, CustomerWrites, rows, worker
<1>10. ASSUME NEW m \in Messages, NEW s \in Receipts, ReceiptArrives(m, s)
       PROVE  Quiet
  BY <1>10, SameHandsStranded DEF ReceiptArrives, worker, Receipts, IInv, TypeOK
<1>11. ASSUME NEW m \in Messages, NEW r \in Requests, AnswerKnown(m, r) \/ AnswerAdopted(m, r)
       PROVE  Quiet
  BY <1>11, SameHandsStranded DEF AnswerKnown, AnswerAdopted, worker, IInv, TypeOK
<1>12. CASE UNCHANGED vars
  BY <1>4, <1>12 DEF vars, rows, worker
<1> QED
  BY <1>2, <1>3, <1>5, <1>6, <1>7, <1>8, <1>9, <1>10, <1>11, <1>12,
     WorkerStrands, CrashStrands DEF Next

\* The number of jobs that are locked for good is at most the number of crashes.
LEMMA StrandedStep ==
  ASSUME IInv, StrandedBounded, [Next]_vars
  PROVE  StrandedBounded'
<1>1. IsFiniteSet(StrandedSet) /\ Cardinality(StrandedSet) <= crashes /\ crashes \in Nat
  BY BoundsAssumption DEF StrandedBounded, StrandedSet, IInv, TypeOK
<1>2. Cardinality(StrandedSet) \in Nat
  BY <1>1, FS_CardinalityType
<1>3. ASSUME NEW S, NEW T \in SUBSET S, IsFiniteSet(S), NEW n \in Nat, Cardinality(S) <= n
      PROVE  IsFiniteSet(T) /\ Cardinality(T) <= n
  <2>1. IsFiniteSet(T) /\ Cardinality(T) <= Cardinality(S)
    BY <1>3, FS_Subset
  <2>2. Cardinality(T) \in Nat /\ Cardinality(S) \in Nat
    BY <1>3, <2>1, FS_CardinalityType
  <2> QED
    BY <1>3, <2>1, <2>2
<1>4. IsFiniteSet(StrandedSet') /\ Cardinality(StrandedSet') <= crashes'
  <2>1. CASE StrandedSet' \subseteq StrandedSet /\ crashes' = crashes
    BY <1>1, <1>3, <2>1
  <2>2. ASSUME NEW m, StrandedSet' \subseteq StrandedSet \cup {m}, crashes' = crashes + 1
        PROVE  IsFiniteSet(StrandedSet') /\ Cardinality(StrandedSet') <= crashes'
    <3>1. /\ IsFiniteSet(StrandedSet \cup {m})
          /\ Cardinality(StrandedSet \cup {m}) \in
               {Cardinality(StrandedSet), Cardinality(StrandedSet) + 1}
      BY <1>1, FS_AddElement
    <3>2. Cardinality(StrandedSet \cup {m}) <= crashes + 1
      BY <1>1, <1>2, <3>1
    <3> QED
      BY <1>1, <1>3, <2>2, <3>1, <3>2
  <2> QED
    BY <2>1, <2>2, NextStrands
<1> QED
  BY <1>4 DEF StrandedBounded, StrandedSet

\* No outcome of an attempt (tick of server/outbox/worker.ts) leaves a lock behind: only a
\* crash orphans a job, and each crash at most one, whatever the number of processes.
THEOREM OneOrphan == Spec => []OneOrphanPerCrash
<1>1. Init => StrandedBounded
  <2> SUFFICES ASSUME Init PROVE StrandedBounded
    OBVIOUS
  <2>1. StrandedSet = {}
    BY DEF Init, StrandedSet, Stranded
  <2> QED
    BY <2>1, FS_EmptySet DEF Init, StrandedBounded
<1>2. IInv /\ StrandedBounded => OneOrphanPerCrash
  BY OrphansStranded DEF OneOrphanPerCrash, StrandedBounded
<1> QED
  BY <1>1, <1>2, Inductive, StrandedStep, PTL DEF Spec

-----------------------------------------------------------------------------
(* The outbox implements OutboundContract.                                 *)

shown == [m \in Messages |-> phaseOf[status[m]]]

\* What phaseOf shows of each status.
LEMMA PhaseFacts ==
  /\ phaseOf["NONE"] = "absent"    /\ phaseOf["QUEUED"] = "pending"
  /\ phaseOf["SENDING"] = "pending" /\ phaseOf["SENT"] = "sent"
  /\ phaseOf["DELIVERED"] = "delivered" /\ phaseOf["READ"] = "read"
  /\ phaseOf["FAILED"] = "failed"
BY DEF phaseOf, MessageStatuses

\* A status written to one message is a phase shown of that message only.
LEMMA ShownUpdate ==
  ASSUME IInv, NEW m \in Messages, NEW s \in MessageStatuses,
         status' = [status EXCEPT ![m] = s]
  PROVE  shown' = [shown EXCEPT ![m] = phaseOf[s]]
BY DEF shown, IInv, TypeOK

\* Each kind of step is a step of the contract, or changes nothing it shows.
LEMMA StepImplements ==
  ASSUME IInv, StepKind
  PROVE  [Contract!Next]_(Contract!vars)
<1>0. \A m \in Messages : status[m] \in MessageStatuses /\ shown[m] = phaseOf[status[m]]
  BY DEF shown, IInv, TypeOK
<1>1. CASE Silent
  <2>1. \A m \in Messages : phaseOf[status'[m]] = phaseOf[status[m]]
    BY <1>1, PhaseFacts DEF Silent, Pending
  <2>2. shown' = shown
    BY <2>1 DEF shown
  <2> QED
    BY <1>1, <2>2 DEF Silent, shown, Contract!vars
<1>2. ASSUME NEW m \in Messages, Submitted(m)
      PROVE  Contract!Next
  <2>1. shown' = [shown EXCEPT ![m] = "pending"]
    <3>1. status' = [status EXCEPT ![m] = "QUEUED"] /\ "QUEUED" \in MessageStatuses
      BY <1>2 DEF Submitted, MessageStatuses
    <3> QED
      BY <3>1, ShownUpdate, PhaseFacts
  <2>2. shown[m] = "absent"
    BY <1>0, <1>2, PhaseFacts DEF Submitted
  <2>3. Contract!Submit(m)
    BY <1>2, <2>1, <2>2 DEF Contract!Submit, Submitted, shown
  <2> QED
    BY <2>3 DEF Contract!Next
<1>3. ASSUME NEW m \in Messages, GivenUp(m)
      PROVE  Contract!Next
  <2>1. shown' = [shown EXCEPT ![m] = "failed"]
    <3>1. status' = [status EXCEPT ![m] = "FAILED"] /\ "FAILED" \in MessageStatuses
      BY <1>3 DEF GivenUp, MessageStatuses
    <3> QED
      BY <3>1, ShownUpdate, PhaseFacts
  <2>2. shown[m] = "pending"
    BY <1>0, <1>3, PhaseFacts DEF GivenUp, Pending
  <2>3. Contract!GiveUp(m)
    BY <1>3, <2>1, <2>2 DEF Contract!GiveUp, GivenUp, shown
  <2> QED
    BY <2>3 DEF Contract!Next
<1>4. ASSUME NEW m \in Messages, NEW r \in Requests, Confirmed(m, r)
      PROVE  Contract!Next
  <2>1. shown' = [shown EXCEPT ![m] = "sent"]
    <3>1. status' = [status EXCEPT ![m] = "SENT"] /\ "SENT" \in MessageStatuses
      BY <1>4 DEF Confirmed, MessageStatuses
    <3> QED
      BY <3>1, ShownUpdate, PhaseFacts
  <2>2. shown[m] = "pending"
    BY <1>0, <1>4, PhaseFacts DEF Confirmed, Pending
  <2>3. Contract!Confirm(m, r)
    BY <1>4, <2>1, <2>2 DEF Contract!Confirm, Confirmed, Carried, shown
  <2> QED
    BY <2>3 DEF Contract!Next
<1>5. ASSUME NEW r \in Requests, Answered(r)
      PROVE  Contract!Next
  <2>1. shown' = shown
    BY <1>5 DEF Answered, shown
  <2>2. Contract!Answer(r)
    BY <1>5, <2>1 DEF Contract!Answer, Answered, shown
  <2> QED
    BY <2>2 DEF Contract!Next
<1>6. ASSUME NEW m \in Messages, NEW s \in Receipts, ReceiptArrives(m, s)
      PROVE  [Contract!Next]_(Contract!vars)
  <2>1. /\ status' = [status EXCEPT ![m] = IF Advances(@, s) THEN s ELSE @]
        /\ UNCHANGED <<ext, accepted>>
    BY <1>6 DEF ReceiptArrives, provider
  <2>2. CASE Advances(status[m], s)
    <3>1. status' = [status EXCEPT ![m] = s] /\ s \in MessageStatuses
      BY <2>1, <2>2 DEF Receipts, MessageStatuses
    <3>2. status[m] \in {"SENT", "DELIVERED", "READ", "FAILED"}
      BY <1>6, AnsweredStatus DEF ReceiptArrives
    <3>3. Contract!Follows(shown[m], phaseOf[s]) /\ phaseOf[s] \in Contract!Phases
      BY <1>0, <2>2, <3>2, RankFacts, PhaseFacts
      DEF Advances, Receipts, Contract!Follows, Contract!Phases
    <3>4. shown' = [shown EXCEPT ![m] = phaseOf[s]]
      BY <3>1, ShownUpdate
    <3>5. Contract!Report(m, phaseOf[s])
      BY <2>1, <3>3, <3>4 DEF Contract!Report, shown
    <3> QED
      BY <3>3, <3>5 DEF Contract!Next
  <2>3. CASE ~Advances(status[m], s)
    <3>1. status' = status
      BY <2>1, <2>3 DEF IInv, TypeOK
    <3>2. shown' = shown
      BY <3>1 DEF shown
    <3> QED
      BY <2>1, <3>2 DEF Contract!vars, shown
  <2> QED
    BY <2>2, <2>3
<1> QED
  BY <1>1, <1>2, <1>3, <1>4, <1>5, <1>6 DEF StepKind

\* What agents and providers see of the outbox is a behaviour of the contract.
THEOREM Implements == Spec => ImplementsContract
<1>1. Init => Contract!Init
  BY PhaseFacts DEF Init, Contract!Init
<1>2. IInv /\ DInv /\ [Next]_vars => [Contract!Next]_(Contract!vars)
  BY NextKind, StepImplements
<1> QED
  BY <1>1, <1>2, DeliveryInductive, PTL DEF Spec, ImplementsContract, Contract!Spec
=============================================================================
