--------------------------- MODULE EmailSync_proofs ---------------------------
(***************************************************************************)
(* For any mails, replies, failures and renumberings: the cursor passes no *)
(* mail nobody stored, what it passed is whole, and threads stay together. *)
(***************************************************************************)
EXTENDS EmailSync, FiniteSetTheorems, WellFoundedInduction, TLAPS

IdAt(u)     == MessageId(box[u], validity, u)
Whole(i, m) == /\ i \in Stored /\ (m \in Attached => i \in filed)
               /\ i \in ToSet(thread[message[i].conv].references)
Handled(u)  == box[u] \in outside \/ Whole(IdAt(u), box[u])

\* The mailbox holds mails that were written and not deleted, once each, below UIDNEXT.
Mailbox ==
  /\ \A u \in Present : u < next /\ Written(box[u]) /\ box[u] \notin gone
  /\ \A u, v \in Present : box[u] = box[v] => u = v

\* A stored id is of a mail of the mailbox or of one that has left it, or is derived from a
\* place the mailbox has had.
Origins ==
  /\ \A m \in Mails \cap Stored : m \notin Anonymous /\ Written(m) /\ (InBox(m) \/ m \in gone)
  /\ \A w \in Validities, u \in Uids :
       <<w, u>> \in Stored => w < validity \/ (w = validity /\ u < next)

\* The latest id of a thread is of the thread, and is the last of the references.
EndsIn(latest, refs, c) ==
  latest # None => /\ latest \in Stored /\ message[latest].conv = c
                   /\ Len(refs) > 0 /\ refs[Len(refs)] = latest

\* What an answer to a reply cites leads to the reply's conversation.
Answers ==
  /\ \A m \in KeepsReferences : LET h == InReplyTo[m] IN
       Written(m) /\ h \in Replies
         => reply[h] # None /\ references[m] = Append(reply[h].references, h)
  /\ \A h \in Replies \cap Stored : reply[h] # None /\ message[h].conv = reply[h].conv
  /\ \A c \in Convs : EndsIn(thread[c].latest, thread[c].references, c)
  /\ \A h \in Replies :
       reply[h] # None => EndsIn(reply[h].inReplyTo, reply[h].references, reply[h].conv)

\* The cursor is not ahead of the mailbox, and what is behind it is handled.
Cursor ==
  cursor # None =>
    /\ cursor.validity <= validity
    /\ cursor.validity = validity =>
         /\ cursor.uid < next
         /\ \A u \in Present : u <= cursor.uid => Handled(u)

\* A poll has handled, or still has to handle, every mail up to where it will move the cursor.
Poll ==
  session # None =>
    /\ failures < DegradedAfter /\ session.last < next
    /\ \A u \in session.todo : u < next
    /\ session.stage # "open" =>
         \A u \in Present : u <= session.last \/ (\E w \in session.todo : u <= w)
                              => Handled(u) \/ u \in session.todo
    /\ session.stage \in {"fetched", "stored", "filed"} =>
         /\ session.uid \in session.todo /\ \A w \in session.todo : session.uid <= w
         /\ session.mail \in Mails /\ Written(session.mail)
         /\ box[session.uid] = session.mail \/ (box[session.uid] = None /\ session.mail \in gone)
    /\ session.stage \in {"stored", "filed"} => Id \in Stored
    /\ session.stage = "filed" /\ session.mail \in Attached => Id \in filed

\* A mail that is stored joined the mail of the mailbox that it answers, unless a first poll
\* left that out.
Joined ==
  \A u, v \in Present :
    u < v /\ box[u] \notin Anonymous /\ InReplyTo[box[v]] = box[u] /\ IdAt(v) \in Stored
      => \/ box[u] \in outside
         \/ box[u] \in Stored /\ message[IdAt(v)].conv = message[box[u]].conv

IInv == /\ TypeOK /\ Mailbox /\ Origins /\ Answers /\ Cursor /\ Poll /\ Joined
        /\ AnswerJoinsReply

-----------------------------------------------------------------------------
(* Numbers in order.                                                       *)

\* A set of numbers has a first one.
LEMMA FirstIn ==
  ASSUME NEW T \in SUBSET Nat, T # {}
  PROVE  First(T) \in T /\ \A w \in T : First(T) <= w
<1> DEFINE R == {ss \in Nat \X Nat : ss[1] < ss[2]}
<1>1. IsWellFoundedOn(R, Nat)
  BY NatLessThanWellFounded DEF OpToRel
<1>2. \A x, y \in Nat : y < x => <<y, x>> \in R
  OBVIOUS
<1> HIDE DEF R
<1>3. PICK x \in T : \A y \in T : ~(<<y, x>> \in R)
  BY <1>1, WFMin
<1>4. ASSUME NEW y \in T PROVE x <= y
  <2>1. ~(y < x) /\ x \in Nat /\ y \in Nat
    BY <1>1, <1>2, <1>3
  <2> QED
    BY <2>1
<1> QED
  BY <1>4 DEF First

\* A set of numbers below a bound has a last one.
LEMMA LastIn ==
  ASSUME NEW n \in Nat, NEW T \in SUBSET (1..n), T # {}
  PROVE  \E i \in T : \A j \in T : j <= i
<1> DEFINE D == {n - i : i \in T}
<1>1. D \in SUBSET Nat /\ D # {}
  <2>1. \A i \in T : n - i \in Nat
    OBVIOUS
  <2> QED
    BY <2>1
<1>2. First(D) \in D /\ \A w \in D : First(D) <= w
  <2> HIDE DEF D
  <2> QED
    BY <1>1, FirstIn
<1>3. PICK i \in T : First(D) = n - i
  BY <1>2
<1>4. ASSUME NEW j \in T PROVE j <= i
  <2>1. n - i <= n - j
    BY <1>2, <1>3
  <2> QED
    BY <2>1
<1> QED
  BY <1>4

LEMMA FiniteBelow == ASSUME NEW n \in Nat, NEW T \in SUBSET (1..n) PROVE IsFiniteSet(T)
<1>1. 1 \in Int /\ n \in Int
  OBVIOUS
<1>2. IsFiniteSet(1..n)
  BY <1>1, FS_Interval
<1> QED
  BY <1>2, FS_Subset

\* Ranks ascend.
LEMMA RankAscends ==
  ASSUME NEW n \in Nat, NEW T \in SUBSET (1..n), NEW i \in T, NEW k \in T, i < k
  PROVE  /\ Cardinality({j \in T : j < i}) \in Nat
         /\ Cardinality({j \in T : j < k}) \in Nat
         /\ Cardinality({j \in T : j < i}) < Cardinality({j \in T : j < k})
         /\ Cardinality({j \in T : j < k}) < Cardinality(T)
<1> DEFINE A == {j \in T : j < i}
           B == {j \in T : j < k}
<1>1. IsFiniteSet(T)
  BY FiniteBelow
<1>2. /\ A \in SUBSET B /\ B \in SUBSET T
      /\ i \in B /\ i \notin A /\ k \in T /\ k \notin B
  <2>1. \A j \in T : j \in Nat
    OBVIOUS
  <2>2. \A j \in T : j < i => j < k
    BY <2>1
  <2>3. ~(i < i) /\ ~(k < k)
    BY <2>1
  <2> QED
    BY <2>2, <2>3
<1> HIDE DEF A, B
<1>3. IsFiniteSet(B) /\ Cardinality(B) <= Cardinality(T) /\ (Cardinality(T) = Cardinality(B) => T = B)
  BY <1>1, <1>2, FS_Subset
<1>4. IsFiniteSet(A) /\ Cardinality(A) <= Cardinality(B) /\ (Cardinality(B) = Cardinality(A) => B = A)
  BY <1>2, <1>3, FS_Subset
<1>5. Cardinality(A) \in Nat /\ Cardinality(B) \in Nat /\ Cardinality(T) \in Nat
  BY <1>1, <1>3, <1>4, FS_CardinalityType
<1> QED
  BY <1>2, <1>3, <1>4, <1>5 DEF A, B

\* Every member has a rank below the number of members.
LEMMA RankType ==
  ASSUME NEW n \in Nat, NEW T \in SUBSET (1..n), NEW i \in T
  PROVE  /\ Cardinality(T) \in Nat /\ Cardinality({j \in T : j < i}) \in 0..Cardinality(T) - 1
<1> DEFINE A == {j \in T : j < i}
<1>1. IsFiniteSet(T)
  BY FiniteBelow
<1>2. A \in SUBSET T /\ i \in T /\ i \notin A
  OBVIOUS
<1> HIDE DEF A
<1>3. IsFiniteSet(A) /\ Cardinality(A) <= Cardinality(T) /\ (Cardinality(T) = Cardinality(A) => T = A)
  BY <1>1, <1>2, FS_Subset
<1>4. Cardinality(A) \in Nat /\ Cardinality(T) \in Nat
  BY <1>1, <1>3, FS_CardinalityType
<1> QED
  BY <1>2, <1>3, <1>4 DEF A

\* Every rank is somebody's.
LEMMA RankReached ==
  ASSUME NEW n \in Nat, NEW T \in SUBSET (1..n), NEW k \in 1..Cardinality(T)
  PROVE  \E i \in T : Cardinality({j \in T : j < i}) = k - 1
<1> DEFINE N == Cardinality(T)
           f == [i \in T |-> Cardinality({j \in T : j < i})]
<1>1. IsFiniteSet(T)
  BY FiniteBelow
<1>2. N \in Nat
  BY <1>1, FS_CardinalityType
<1>3. IsFiniteSet(0..N - 1) /\ Cardinality(0..N - 1) = N
  <2>1. IsFiniteSet(0..N - 1) /\ Cardinality(0..N - 1) = IF 0 > N - 1 THEN 0 ELSE N - 1 - 0 + 1
    <3>1. 0 \in Int /\ N - 1 \in Int
      BY <1>2
    <3> HIDE DEF N
    <3> QED
      BY <3>1, FS_Interval
  <2> QED
    BY <2>1, <1>2
<1>4. f \in [T -> 0..N - 1]
  BY RankType
<1>5. ASSUME NEW x \in T, NEW y \in T, f[x] = f[y] PROVE x = y
  <2>1. x \in Nat /\ y \in Nat
    OBVIOUS
  <2>2. Cardinality({j \in T : j < x}) = Cardinality({j \in T : j < y})
    BY <1>5
  <2>3. ~(x < y)
    <3> SUFFICES ASSUME x < y PROVE FALSE
      OBVIOUS
    <3>1. /\ Cardinality({j \in T : j < x}) \in Nat
          /\ Cardinality({j \in T : j < x}) < Cardinality({j \in T : j < y})
      BY RankAscends
    <3> QED
      BY <3>1, <2>2
  <2>4. ~(y < x)
    <3> SUFFICES ASSUME y < x PROVE FALSE
      OBVIOUS
    <3>1. /\ Cardinality({j \in T : j < y}) \in Nat
          /\ Cardinality({j \in T : j < y}) < Cardinality({j \in T : j < x})
      BY RankAscends
    <3> QED
      BY <3>1, <2>2
  <2> QED
    BY <2>1, <2>3, <2>4
<1>6. f \in Injection(T, 0..N - 1)
  BY <1>4, <1>5 DEF Injection, IsInjective
<1>7. f \in Surjection(T, 0..N - 1)
  <2> HIDE DEF f, N
  <2>1. Cardinality(T) = Cardinality(0..N - 1)
    BY <1>3 DEF N
  <2> QED
    BY <1>3, <1>6, <2>1, FS_Injection
<1>8. k - 1 \in 0..N - 1
  BY <1>2
<1> QED
  BY <1>7, <1>8 DEF Surjection

LEMMA SameRank ==
  ASSUME NEW n \in Nat, NEW T \in SUBSET (1..n), NEW x \in T, NEW y \in T,
         Cardinality({j \in T : j < x}) = Cardinality({j \in T : j < y})
  PROVE  x = y
<1>1. x \in Nat /\ y \in Nat
  OBVIOUS
<1>2. ~(x < y)
  <2> SUFFICES ASSUME x < y PROVE FALSE
    OBVIOUS
  <2>1. /\ Cardinality({j \in T : j < x}) \in Nat
        /\ Cardinality({j \in T : j < x}) < Cardinality({j \in T : j < y})
    BY RankAscends
  <2> QED
    BY <2>1
<1>3. ~(y < x)
  <2> SUFFICES ASSUME y < x PROVE FALSE
    OBVIOUS
  <2>1. /\ Cardinality({j \in T : j < y}) \in Nat
        /\ Cardinality({j \in T : j < y}) < Cardinality({j \in T : j < x})
    BY RankAscends
  <2> QED
    BY <2>1
<1> QED
  BY <1>1, <1>2, <1>3

\* The k-th smallest members of a set are its members, in their order.
LEMMA NthIn ==
  ASSUME NEW n \in Nat, NEW T \in SUBSET (1..n)
  PROVE  /\ Cardinality(T) \in Nat
         /\ \A k \in 1..Cardinality(T) : Nth(T, k) \in T
         /\ \A i \in T : \E k \in 1..Cardinality(T) : Nth(T, k) = i
         /\ \A k, l \in 1..Cardinality(T) : k < l => Nth(T, k) < Nth(T, l)
<1>1. Cardinality(T) \in Nat
  BY FiniteBelow, FS_CardinalityType
<1>2. ASSUME NEW k \in 1..Cardinality(T)
      PROVE  Nth(T, k) \in T /\ Cardinality({j \in T : j < Nth(T, k)}) = k - 1
  BY RankReached DEF Nth
<1>3. ASSUME NEW i \in T PROVE \E k \in 1..Cardinality(T) : Nth(T, k) = i
  <2> DEFINE k == Cardinality({j \in T : j < i}) + 1
  <2>1. Cardinality({j \in T : j < i}) \in 0..Cardinality(T) - 1
    BY RankType
  <2>2. k \in 1..Cardinality(T) /\ k - 1 = Cardinality({j \in T : j < i})
    BY <1>1, <2>1
  <2>3. Nth(T, k) \in T /\ Cardinality({j \in T : j < Nth(T, k)}) = Cardinality({j \in T : j < i})
    BY <1>2, <2>2
  <2>4. Nth(T, k) = i
    <3> HIDE DEF k
    <3> QED
      BY <2>3, SameRank
  <2> QED
    BY <2>2, <2>4
<1>4. ASSUME NEW k \in 1..Cardinality(T), NEW l \in 1..Cardinality(T), k < l
      PROVE  Nth(T, k) < Nth(T, l)
  <2> DEFINE x == Nth(T, k)
             y == Nth(T, l)
  <2>1. /\ x \in T /\ y \in T
        /\ Cardinality({j \in T : j < x}) = k - 1 /\ Cardinality({j \in T : j < y}) = l - 1
    BY <1>2
  <2> HIDE DEF x, y
  <2>2. x # y
    BY <2>1, <1>4
  <2>3. ~(y < x)
    <3> SUFFICES ASSUME y < x PROVE FALSE
      OBVIOUS
    <3>1. Cardinality({j \in T : j < y}) < Cardinality({j \in T : j < x})
      BY <2>1, RankAscends
    <3> QED
      BY <3>1, <2>1, <1>4
  <2>4. x \in Nat /\ y \in Nat
    BY <2>1
  <2> QED
    BY <2>2, <2>3, <2>4 DEF x, y
<1> QED
  BY <1>1, <1>2, <1>3, <1>4

-----------------------------------------------------------------------------
(* Headers.                                                                *)

\* A header keeps the ids, and the last one.
LEMMA IdListKeeps ==
  ASSUME NEW S, NEW s \in Seq(S)
  PROVE  /\ IdList(s) \in Seq(S) /\ ToSet(IdList(s)) = ToSet(s)
         /\ Len(s) > 0 => /\ Len(IdList(s)) > 0
                          /\ IdList(s)[Len(IdList(s))] = s[Len(s)]
<1> DEFINE n == Len(s)
           T == LastSeen(s)
           N == Cardinality(T)
<1>1. n \in Nat /\ DOMAIN s = 1..n /\ \A i \in 1..n : s[i] \in S
  OBVIOUS
<1>2. T \in SUBSET (1..n)
  BY <1>1 DEF LastSeen
<1>3. /\ N \in Nat
      /\ \A k \in 1..N : Nth(T, k) \in T
      /\ \A i \in T : \E k \in 1..N : Nth(T, k) = i
      /\ \A k, l \in 1..N : k < l => Nth(T, k) < Nth(T, l)
  <2> HIDE DEF n, T
  <2> QED
    BY <1>1, <1>2, NthIn
<1>4. /\ DOMAIN IdList(s) = 1..N /\ \A k \in 1..N : IdList(s)[k] = s[Nth(T, k)]
      /\ IdList(s) = [k \in 1..N |-> s[Nth(T, k)]]
  BY DEF IdList
<1>5. \A k \in 1..N : IdList(s)[k] \in S
  BY <1>1, <1>2, <1>3, <1>4
<1>6. IdList(s) \in Seq(S) /\ Len(IdList(s)) = N
  <2> HIDE DEF N, T
  <2>1. [k \in 1..N |-> s[Nth(T, k)]] \in Seq(S)
    BY <1>3, <1>4, <1>5
  <2> QED
    BY <2>1, <1>3, <1>4
<1>7. ToSet(IdList(s)) \subseteq ToSet(s)
  BY <1>1, <1>2, <1>3, <1>4 DEF ToSet
<1>8. ASSUME NEW a \in 1..n PROVE s[a] \in ToSet(IdList(s))
  <2> DEFINE U == {j \in 1..n : s[j] = s[a]}
  <2>1. U \in SUBSET (1..n) /\ U # {}
    OBVIOUS
  <2>2. PICK i \in U : \A j \in U : j <= i
    <3> HIDE DEF U, n
    <3> QED
      BY <1>1, <2>1, LastIn
  <2>3. \A j \in 1..n : j > i => s[j] # s[i]
    <3> SUFFICES ASSUME NEW j \in 1..n, j > i, s[j] = s[i] PROVE FALSE
      OBVIOUS
    <3>1. j \in U
      OBVIOUS
    <3> QED
      BY <3>1, <2>2
  <2>4. i \in T
    BY <1>1, <2>3 DEF LastSeen
  <2>5. PICK k \in 1..N : Nth(T, k) = i
    BY <1>3, <2>4
  <2>6. IdList(s)[k] = s[i] /\ k \in DOMAIN IdList(s)
    BY <1>4, <2>5
  <2>7. s[i] = s[a]
    OBVIOUS
  <2> QED
    BY <2>6, <2>7 DEF ToSet
<1>9. ToSet(s) \subseteq ToSet(IdList(s))
  BY <1>1, <1>8 DEF ToSet
<1>10. ASSUME n > 0 PROVE N > 0 /\ IdList(s)[N] = s[n]
  <2>1. n \in T
    BY <1>1, <1>10 DEF LastSeen
  <2>2. PICK k \in 1..N : Nth(T, k) = n
    BY <1>3, <2>1
  <2>3. N \in 1..N
    BY <1>3, <2>2
  <2>4. ~(k < N)
    <3> SUFFICES ASSUME k < N PROVE FALSE
      OBVIOUS
    <3>1. n < Nth(T, N) /\ Nth(T, N) \in T
      BY <1>3, <2>2, <2>3
    <3> QED
      BY <3>1, <1>1, <1>2
  <2>5. k = N
    BY <1>3, <2>2, <2>4
  <2> QED
    BY <2>2, <2>3, <2>5, <1>3, <1>4
<1> QED
  BY <1>6, <1>7, <1>9, <1>10

LEMMA ConcatKeeps ==
  ASSUME NEW S, NEW s \in Seq(S), NEW t \in Seq(S)
  PROVE  /\ s \o t \in Seq(S) /\ Len(s \o t) = Len(s) + Len(t)
         /\ Len(s) \in Nat /\ Len(t) \in Nat
         /\ ToSet(s) \subseteq ToSet(s \o t)
         /\ Len(t) > 0 => (s \o t)[Len(s \o t)] = t[Len(t)]
<1>1. /\ Len(s) \in Nat /\ Len(t) \in Nat /\ DOMAIN s = 1..Len(s)
      /\ s \o t \in Seq(S) /\ Len(s \o t) = Len(s) + Len(t) /\ DOMAIN (s \o t) = 1..Len(s) + Len(t)
      /\ \A i \in 1..Len(s) + Len(t) : (s \o t)[i] = IF i <= Len(s) THEN s[i] ELSE t[i - Len(s)]
  OBVIOUS
<1>2. ASSUME NEW i \in 1..Len(s) PROVE s[i] = (s \o t)[i] /\ i \in 1..Len(s) + Len(t)
  BY <1>1
<1>3. ToSet(s) \subseteq ToSet(s \o t)
  BY <1>1, <1>2 DEF ToSet
<1>4. ASSUME Len(t) > 0 PROVE (s \o t)[Len(s) + Len(t)] = t[Len(t)]
  <2>1. /\ Len(s) + Len(t) \in 1..Len(s) + Len(t) /\ ~(Len(s) + Len(t) <= Len(s))
        /\ Len(s) + Len(t) - Len(s) = Len(t)
    BY <1>1, <1>4
  <2> QED
    BY <1>1, <2>1
<1> QED
  BY <1>1, <1>3, <1>4

LEMMA ReverseIs ==
  ASSUME NEW S, NEW s \in Seq(S)
  PROVE  /\ Len(s) \in Nat /\ Reverse(s) \in Seq(S) /\ Len(Reverse(s)) = Len(s)
         /\ \A i \in 1..Len(s) : Reverse(s)[i] = s[Len(s) - i + 1]
<1>1. Len(s) \in Nat /\ \A i \in 1..Len(s) : s[i] \in S
  OBVIOUS
<1>2. \A i \in 1..Len(s) : Len(s) - i + 1 \in 1..Len(s)
  BY <1>1
<1>3. Reverse(s) = [i \in 1..Len(s) |-> s[Len(s) - i + 1]]
  BY DEF Reverse
<1>4. \A i \in 1..Len(s) : s[Len(s) - i + 1] \in S
  BY <1>1, <1>2
<1>5. Reverse(s) \in Seq(S) /\ Len(Reverse(s)) = Len(s)
  <2> DEFINE r == [i \in 1..Len(s) |-> s[Len(s) - i + 1]]
  <2>1. r \in [1..Len(s) -> S]
    BY <1>4
  <2> QED
    BY <2>1, <1>1, <1>3
<1> QED
  BY <1>1, <1>3, <1>5

-----------------------------------------------------------------------------
(* Types.                                                                  *)

LEMMA IdTypes ==
  /\ None \notin Ids /\ None \notin Mails /\ None \notin Replies
  /\ \A m \in Mails, w \in Validities, u \in Uids :
       /\ <<w, u>> \in Ids /\ <<w, u>> \notin Mails /\ <<w, u>> \notin Replies
       /\ MessageId(m, w, u) \in Ids /\ MessageId(m, w, u) \notin Replies
       /\ MessageId(m, w, u) = IF m \in Anonymous THEN <<w, u>> ELSE m
  BY MailsAssumption DEF Ids, MessageId

LEMMA BoxType ==
  ASSUME TypeOK
  PROVE  /\ Present \subseteq Uids /\ Uids \subseteq Nat /\ validity \in Validities /\ validity \in Nat
         /\ \A u \in Present : /\ box[u] \in Mails /\ IdAt(u) \in Ids /\ IdAt(u) \notin Replies
                               /\ IdAt(u) = IF box[u] \in Anonymous THEN <<validity, u>> ELSE box[u]
<1>1. Present \subseteq Uids /\ Uids \subseteq Nat /\ validity \in Validities /\ validity \in Nat
  BY BoundsAssumption DEF Present, Uids, Validities, TypeOK
<1>2. ASSUME NEW u \in Present PROVE box[u] \in Mails
  BY <1>1 DEF Present, TypeOK
<1> QED
  BY <1>1, <1>2, IdTypes DEF IdAt

LEMMA PollType ==
  ASSUME TypeOK, session # None
  PROVE  /\ session \in Polls /\ session.todo \in SUBSET Uids /\ session.last \in 0..MaxUid
         /\ session.uid \in 0..MaxUid /\ session.mail \in Mails \cup {None}
         /\ next \in Nat /\ MaxUid \in Nat
  BY BoundsAssumption DEF TypeOK, Polls

LEMMA RowType ==
  ASSUME TypeOK
  PROVE  /\ \A i \in Stored : message[i].conv \in Convs
         /\ \A c \in Convs : /\ thread[c] \in Threads /\ thread[c].references \in Seq(Ids)
                             /\ thread[c].latest \in Ids \cup {None} /\ c \in Stored
         /\ \A h \in Replies : reply[h] # None =>
              /\ reply[h].conv \in Convs /\ reply[h].references \in Seq(Ids)
              /\ reply[h].inReplyTo \in Ids \cup {None}
         /\ \A m \in Mails : Written(m) => references[m] \in Seq(Ids)
<1>1. \A i \in Stored : message[i] \in Rows
  BY DEF TypeOK
<1>2. \A c \in Convs : thread[c] \in Threads
  BY DEF TypeOK
<1>3. \A h \in Replies : reply[h] # None => reply[h] \in Sent
  BY DEF TypeOK
<1>4. \A m \in Mails : Written(m) => references[m] \in Seq(Ids)
  BY DEF TypeOK, Written
<1> QED
  BY <1>1, <1>2, <1>3, <1>4 DEF Rows, Threads, Sent, TypeOK

\* The mail that is being fetched, at its place in the mailbox.
LEMMA FetchedType ==
  ASSUME IInv, session # None, session.stage \in {"fetched", "stored", "filed"}
  PROVE  /\ session.mail \in Mails /\ session.uid \in session.todo /\ session.uid \in Uids
         /\ Written(session.mail) /\ references[session.mail] \in Seq(Ids)
         /\ Id \in Ids /\ Id \notin Replies
         /\ Id = IF session.mail \in Anonymous THEN <<validity, session.uid>> ELSE session.mail
         /\ \A u \in Present : IdAt(u) = Id <=> u = session.uid
         /\ session.uid \in Present => box[session.uid] = session.mail
<1> USE DEF IInv
<1>1. /\ session.mail \in Mails /\ session.uid \in session.todo /\ Written(session.mail)
      /\ box[session.uid] = session.mail \/ (box[session.uid] = None /\ session.mail \in gone)
  BY DEF Poll
<1>2. session.uid \in Uids
  BY <1>1, PollType
<1>3. /\ Id \in Ids /\ Id \notin Replies
      /\ Id = IF session.mail \in Anonymous THEN <<validity, session.uid>> ELSE session.mail
  BY <1>1, <1>2, BoxType, IdTypes DEF Id
<1>4. session.uid \in Present => box[session.uid] = session.mail
  BY <1>1 DEF Present
<1>5. ASSUME NEW u \in Present, IdAt(u) = Id PROVE u = session.uid
  <2>1. /\ IdAt(u) = IF box[u] \in Anonymous THEN <<validity, u>> ELSE box[u]
        /\ box[u] \in Mails /\ u \in Uids
    BY BoxType
  <2>2. CASE session.mail \in Anonymous
    <3>1. IdAt(u) = <<validity, session.uid>>
      BY <2>2, <1>3, <1>5
    <3>2. box[u] \in Anonymous
      BY <2>1, <3>1, <1>2, BoxType, IdTypes
    <3> QED
      BY <2>1, <3>1, <3>2
  <2>3. CASE session.mail \notin Anonymous
    <3>1. IdAt(u) = session.mail
      BY <2>3, <1>3, <1>5
    <3>2. box[u] = session.mail
      BY <2>1, <3>1, <1>1, BoxType, IdTypes
    <3>3. session.mail \notin gone
      BY <3>2 DEF Mailbox
    <3>4. session.uid \in Present
      BY <1>1, <1>2, <3>3, IdTypes DEF Present
    <3> QED
      BY <3>2, <3>4, <1>4 DEF Mailbox
  <2> QED
    BY <2>2, <2>3
<1>6. ASSUME session.uid \in Present PROVE IdAt(session.uid) = Id
  BY <1>4, <1>6 DEF IdAt, Id
<1> QED
  BY <1>1, <1>2, <1>3, <1>4, <1>5, <1>6, RowType

-----------------------------------------------------------------------------
(* Steps that leave the mailbox or the inbox alone.                        *)

\* Rows, files and references are added, none is taken away.
InboxGrows ==
  /\ Stored \subseteq Stored' /\ filed \subseteq filed' /\ outside \subseteq outside'
  /\ \A i \in Stored : message'[i].conv = message[i].conv
  /\ \A c \in Convs : ToSet(thread[c].references) \subseteq ToSet(thread'[c].references)

\* A mail that is handled stays so where it is.
LEMMA HandledStays ==
  ASSUME TypeOK, InboxGrows, validity' = validity, NEW u \in Present, box'[u] = box[u], Handled(u)
  PROVE  Handled(u)'
<1>1. CASE box[u] \in outside
  BY <1>1 DEF Handled, InboxGrows
<1>2. CASE Whole(IdAt(u), box[u])
  <2>1. IdAt(u)' = IdAt(u)
    BY DEF IdAt, MessageId
  <2> DEFINE i == IdAt(u)
             c == message[i].conv
  <2>2. /\ i \in Stored /\ (box[u] \in Attached => i \in filed)
        /\ i \in ToSet(thread[c].references) /\ c \in Convs
    BY <1>2, RowType DEF Whole
  <2>3. /\ i \in Stored' /\ (box[u] \in Attached => i \in filed')
        /\ i \in ToSet(thread'[c].references) /\ message'[i].conv = c
    BY <2>2 DEF InboxGrows
  <2>4. /\ IdAt(u)' \in Stored' /\ (box'[u] \in Attached => IdAt(u)' \in filed')
        /\ IdAt(u)' \in ToSet(thread'[message'[IdAt(u)'].conv].references)
    BY <2>1, <2>3
  <2> HIDE DEF i, c
  <2> QED
    BY <2>4 DEF Handled, Whole, ToSet
<1> QED
  BY <1>1, <1>2 DEF Handled

\* The mailbox and the inbox stay as they are; a first poll may leave mails out.
LEMMA Frame ==
  ASSUME IInv, UNCHANGED <<box, next, validity, gone, references, hub>>, outside \subseteq outside'
  PROVE  /\ Mailbox' /\ Origins' /\ Answers' /\ Joined' /\ AnswerJoinsReply'
         /\ InboxGrows /\ Present' = Present
         /\ \A u \in Present : Handled(u) => Handled(u)'
<1> USE DEF IInv
<1>1. /\ Present' = Present /\ Stored' = Stored /\ Convs' = Convs
      /\ \A m : (Written(m)' <=> Written(m)) /\ (InBox(m)' <=> InBox(m))
      /\ \A u : IdAt(u)' = IdAt(u)
      /\ \A l, r, c : EndsIn(l, r, c)' <=> EndsIn(l, r, c)
  BY DEF Present, Stored, Convs, Written, InBox, IdAt, MessageId, EndsIn, hub
<1>2. InboxGrows
  BY <1>1 DEF InboxGrows, hub
<1>3. \A u \in Present : Handled(u) => Handled(u)'
  BY <1>2, HandledStays
<1>4. Mailbox' /\ Origins'
  BY <1>1 DEF Mailbox, Origins, hub
<1>5. Answers'
  BY <1>1 DEF Answers, EndsIn, Written, hub
<1>6. Joined'
  BY <1>1 DEF Joined, hub
<1>7. AnswerJoinsReply'
  BY <1>1 DEF AnswerJoinsReply, hub
<1> QED
  BY <1>1, <1>2, <1>3, <1>4, <1>5, <1>6, <1>7

\* The cursors, while the mails behind them stay handled.
LEMMA CursorStays ==
  ASSUME IInv, UNCHANGED <<validity, cursor>>, next <= next', next' \in Nat,
         \A u \in Present' : u < next => u \in Present /\ (Handled(u) => Handled(u)')
  PROVE  Cursor'
<1>1. CASE cursor = None
  BY <1>1 DEF Cursor
<1>2. CASE cursor # None
  <2>1. cursor.validity <= validity
    BY <1>2 DEF IInv, Cursor
  <2>2. ASSUME cursor.validity = validity
        PROVE  cursor.uid < next' /\ \A u \in Present' : u <= cursor.uid => Handled(u)'
    <3>1. cursor.uid < next /\ cursor.uid \in Nat /\ next \in Nat
      BY <1>2, <2>2, BoundsAssumption DEF IInv, Cursor, TypeOK
    <3>2. Present' \subseteq Nat
      BY BoundsAssumption DEF Present, Uids
    <3>3. \A u \in Present' : u <= cursor.uid => u < next
      BY <3>1, <3>2
    <3> QED
      BY <1>2, <2>2, <3>1, <3>3 DEF IInv, Cursor
  <2> QED
    BY <2>1, <2>2 DEF Cursor
<1> QED
  BY <1>1, <1>2

\* A poll ends, well or not.
LEMMA PollEnds ==
  ASSUME IInv, session' = None, UNCHANGED <<mailbox, hub, cursor, outside>>,
         failures' \in 0..DegradedAfter, crashes' \in 0..MaxCrashes
  PROVE  IInv'
<1>1. UNCHANGED <<box, next, validity, gone, aged, references, message, filed, thread, reply>>
  BY DEF mailbox, hub
<1>2. TypeOK'
  BY <1>1 DEF IInv, TypeOK, Stored, Convs, Rows, Threads, Sent
<1>3. /\ Mailbox' /\ Origins' /\ Answers' /\ Joined' /\ AnswerJoinsReply' /\ Present' = Present
      /\ \A u \in Present : Handled(u) => Handled(u)'
  BY <1>1, Frame
<1>4. Cursor'
  <2>1. next \in Nat
    BY DEF IInv, TypeOK
  <2> QED
    BY <1>1, <1>3, <2>1, CursorStays
<1>5. Poll'
  BY DEF Poll
<1> QED
  BY <1>2, <1>3, <1>4, <1>5 DEF IInv

LEMMA FailsInv ==
  ASSUME IInv, FetchNothing \/ Reject \/ Fail \/ Crash
  PROVE  IInv'
<1>1. /\ session # None /\ session' = None /\ UNCHANGED <<mailbox, hub, cursor, outside>>
      /\ \/ failures' = failures + 1 /\ crashes' = crashes
         \/ failures' = failures /\ crashes < MaxCrashes /\ crashes' = crashes + 1
  BY DEF FetchNothing, Reject, Fail, Crash, Fails, At
<1>2. failures < DegradedAfter
  BY <1>1 DEF IInv, Poll
<1>3. failures' \in 0..DegradedAfter /\ crashes' \in 0..MaxCrashes
  BY <1>1, <1>2, BoundsAssumption DEF IInv, TypeOK
<1> QED
  BY <1>1, <1>3, PollEnds

\* The cursor moves to where everything is handled.
LEMMA FinishInv == ASSUME IInv, Finish PROVE IInv'
<1>1. /\ session # None /\ session.stage = "listed" /\ session.todo = {}
      /\ cursor' = [validity |-> validity, uid |-> session.last]
      /\ session' = None /\ failures' = 0
      /\ UNCHANGED <<box, next, validity, gone, aged, references, hub, outside, crashes>>
      /\ UNCHANGED <<message, filed, thread, reply>>
  BY DEF Finish, At, Reached, mailbox, hub
<1>2. /\ session.last \in 0..MaxUid
      /\ session.last < next
      /\ \A u \in Present : u <= session.last => Handled(u)
  BY <1>1, PollType DEF IInv, Poll
<1>3. TypeOK'
  <2>1. cursor' \in [validity : Validities, uid : 0..MaxUid]
    BY <1>1, <1>2 DEF IInv, TypeOK
  <2>2. failures' \in 0..DegradedAfter
    BY <1>1, BoundsAssumption
  <2> QED
    BY <2>1, <2>2, <1>1 DEF IInv, TypeOK, Stored, Convs, Rows, Threads, Sent
<1>4. /\ Mailbox' /\ Origins' /\ Answers' /\ Joined' /\ AnswerJoinsReply' /\ Present' = Present
      /\ \A u \in Present : Handled(u) => Handled(u)'
  BY <1>1, Frame
<1>5. Cursor'
  <2>1. validity \in Nat
    BY BoxType DEF IInv
  <2>2. cursor'.validity = validity /\ cursor'.uid = session.last
    BY <1>1
  <2> QED
    BY <1>1, <1>2, <1>4, <2>1, <2>2 DEF Cursor
<1>6. Poll'
  BY <1>1 DEF Poll
<1> QED
  BY <1>3, <1>4, <1>5, <1>6 DEF IInv

\* What the steps of a poll that only move it on have in common.
LEMMA PollMoves ==
  ASSUME IInv, UNCHANGED <<mailbox, hub, cursor, failures, crashes>>,
         outside \subseteq outside', outside' \subseteq Mails, session' \in Polls, Poll'
  PROVE  IInv'
<1>1. UNCHANGED <<box, next, validity, gone, aged, references, message, filed, thread, reply>>
  BY DEF mailbox, hub
<1>2. TypeOK'
  BY <1>1 DEF IInv, TypeOK, Stored, Convs, Rows, Threads, Sent
<1>3. /\ Mailbox' /\ Origins' /\ Answers' /\ Joined' /\ AnswerJoinsReply' /\ Present' = Present
      /\ \A u \in Present : Handled(u) => Handled(u)'
  BY <1>1, Frame
<1>4. Cursor'
  <2>1. next \in Nat
    BY DEF IInv, TypeOK
  <2> QED
    BY <1>1, <1>3, <2>1, CursorStays
<1> QED
  BY <1>2, <1>3, <1>4 DEF IInv

LEMMA OpenInv == ASSUME IInv, Open PROVE IInv'
<1> DEFINE s == [stage |-> "open", todo |-> {}, last |-> next - 1, uid |-> 0, mail |-> None]
<1>1. /\ session' = s /\ failures < DegradedAfter
      /\ UNCHANGED <<mailbox, hub, cursor, outside, failures, crashes>>
      /\ next' = next
  BY BoundsAssumption DEF Open, Degraded, IInv, TypeOK, mailbox
<1>2. next \in 1..MaxUid + 1 /\ MaxUid \in Nat
  BY BoundsAssumption DEF IInv, TypeOK
<1>3. /\ s \in Polls /\ s.stage = "open" /\ s.todo = {} /\ s.last < next
  BY <1>2 DEF Polls
<1> HIDE DEF s
<1>4. Poll'
  BY <1>1, <1>3 DEF Poll
<1> QED
  BY <1>1, <1>3, <1>4, PollMoves DEF IInv, TypeOK

\* What is listed, and what is already behind the cursor, is every mail up to the baseline
\* and below a listed one.
LEMMA ListInv == ASSUME IInv, List PROVE IInv'
<1> DEFINE s == [session EXCEPT !.stage = "listed", !.todo = Listed, !.last = Baseline]
<1>1. /\ session # None /\ session' = s
      /\ outside' = IF Incremental THEN outside ELSE outside \cup {box[u] : u \in Present \ Listed}
      /\ UNCHANGED <<mailbox, hub, cursor, failures, crashes>>
      /\ UNCHANGED <<box, next, validity, gone, references, hub>>
  BY DEF List, At, mailbox
<1>2. Listed \subseteq Present /\ Present \subseteq Uids /\ Uids \subseteq Nat
  BY BoxType DEF Listed, Latest, IInv
<1>3. outside \subseteq outside' /\ outside' \subseteq Mails
  BY <1>1, BoxType DEF IInv, TypeOK
<1>4. /\ Present' = Present /\ InboxGrows
      /\ \A u \in Present : Handled(u) => Handled(u)'
  BY <1>1, <1>3, Frame
<1>5. /\ Baseline \in 0..MaxUid /\ Baseline < next
      /\ Incremental => Baseline = cursor.uid /\ \A u \in Present : u <= cursor.uid => Handled(u)
  <2>1. CASE Incremental
    BY <2>1 DEF Incremental, Baseline, IInv, Cursor, TypeOK
  <2>2. CASE ~Incremental
    BY <2>2, <1>1, PollType DEF Baseline, IInv, Poll
  <2> QED
    BY <2>1, <2>2
<1>6. s \in Polls /\ s.stage = "listed" /\ s.todo = Listed /\ s.last = Baseline
  BY <1>1, <1>2, <1>5, PollType DEF IInv, Polls
<1>7. ASSUME NEW u \in Present, u <= Baseline \/ \E w \in Listed : u <= w
      PROVE  Handled(u)' \/ u \in Listed
  <2>1. CASE Incremental
    <3>1. CASE u <= cursor.uid
      BY <2>1, <3>1, <1>4, <1>5
    <3>2. CASE ~(u <= cursor.uid)
      <4>1. cursor.uid \in Nat /\ u \in Nat
        BY <2>1, <1>2 DEF Incremental, IInv, TypeOK
      <4> QED
        BY <2>1, <3>2, <4>1 DEF Listed
    <3> QED
      BY <3>1, <3>2
  <2>2. CASE ~Incremental
    BY <2>2, <1>1 DEF Handled
  <2> QED
    BY <2>1, <2>2
<1> HIDE DEF s
<1>8. \A u \in Listed : u < next
  BY <1>2 DEF IInv, Mailbox
<1>9. failures < DegradedAfter
  BY <1>1 DEF IInv, Poll
<1>10. Poll'
  <2>1. session' # None => session'.stage = "listed" /\ session'.todo = Listed /\ session'.last = Baseline
    BY <1>1, <1>6
  <2>2. \A u \in Present' : u <= session'.last \/ (\E w \in session'.todo : u <= w)
                              => Handled(u)' \/ u \in session'.todo
    BY <1>1, <1>4, <1>6, <1>7
  <2> QED
    BY <1>1, <2>1, <2>2, <1>5, <1>8, <1>9 DEF Poll
<1> QED
  BY <1>1, <1>3, <1>6, <1>10, PollMoves

LEMMA FetchInv == ASSUME IInv, Fetch PROVE IInv'
<1> DEFINE u == First(session.todo)
           s == [session EXCEPT !.stage = "fetched", !.uid = u, !.mail = box[u]]
<1>1. /\ session # None /\ session.stage = "listed" /\ session.todo # {}
      /\ u \in Present /\ session' = s
      /\ UNCHANGED <<mailbox, hub, cursor, outside, failures, crashes>>
      /\ UNCHANGED <<box, next, validity, gone, references, hub>>
  BY DEF Fetch, At, mailbox
<1>2. u \in session.todo /\ \A w \in session.todo : u <= w
  <2>1. session.todo \in SUBSET Nat
    BY <1>1, PollType, BoxType DEF IInv
  <2> QED
    BY <1>1, <2>1, FirstIn
<1> HIDE DEF u
<1>3. box[u] \in Mails /\ Written(box[u]) /\ u \in Uids
  BY <1>1, BoxType DEF IInv, Mailbox
<1>4. /\ s \in Polls /\ s.stage = "fetched" /\ s.todo = session.todo /\ s.last = session.last
      /\ s.uid = u /\ s.mail = box[u]
  <2>1. session \in Polls
    BY <1>1, PollType DEF IInv
  <2>2. Uids \subseteq 0..MaxUid
    BY BoundsAssumption DEF Uids
  <2> QED
    BY <2>1, <2>2, <1>3 DEF Polls
<1>5. /\ Present' = Present
      /\ \A w \in Present : Handled(w) => Handled(w)'
  BY <1>1, Frame
<1> HIDE DEF s
<1>6. Poll'
  <2>1. /\ failures < DegradedAfter /\ session.last < next /\ \A w \in session.todo : w < next
        /\ \A w \in Present : w <= session.last \/ (\E x \in session.todo : w <= x)
                                => Handled(w) \/ w \in session.todo
    BY <1>1 DEF IInv, Poll
  <2>2. \A w \in Present' : w <= session'.last \/ (\E x \in session'.todo : w <= x)
                              => Handled(w)' \/ w \in session'.todo
    BY <1>1, <1>4, <1>5, <2>1
  <2>3. references' = references /\ box' = box
    BY <1>1
  <2>4. references'[session'.mail] # None
    BY <1>1, <1>3, <1>4, <2>3 DEF Written
  <2> QED
    BY <1>1, <1>2, <1>3, <1>4, <2>1, <2>2, <2>4 DEF Poll, Written
<1> QED
  BY <1>1, <1>4, <1>6, PollMoves DEF IInv, TypeOK

-----------------------------------------------------------------------------
(* The row of a mail.                                                      *)

\* The thread of a mail: what it answers, if that is stored; where a reply was sent that it
\* answers, if the client sends References; else some conversation, or a new one.
LEMMA ThreadOfIn ==
  ASSUME IInv, session # None, session.stage = "fetched"
  PROVE  LET m == session.mail h == InReplyTo[m] IN
         /\ ThreadOf(m) \in Convs \cup {Id}
         /\ h \in Stored => ThreadOf(m) = message[h].conv
         /\ m \in KeepsReferences /\ h \in Replies
              => reply[h] # None /\ (reply[h].inReplyTo # None => ThreadOf(m) = reply[h].conv)
<1> USE DEF IInv
<1> DEFINE m    == session.mail
           h    == InReplyTo[m]
           refs == references[m]
           cit  == Cites(m)
           hits == {i \in DOMAIN cit : cit[i] \in Stored}
<1>1. m \in Mails /\ Written(m) /\ refs \in Seq(Ids)
  BY FetchedType
<1>2. h \in Ids \cup {None} /\ (h \in Stored => h \in Ids)
  BY <1>1, MailsAssumption DEF Ids, TypeOK
<1>3. /\ Len(refs) \in Nat /\ DOMAIN cit = 1..Len(refs) + 1 /\ cit[1] = h
      /\ \A i \in 1..Len(refs) : cit[i + 1] = refs[Len(refs) - i + 1]
  <2> DEFINE r == Reverse(refs)
  <2>1. /\ Len(refs) \in Nat /\ r \in Seq(Ids) /\ Len(r) = Len(refs)
        /\ \A i \in 1..Len(refs) : r[i] = refs[Len(refs) - i + 1]
    BY <1>1, ReverseIs
  <2>2. cit = <<h>> \o r
    BY DEF Cites
  <2> HIDE DEF r, cit, refs, h
  <2>3. /\ DOMAIN cit = 1..Len(r) + 1 /\ cit[1] = h
        /\ \A i \in 1..Len(r) : cit[i + 1] = r[i]
    <3>1. Len(<<h>>) = 1 /\ <<h>> \in Seq({h}) /\ <<h>>[1] = h /\ Len(r) \in Nat
      BY <2>1
    <3>2. DOMAIN cit = 1..1 + Len(r)
      BY <2>1, <2>2, <3>1
    <3>3. \A i \in 1..1 + Len(r) : cit[i] = IF i <= 1 THEN <<h>>[i] ELSE r[i - 1]
      BY <2>1, <2>2, <3>1
    <3> QED
      BY <3>1, <3>2, <3>3
  <2> QED
    BY <2>1, <2>3
<1>4. ThreadOf(m) = IF hits = {} THEN Id ELSE message[cit[First(hits)]].conv
  BY DEF ThreadOf
<1>5. hits \in SUBSET Nat
  BY <1>3
<1> HIDE DEF cit
<1>6. hits # {} => First(hits) \in hits /\ \A w \in hits : First(hits) <= w
  <2> HIDE DEF hits
  <2> QED
    BY <1>5, FirstIn
<1>7. ThreadOf(m) \in Convs \cup {Id}
  BY <1>4, <1>6, RowType
<1>8. ASSUME h \in Stored PROVE ThreadOf(m) = message[h].conv
  <2>1. 1 \in hits
    BY <1>3, <1>8
  <2>2. hits \subseteq 1..Len(refs) + 1
    BY <1>3
  <2>3. First(hits) = 1
    <3> HIDE DEF hits, refs
    <3>1. First(hits) \in hits /\ First(hits) <= 1
      BY <2>1, <1>6
    <3>2. First(hits) \in 1..Len(refs) + 1 /\ Len(refs) \in Nat
      BY <2>2, <3>1, <1>3
    <3> QED
      BY <3>1, <3>2
  <2> QED
    BY <2>1, <2>3, <1>3, <1>4
<1>9. ASSUME m \in KeepsReferences, h \in Replies
      PROVE  reply[h] # None /\ (reply[h].inReplyTo # None => ThreadOf(m) = reply[h].conv)
  <2> DEFINE R == reply[h].references
             l == reply[h].inReplyTo
  <2>1. reply[h] # None /\ refs = Append(R, h)
    BY <1>1, <1>9 DEF Answers
  <2>2. ASSUME l # None, h \in Stored PROVE ThreadOf(m) = reply[h].conv
    BY <2>2, <1>8, <1>9 DEF Answers
  <2>3. ASSUME l # None, h \notin Stored PROVE ThreadOf(m) = reply[h].conv
    <3>1. /\ l \in Stored /\ message[l].conv = reply[h].conv
          /\ Len(R) > 0 /\ R[Len(R)] = l /\ R \in Seq(Ids)
      BY <1>9, <2>1, <2>3, RowType DEF Answers, EndsIn
    <3> HIDE DEF R, l, refs, h
    <3>2. /\ Len(R) \in Nat /\ Len(refs) = Len(R) + 1 /\ refs[Len(R) + 1] = h
          /\ refs[Len(R)] = R[Len(R)]
      BY <2>1, <3>1
    <3>3. /\ 1 \in 1..Len(refs) /\ 2 \in 1..Len(refs)
          /\ Len(refs) - 1 + 1 = Len(R) + 1 /\ Len(refs) - 2 + 1 = Len(R)
      BY <3>1, <3>2
    <3>4. cit[1 + 1] = refs[Len(R) + 1] /\ cit[2 + 1] = refs[Len(R)]
      BY <1>3, <3>3
    <3>5. cit[1] = h /\ cit[2] = h /\ cit[3] = l /\ 3 \in DOMAIN cit
      BY <1>3, <3>1, <3>2, <3>3, <3>4
    <3>6. 3 \in hits /\ 1 \notin hits /\ 2 \notin hits
      BY <2>3, <3>1, <3>5
    <3>7. First(hits) \in hits /\ First(hits) \in Nat /\ First(hits) <= 3 /\ First(hits) # 0
      BY <1>3, <1>6, <3>6
    <3>8. First(hits) = 3
      BY <3>6, <3>7
    <3> QED
      BY <3>1, <3>5, <3>6, <3>8, <1>4
  <2> QED
    BY <2>1, <2>2, <2>3
<1> QED
  BY <1>7, <1>8, <1>9

\* A step of a poll on one mail, which adds to the inbox.
LEMMA HandlingMoves ==
  ASSUME IInv, session # None, InboxGrows, UNCHANGED <<mailbox, cursor, failures>>,
         session' \in Polls, session'.stage # "open",
         session'.last < next, session'.todo \subseteq session.todo,
         \A u \in Present : u <= session'.last \/ (\E w \in session'.todo : u <= w)
                              => Handled(u)' \/ u \in session'.todo,
         session'.stage = session.stage \/ session.stage # "open",
         session'.stage \in {"fetched", "stored", "filed"} =>
           /\ session.stage \in {"fetched", "stored", "filed"}
           /\ session'.todo = session.todo /\ session'.uid = session.uid
           /\ session'.mail = session.mail,
         session'.stage \in {"stored", "filed"} => Id \in Stored',
         session'.stage = "filed" /\ session.mail \in Attached => Id \in filed'
  PROVE  Mailbox' /\ Cursor' /\ Poll'
<1>1. UNCHANGED <<box, next, validity, gone, references>>
  BY DEF mailbox
<1>2. Present' = Present
  BY <1>1 DEF Present
<1>3. \A u \in Present : Handled(u) => Handled(u)'
  BY <1>1, HandledStays DEF IInv
<1>4. Mailbox'
  BY <1>1, <1>2 DEF IInv, Mailbox, Written
<1>5. Cursor'
  <2>1. next \in Nat
    BY DEF IInv, TypeOK
  <2> QED
    BY <1>1, <1>2, <1>3, <2>1, CursorStays
<1>6. Poll'
  <2>1. failures' < DegradedAfter /\ session'.last < next' /\ \A u \in session'.todo : u < next'
    BY <1>1 DEF IInv, Poll
  <2>2. ASSUME session'.stage \in {"fetched", "stored", "filed"}
        PROVE  /\ session'.uid \in session'.todo /\ \A w \in session'.todo : session'.uid <= w
               /\ session'.mail \in Mails /\ Written(session.mail)
               /\ box[session'.uid] = session'.mail \/ (box[session'.uid] = None /\ session'.mail \in gone)
               /\ Id' = Id
    <3>1. Id' = Id
      BY <2>2, <1>1 DEF Id, MessageId
    <3> QED
      BY <2>2, <3>1 DEF IInv, Poll
  <2>3. \A u \in Present' : u <= session'.last \/ (\E w \in session'.todo : u <= w)
                              => Handled(u)' \/ u \in session'.todo
    BY <1>2
  <2>4. session'.stage \in {"fetched", "stored", "filed"} => references'[session'.mail] # None
    BY <2>2, <1>1 DEF Written
  <2> QED
    BY <1>1, <2>1, <2>2, <2>3, <2>4 DEF Poll, Written
<1> QED
  BY <1>4, <1>5, <1>6

\* The new row joins the thread it found, or opens one.
LEMMA RowAdded ==
  ASSUME IInv, IngestRow, Id \notin Stored
  PROVE  \E i \in Ids, c \in Ids, m \in Mails :
           /\ i = Id /\ m = session.mail /\ c = ThreadOf(m) /\ i \notin Stored
           /\ c \in Convs \/ (c = i /\ c \notin Convs)
           /\ Stored' = Stored \cup {i} /\ message'[i] = [conv |-> c, mail |-> m]
           /\ message' \in [Stored \cup {i} -> [conv : Convs', mail : Mails \cup Replies]]
           /\ \A j \in Stored : message'[j] = message[j]
           /\ Convs' = Convs \cup {c} /\ thread' \in [Convs' -> Threads]
           /\ \A d \in Convs : thread'[d] = thread[d]
           /\ c \notin Convs => thread'[c].latest = None
<1> USE DEF IInv
<1> DEFINE i == Id
           m == session.mail
           c == ThreadOf(m)
           t == [Unknown EXCEPT !.references = references[m]]
<1>1. /\ session # None /\ session.stage = "fetched"
      /\ message' = WithMessage(i, c, m)
      /\ thread' = IF c \in Convs THEN thread ELSE WithThread(c, references[m])
  BY DEF IngestRow, At
<1>2. m \in Mails /\ i \in Ids /\ references[m] \in Seq(Ids)
  BY <1>1, FetchedType
<1>3. c \in Convs \cup {i} /\ Convs \subseteq Stored /\ Stored \subseteq Ids
  BY <1>1, ThreadOfIn DEF TypeOK
<1>4. t \in Threads /\ t.latest = None
  BY <1>2 DEF Threads, Unknown
<1> HIDE DEF i, m, c, t
<1>5. c \in Convs \/ (c = i /\ c \notin Convs)
  BY <1>3
<1>6. /\ message' = [j \in Stored \cup {i} |-> IF j = i THEN [conv |-> c, mail |-> m] ELSE message[j]]
      /\ i \notin Stored
  BY <1>1 DEF WithMessage, i
<1>7. /\ Stored' = Stored \cup {i} /\ message'[i] = [conv |-> c, mail |-> m]
      /\ \A j \in Stored : message'[j] = message[j]
  BY <1>6 DEF Stored
<1>8. /\ Convs' = Convs \cup {c} /\ thread' \in [Convs' -> Threads]
      /\ \A d \in Convs : thread'[d] = thread[d]
      /\ c \notin Convs => thread'[c].latest = None
  <2>1. CASE c \in Convs
    <3>1. thread' = thread /\ Convs' = Convs
      BY <1>1, <2>1 DEF Convs
    <3> QED
      BY <2>1, <3>1 DEF TypeOK
  <2>2. CASE c \notin Convs
    <3>1. thread' = [d \in Convs \cup {c} |-> IF d = c THEN t ELSE thread[d]]
      BY <1>1, <2>2 DEF WithThread, t
    <3>2. \A d \in Convs : thread[d] \in Threads
      BY RowType
    <3>3. Convs' = Convs \cup {c}
      BY <3>1 DEF Convs
    <3> QED
      BY <2>2, <3>1, <3>2, <3>3, <1>4
  <2> QED
    BY <2>1, <2>2
<1>9. message' \in [Stored \cup {i} -> [conv : Convs', mail : Mails \cup Replies]]
  <2>1. \A j \in Stored : message[j] \in [conv : Convs, mail : Mails \cup Replies]
    BY DEF TypeOK, Rows
  <2>2. \A j \in Stored : message[j] \in [conv : Convs', mail : Mails \cup Replies]
    BY <2>1, <1>8
  <2>3. [conv |-> c, mail |-> m] \in [conv : Convs', mail : Mails \cup Replies]
    BY <1>2, <1>8
  <2> QED
    BY <2>2, <2>3, <1>6
<1>10. c \in Ids
  BY <1>2, <1>3
<1> QED
  BY <1>2, <1>5, <1>6, <1>7, <1>8, <1>9, <1>10 DEF i, m, c

LEMMA IngestRowInv == ASSUME IInv, IngestRow PROVE IInv'
<1> USE DEF IInv
<1> DEFINE s == [session EXCEPT !.stage = "stored"]
<1>1. /\ session # None /\ session.stage = "fetched" /\ session' = s
      /\ UNCHANGED <<mailbox, filed, reply, cursor, outside, failures, crashes>>
      /\ UNCHANGED <<box, next, validity, gone, aged, references>>
  BY DEF IngestRow, At, mailbox
<1>2. /\ session \in Polls /\ s \in Polls /\ s.stage = "stored" /\ s.todo = session.todo
      /\ s.last = session.last /\ s.uid = session.uid /\ s.mail = session.mail
  BY <1>1, PollType DEF Polls
<1> HIDE DEF s
<1>3. /\ session.last < next
      /\ \A u \in Present : u <= session.last \/ (\E w \in session.todo : u <= w)
                              => Handled(u) \/ u \in session.todo
  BY <1>1 DEF Poll
<1>4. CASE Id \in Stored
  <2>1. UNCHANGED <<message, thread>>
    BY <1>4 DEF IngestRow
  <2>2. UNCHANGED hub /\ Stored' = Stored
    BY <1>1, <2>1 DEF hub, Stored
  <2>3. InboxGrows /\ \A u \in Present : Handled(u) => Handled(u)'
    BY <1>1, <2>2, Frame
  <2>4. Poll'
    BY <1>1, <1>2, <1>3, <1>4, <2>2, <2>3, HandlingMoves
  <2> QED
    BY <1>1, <1>2, <2>2, <2>4, PollMoves DEF TypeOK
<1>5. CASE Id \notin Stored
  <2>1. PICK i \in Ids, c \in Ids, m \in Mails :
           /\ i = Id /\ m = session.mail /\ c = ThreadOf(m) /\ i \notin Stored
           /\ c \in Convs \/ (c = i /\ c \notin Convs)
           /\ Stored' = Stored \cup {i} /\ message'[i] = [conv |-> c, mail |-> m]
           /\ message' \in [Stored \cup {i} -> [conv : Convs', mail : Mails \cup Replies]]
           /\ \A j \in Stored : message'[j] = message[j]
           /\ Convs' = Convs \cup {c} /\ thread' \in [Convs' -> Threads]
           /\ \A d \in Convs : thread'[d] = thread[d]
           /\ c \notin Convs => thread'[c].latest = None
    BY <1>5, RowAdded
  <2>2. message'[i].conv = c
    BY <2>1
  <2>3. InboxGrows
    BY <1>1, <2>1 DEF InboxGrows
  <2>4. TypeOK'
    <3>1. Stored' \subseteq Ids /\ Convs' \subseteq Stored'
      BY <2>1 DEF TypeOK
    <3>2. message' \in [Stored' -> Rows']
      BY <2>1 DEF Rows
    <3>3. reply' \in [Replies -> Sent' \cup {None}]
      <4>1. \A h \in Replies : reply[h] \in Sent' \cup {None}
        BY <2>1 DEF TypeOK, Sent
      <4> QED
        BY <1>1, <4>1 DEF TypeOK
    <3> QED
      BY <1>1, <1>2, <2>1, <3>1, <3>2, <3>3 DEF TypeOK, Threads
  <2>5. Mailbox' /\ Cursor' /\ Poll'
    <3>1. \A u \in Present : Handled(u) => Handled(u)'
      BY <1>1, <2>3, HandledStays
    <3> QED
      BY <1>1, <1>2, <1>3, <2>1, <2>3, <3>1, HandlingMoves
  <2>6. /\ Written(m) /\ (InBox(m) \/ m \in gone) /\ session.uid \in Uids /\ session.uid < next
        /\ i = IF m \in Anonymous THEN <<validity, session.uid>> ELSE m
        /\ i \notin Replies /\ \A u \in Present : IdAt(u) = i <=> u = session.uid
        /\ (session.uid \in Present => box[session.uid] = m)
        /\ session.uid \in session.todo /\ \A w \in session.todo : session.uid <= w
    <3>1. InBox(m) \/ m \in gone
      BY <1>1, <2>1, PollType, FetchedType, IdTypes DEF Poll, InBox, Present
    <3> QED
      BY <1>1, <2>1, <3>1, FetchedType DEF Poll
  <2>7. Origins'
    <3>1. /\ \A x \in Mails : (Written(x)' <=> Written(x)) /\ (InBox(x)' <=> InBox(x))
      BY <1>1 DEF Written, InBox, Present
    <3>2. \A x \in Mails \cap Stored' : x \notin Anonymous /\ Written(x) /\ (InBox(x) \/ x \in gone)
      BY <2>1, <2>6, BoxType, IdTypes DEF Origins
    <3>3. ASSUME NEW w \in Validities, NEW u \in Uids, <<w, u>> = i
          PROVE  w = validity /\ u = session.uid
      BY <2>6, <3>3, IdTypes
    <3>4. \A w \in Validities, u \in Uids :
            <<w, u>> \in Stored' => w < validity \/ (w = validity /\ u < next)
      BY <2>1, <2>6, <3>3 DEF Origins
    <3> QED
      BY <1>1, <3>1, <3>2, <3>4 DEF Origins
  <2>8. Answers'
    <3>2. \A x \in Mails : Written(x)' <=> Written(x)
      BY <1>1 DEF Written
    <3>3. \A x \in KeepsReferences : x \in Mails
      BY MailsAssumption
    <3>4. ASSUME NEW d \in Convs' PROVE EndsIn(thread[d].latest, thread[d].references, d)'
      <4>1. CASE d \in Convs
        BY <4>1, <2>1 DEF Answers, EndsIn
      <4>2. CASE d \notin Convs
        BY <4>2, <2>1 DEF EndsIn
      <4> QED
        BY <4>1, <4>2
    <3>5. \A h \in Replies \cap Stored' : reply[h] # None /\ message'[h].conv = reply[h].conv
      BY <2>1, <2>6 DEF Answers
    <3>6. ASSUME NEW h \in Replies, reply[h] # None
          PROVE  EndsIn(reply[h].inReplyTo, reply[h].references, reply[h].conv)'
      BY <1>1, <2>1, <3>6 DEF Answers, EndsIn
    <3>7. \A x \in KeepsReferences :
            Written(x)' /\ InReplyTo[x] \in Replies
              => reply[InReplyTo[x]] # None
                 /\ references[x] = Append(reply[InReplyTo[x]].references, InReplyTo[x])
      BY <3>2, <3>3 DEF Answers
    <3> QED
      BY <1>1, <3>4, <3>5, <3>6, <3>7 DEF Answers
  <2>9. Joined'
    <3>1. Present' = Present /\ \A u \in Present : IdAt(u)' = IdAt(u)
      BY <1>1 DEF Present, IdAt, MessageId
    <3> SUFFICES ASSUME NEW u \in Present, NEW v \in Present, u < v, box[u] \notin Anonymous,
                        InReplyTo[box[v]] = box[u], IdAt(v) \in Stored', box[u] \notin outside
                 PROVE  box[u] \in Stored' /\ message'[IdAt(v)].conv = message'[box[u]].conv
      BY <1>1, <3>1 DEF Joined
    <3>2. CASE IdAt(v) \in Stored
      BY <3>2, <2>1 DEF Joined
    <3>3. CASE IdAt(v) = i
      <4>1. v = session.uid /\ box[v] = m
        BY <3>3, <2>6
      <4>2. Handled(u)
        <5>1. u \in Nat /\ v \in Nat
          BY BoxType
        <5>2. u \notin session.todo
          BY <4>1, <5>1, <2>6
        <5>3. u <= v
          BY <5>1
        <5> QED
          BY <1>3, <2>6, <4>1, <5>2, <5>3
      <4>3. box[u] \in Stored
        BY <4>2, BoxType DEF Handled, Whole
      <4>4. c = message[box[u]].conv
        BY <1>1, <2>1, <4>1, <4>3, ThreadOfIn
      <4> QED
        BY <2>1, <2>2, <3>3, <4>3, <4>4
    <3> QED
      BY <2>1, <3>2, <3>3
  <2>10. AnswerJoinsReply'
    <3> SUFFICES ASSUME NEW x \in KeepsReferences \cap Stored', InReplyTo[x] \in Replies,
                        reply[InReplyTo[x]].inReplyTo # None
                 PROVE  message'[x].conv = reply[InReplyTo[x]].conv
      BY <1>1 DEF AnswerJoinsReply
    <3>1. CASE x \in Stored
      BY <3>1, <2>1 DEF AnswerJoinsReply
    <3>2. CASE x = i
      <4>1. x = m
        BY <3>2, <2>6, MailsAssumption, BoxType, IdTypes
      <4> QED
        BY <3>2, <4>1, <1>1, <2>1, <2>2, ThreadOfIn
    <3> QED
      BY <2>1, <3>1, <3>2
  <2> QED
    BY <2>4, <2>5, <2>7, <2>8, <2>9, <2>10
<1> QED
  BY <1>4, <1>5

-----------------------------------------------------------------------------
(* The files and the thread of a mail.                                     *)

\* Files are added, and threads are described anew.
LEMMA RowsStay ==
  ASSUME IInv, UNCHANGED <<mailbox, message, reply, outside>>, Convs' = Convs,
         \A c \in Convs : EndsIn(thread[c].latest, thread[c].references, c)'
  PROVE  Origins' /\ Answers' /\ Joined' /\ AnswerJoinsReply'
<1> USE DEF IInv
<1>1. UNCHANGED <<box, next, validity, gone, references>> /\ Stored' = Stored
  BY DEF mailbox, Stored
<1>2. /\ Present' = Present
      /\ \A m : (Written(m)' <=> Written(m)) /\ (InBox(m)' <=> InBox(m))
      /\ \A u : IdAt(u)' = IdAt(u)
  BY <1>1 DEF Present, Written, InBox, IdAt, MessageId
<1>3. Origins' /\ Joined' /\ AnswerJoinsReply'
  BY <1>1, <1>2 DEF Origins, Joined, AnswerJoinsReply
<1>4. ASSUME NEW h \in Replies, reply'[h] # None
      PROVE  EndsIn(reply[h].inReplyTo, reply[h].references, reply[h].conv)'
  BY <1>1, <1>4 DEF Answers, EndsIn
<1>5. Answers'
  BY <1>1, <1>2, <1>4 DEF Answers
<1> QED
  BY <1>3, <1>5

LEMMA PersistInv == ASSUME IInv, Persist PROVE IInv'
<1> USE DEF IInv
<1> DEFINE s == [session EXCEPT !.stage = "filed"]
<1>1. /\ session # None /\ session.stage = "stored" /\ session' = s
      /\ filed' = IF session.mail \in Attached THEN filed \cup {Id} ELSE filed
      /\ UNCHANGED <<mailbox, message, thread, reply, cursor, outside, failures, crashes>>
      /\ UNCHANGED <<box, next, validity, gone, aged, references>>
  BY DEF Persist, At, mailbox
<1>2. /\ session \in Polls /\ s \in Polls /\ s.stage = "filed" /\ s.todo = session.todo
      /\ s.last = session.last /\ s.uid = session.uid /\ s.mail = session.mail
  BY <1>1, PollType DEF Polls
<1> HIDE DEF s
<1>3. /\ session.last < next /\ Id \in Stored
      /\ \A u \in Present : u <= session.last \/ (\E w \in session.todo : u <= w)
                              => Handled(u) \/ u \in session.todo
  BY <1>1 DEF Poll
<1>4. Stored' = Stored /\ Convs' = Convs
  BY <1>1 DEF Stored, Convs
<1>5. InboxGrows
  BY <1>1, <1>4 DEF InboxGrows
<1>6. TypeOK'
  <2>1. filed' \subseteq Ids
    BY <1>1, FetchedType DEF TypeOK
  <2> QED
    BY <1>1, <1>2, <1>4, <2>1 DEF TypeOK, Rows, Threads, Sent
<1>7. \A c \in Convs : EndsIn(thread[c].latest, thread[c].references, c)'
  BY <1>1, <1>4 DEF EndsIn, Answers
<1>8. Origins' /\ Answers' /\ Joined' /\ AnswerJoinsReply'
  BY <1>1, <1>4, <1>7, RowsStay
<1>9. Mailbox' /\ Cursor' /\ Poll'
  <2>1. \A u \in Present : Handled(u) => Handled(u)'
    BY <1>1, <1>5, HandledStays
  <2> QED
    BY <1>1, <1>2, <1>3, <1>4, <1>5, <2>1, HandlingMoves
<1> QED
  BY <1>6, <1>8, <1>9

\* The thread gets the mail's references, and its id at their end.
LEMMA ThreadDescribed ==
  ASSUME IInv, Describe
  PROVE  /\ message[Id].conv \in Convs
         /\ \E t \in Threads :
              /\ thread' = [thread EXCEPT ![message[Id].conv] = t]
              /\ t.latest = Id /\ Len(t.references) > 0 /\ t.references[Len(t.references)] = Id
              /\ Id \in ToSet(t.references)
              /\ ToSet(thread[message[Id].conv].references) \subseteq ToSet(t.references)
<1> USE DEF IInv
<1> DEFINE m    == session.mail
           i    == Id
           c    == message[i].conv
           t    == thread[c]
           cite == IF references[m] # <<>> THEN references[m][1] ELSE InReplyTo[m]
           root == IF t.root # None THEN t.root ELSE IF cite # None THEN cite ELSE i
           refs == IdList(t.references \o references[m] \o <<root, i>>)
           row  == [root |-> root, latest |-> i, references |-> refs]
<1>1. session # None /\ session.stage = "filed" /\ thread' = [thread EXCEPT ![c] = row]
  BY DEF Describe, At
<1>2. i \in Stored /\ c \in Convs /\ t \in Threads /\ t.references \in Seq(Ids)
  BY <1>1, RowType DEF Poll
<1>3. m \in Mails /\ references[m] \in Seq(Ids) /\ i \in Ids
  BY <1>1, FetchedType
<1>4. root \in Ids
  <2>1. t.root \in Ids \cup {None}
    BY <1>2 DEF Threads
  <2>2. cite \in Ids \cup {None}
    <3>1. InReplyTo[m] \in Ids \cup {None}
      BY <1>3, MailsAssumption DEF Ids
    <3>2. references[m] # <<>> => references[m][1] \in Ids
      <4> DEFINE r == references[m]
      <4>1. r \in Seq(Ids)
        BY <1>3
      <4> HIDE DEF r
      <4>2. r # <<>> => r[1] \in Ids
        BY <4>1
      <4> QED
        BY <4>2 DEF r
    <3> QED
      BY <3>1, <3>2
  <2> QED
    BY <1>3, <2>1, <2>2
<1> HIDE DEF root
<1>5. /\ refs \in Seq(Ids) /\ Len(refs) > 0 /\ refs[Len(refs)] = i
      /\ ToSet(t.references) \subseteq ToSet(refs)
  <2> DEFINE x == t.references
             y == references[m]
             z == <<root, i>>
             xy == x \o y
             s == xy \o z
  <2>1. x \in Seq(Ids) /\ y \in Seq(Ids) /\ z \in Seq(Ids) /\ Len(z) = 2 /\ z[2] = i
    BY <1>2, <1>3, <1>4
  <2> HIDE DEF x, y, z
  <2>2. xy \in Seq(Ids) /\ ToSet(x) \subseteq ToSet(xy)
    BY <2>1, ConcatKeeps
  <2> HIDE DEF xy
  <2>3. /\ s \in Seq(Ids) /\ Len(s) = Len(xy) + Len(z) /\ Len(xy) \in Nat
        /\ ToSet(xy) \subseteq ToSet(s) /\ (Len(z) > 0 => s[Len(s)] = z[Len(z)])
    BY <2>1, <2>2, ConcatKeeps
  <2> HIDE DEF s
  <2>4. Len(s) > 0 /\ s[Len(s)] = i
    BY <2>1, <2>3
  <2>5. /\ IdList(s) \in Seq(Ids) /\ ToSet(IdList(s)) = ToSet(s)
        /\ Len(IdList(s)) > 0 /\ IdList(s)[Len(IdList(s))] = s[Len(s)]
    BY <2>3, <2>4, IdListKeeps
  <2>6. refs = IdList(s)
    BY DEF s, xy, x, y, z
  <2> HIDE DEF refs
  <2> QED
    BY <2>2, <2>3, <2>4, <2>5, <2>6 DEF x
<1> HIDE DEF refs
<1>6. i \in ToSet(refs)
  <2>1. Len(refs) \in Nat /\ DOMAIN refs = 1..Len(refs)
    BY <1>5
  <2>2. Len(refs) \in DOMAIN refs
    BY <1>5, <2>1
  <2> QED
    BY <1>5, <2>2 DEF ToSet
<1>7. row \in Threads /\ row.latest = i /\ row.references = refs
  BY <1>3, <1>4, <1>5 DEF Threads
<1> HIDE DEF row
<1> QED
  BY <1>1, <1>2, <1>5, <1>6, <1>7

LEMMA DescribeInv == ASSUME IInv, Describe PROVE IInv'
<1> USE DEF IInv
<1> DEFINE s == [session EXCEPT !.stage = "listed", !.todo = @ \ {session.uid},
                                !.last = MaxOf(@, session.uid), !.uid = 0, !.mail = None]
           c == message[Id].conv
<1>1. /\ session # None /\ session.stage = "filed" /\ session' = s
      /\ UNCHANGED <<mailbox, message, filed, reply, cursor, outside, failures, crashes>>
      /\ UNCHANGED <<box, next, validity, gone, aged, references>>
  BY DEF Describe, At, mailbox
<1>2. PICK t \in Threads :
              /\ thread' = [thread EXCEPT ![c] = t]
              /\ t.latest = Id /\ Len(t.references) > 0 /\ t.references[Len(t.references)] = Id
              /\ Id \in ToSet(t.references)
              /\ ToSet(thread[c].references) \subseteq ToSet(t.references)
  BY ThreadDescribed
<1>3. c \in Convs /\ Id \in Stored /\ (session.mail \in Attached => Id \in filed)
  BY <1>1, ThreadDescribed DEF Poll
<1>4. /\ session.uid \in session.todo /\ session.uid \in Uids /\ session.todo \in SUBSET Uids
      /\ session.uid < next /\ session.last < next /\ session.last \in 0..MaxUid
      /\ \A u \in Present : u <= session.last \/ (\E w \in session.todo : u <= w)
                              => Handled(u) \/ u \in session.todo
  BY <1>1, PollType, FetchedType DEF Poll
<1>5. /\ s \in Polls /\ s.stage = "listed" /\ s.todo = session.todo \ {session.uid}
      /\ s.last = MaxOf(session.last, session.uid)
  <2>1. session \in Polls
    BY <1>1, PollType
  <2>2. MaxOf(session.last, session.uid) \in 0..MaxUid
    BY <1>4, BoundsAssumption DEF MaxOf, Uids
  <2> DEFINE left == session.todo \ {session.uid}
             last == MaxOf(session.last, session.uid)
  <2>3. s = [stage |-> "listed", todo |-> left, last |-> last, uid |-> 0, mail |-> None]
    <3>1. s = [session EXCEPT !.stage = "listed", !.todo = left, !.last = last,
                              !.uid = 0, !.mail = None]
      BY <2>1 DEF Polls
    <3> HIDE DEF left, last, s
    <3> QED
      BY <2>1, <3>1 DEF Polls
  <2>4. 0 \in 0..MaxUid /\ session.todo \ {session.uid} \in SUBSET Uids
    BY <1>4, BoundsAssumption
  <2> HIDE DEF s
  <2> QED
    BY <2>2, <2>3, <2>4 DEF Polls
<1> HIDE DEF s, c
<1>6. /\ Stored' = Stored /\ Convs' = Convs /\ thread'[c] = t
      /\ \A d \in Convs : d # c => thread'[d] = thread[d]
      /\ thread' \in [Convs -> Threads]
  <2>1. thread \in [Convs -> Threads]
    BY DEF TypeOK
  <2> QED
    BY <1>1, <1>2, <1>3, <2>1 DEF Stored, Convs
<1>7. InboxGrows
  BY <1>1, <1>2, <1>6 DEF InboxGrows
<1>8. TypeOK'
  BY <1>1, <1>5, <1>6 DEF TypeOK, Rows, Threads, Sent
<1>9. ASSUME NEW d \in Convs PROVE EndsIn(thread[d].latest, thread[d].references, d)'
  <2>1. CASE d = c
    BY <2>1, <1>1, <1>2, <1>3, <1>6 DEF EndsIn, c
  <2>2. CASE d # c
    BY <2>2, <1>1, <1>6 DEF EndsIn, Answers
  <2> QED
    BY <2>1, <2>2
<1>10. Origins' /\ Answers' /\ Joined' /\ AnswerJoinsReply'
  BY <1>1, <1>6, <1>9, RowsStay
<1>11. \A u \in Present : Handled(u) => Handled(u)'
  BY <1>1, <1>7, HandledStays
<1>12. ASSUME NEW u \in Present, u = session.uid PROVE Handled(u)'
  <2>1. IdAt(u)' = IdAt(u) /\ box'[u] = box[u]
    BY <1>1 DEF IdAt, MessageId
  <2>2. IdAt(u) = Id /\ box[u] = session.mail
    BY <1>1, <1>12, FetchedType
  <2>3. message'[IdAt(u)].conv = c
    BY <1>1, <2>2 DEF c
  <2> QED
    BY <2>1, <2>2, <2>3, <1>1, <1>2, <1>3, <1>6 DEF Handled, Whole
<1>13. Mailbox' /\ Cursor' /\ Poll'
  <2>1. s.last < next /\ \A u \in Present : u <= s.last => u <= session.last \/ u <= session.uid
    BY <1>4, <1>5 DEF MaxOf
  <2>2. ASSUME NEW u \in Present, u <= s.last \/ \E w \in s.todo : u <= w
        PROVE  Handled(u)' \/ u \in s.todo
    <3>1. Handled(u) \/ u \in session.todo
      BY <2>1, <2>2, <1>4, <1>5
    <3>2. CASE u = session.uid
      BY <3>2, <1>12
    <3>3. CASE u # session.uid
      BY <3>1, <3>3, <1>5, <1>11
    <3> QED
      BY <3>2, <3>3
  <2> QED
    BY <1>1, <1>4, <1>5, <1>7, <2>1, <2>2, HandlingMoves
<1> QED
  BY <1>8, <1>10, <1>13

-----------------------------------------------------------------------------
(* Steps beside a poll.                                                    *)

\* A mail arrives, or is deleted, or the inbox grows while a poll is under way.
LEMMA PollStays ==
  ASSUME IInv, InboxGrows, UNCHANGED <<session, validity, failures>>,
         next <= next', next' \in Nat, gone \subseteq gone',
         \A m \in Mails : Written(m) => Written(m)',
         \A u \in Present' : u < next => u \in Present /\ box'[u] = box[u],
         \A u \in Uids : u < next =>
           box'[u] = box[u] \/ (u \in Present /\ box'[u] = None /\ box[u] \in gone')
  PROVE  Poll'
<1> USE DEF IInv
<1> SUFFICES ASSUME session # None PROVE Poll'
  BY DEF Poll
<1>1. next \in Nat /\ Present' \subseteq Nat
  BY BoundsAssumption DEF TypeOK, Present, Uids
<1>2. /\ session.last < next' /\ (\A u \in session.todo : u < next') /\ failures' < DegradedAfter
      /\ session.last \in Nat /\ session.todo \subseteq Uids /\ Uids \subseteq Nat
  BY <1>1, PollType, BoxType DEF Poll
<1>3. ASSUME session.stage # "open", NEW u \in Present',
             u <= session.last \/ \E w \in session.todo : u <= w
      PROVE  Handled(u)' \/ u \in session.todo
  <2>1. u < next
    <3>1. session.last < next /\ \A w \in session.todo : w < next
      BY DEF Poll
    <3>2. u \in Nat /\ \A w \in session.todo : w \in Nat
      BY <1>1, <1>2
    <3> QED
      BY <3>1, <3>2, <1>1, <1>2, <1>3
  <2>2. u \in Present /\ box'[u] = box[u]
    BY <2>1
  <2>3. Handled(u) \/ u \in session.todo
    BY <1>3, <2>2 DEF Poll
  <2> QED
    BY <2>2, <2>3, HandledStays
<1>4. ASSUME session.stage \in {"fetched", "stored", "filed"}
      PROVE  /\ session.uid \in session.todo /\ \A w \in session.todo : session.uid <= w
             /\ session.mail \in Mails /\ references'[session.mail] # None
             /\ \/ box'[session.uid] = session.mail
                \/ box'[session.uid] = None /\ session.mail \in gone'
             /\ Id' = Id
  <2>1. /\ session.uid \in session.todo /\ \A w \in session.todo : session.uid <= w
        /\ session.mail \in Mails /\ Written(session.mail)
        /\ box[session.uid] = session.mail \/ (box[session.uid] = None /\ session.mail \in gone)
        /\ session.uid \in Uids /\ session.uid < next
    BY <1>2, <1>4 DEF Poll
  <2>2. \A m \in Mails : references[m] # None => references'[m] # None
    BY DEF Written
  <2>3. Id' = Id
    BY DEF Id, MessageId
  <2>4. \/ box'[session.uid] = session.mail
        \/ box'[session.uid] = None /\ session.mail \in gone'
    BY <2>1
  <2> QED
    BY <2>1, <2>2, <2>3, <2>4 DEF Written
<1>5. /\ session.stage \in {"stored", "filed"} => Id \in Stored'
      /\ session.stage = "filed" /\ session.mail \in Attached => Id \in filed'
  BY DEF Poll, InboxGrows
<1> QED
  BY <1>2, <1>3, <1>4, <1>5 DEF Poll, Written

\* A customer writes, a mail ages.
LEMMA WriteInv == ASSUME IInv, NEW m \in Mails, Write(m) PROVE IInv'
<1> USE DEF IInv
<1> DEFINE p    == InReplyTo[m]
           refs == IF m \notin KeepsReferences \/ p = None THEN <<>>
                   ELSE Append(IF p \in Mails THEN references[p] ELSE reply[p].references, p)
<1>1. /\ ~Written(m) /\ (p \in Mails => Written(p)) /\ (p \in Replies => reply[p] # None)
      /\ references' = [references EXCEPT ![m] = refs]
      /\ UNCHANGED <<box, next, validity, gone, aged, hub, cursor, session, outside, failures, crashes>>
      /\ UNCHANGED <<message, filed, thread, reply>>
  BY DEF Write, hub
<1>2. p \in Mails \cup Replies \cup {None}
  BY MailsAssumption
<1>3. refs \in Seq(Ids)
  <2>1. CASE m \notin KeepsReferences \/ p = None
    BY <2>1
  <2>2. CASE m \in KeepsReferences /\ p \in Mails
    <3>1. references[p] \in Seq(Ids) /\ p \in Ids /\ p # None
      BY <1>1, <2>2, RowType, IdTypes DEF Ids
    <3>2. refs = Append(references[p], p)
      BY <2>2, <3>1
    <3> HIDE DEF refs, p
    <3> QED
      BY <3>1, <3>2
  <2>3. CASE m \in KeepsReferences /\ p \in Replies
    <3>1. reply[p].references \in Seq(Ids) /\ p \in Ids /\ p # None /\ p \notin Mails
      BY <1>1, <2>3, RowType, IdTypes, MailsAssumption DEF Ids
    <3>2. refs = Append(reply[p].references, p)
      BY <2>3, <3>1
    <3> HIDE DEF refs, p
    <3> QED
      BY <3>1, <3>2
  <2> QED
    BY <1>2, <2>1, <2>2, <2>3
<1>4. ASSUME m \in KeepsReferences, p \in Replies PROVE refs = Append(reply[p].references, p)
  BY <1>4, MailsAssumption
<1> HIDE DEF refs
<1>5. /\ references' \in [Mails -> Seq(Ids) \cup {None}] /\ references'[m] = refs
      /\ \A x \in Mails : x # m => references'[x] = references[x]
  BY <1>1, <1>3 DEF TypeOK
<1>6. \A x \in Mails : Written(x) => Written(x)' /\ x # m
  BY <1>1, <1>5 DEF Written
<1>7. TypeOK'
  BY <1>1, <1>5 DEF TypeOK, Stored, Convs, Rows, Threads, Sent
<1>8. /\ Present' = Present /\ Stored' = Stored /\ Convs' = Convs
      /\ \A x : InBox(x)' <=> InBox(x)
      /\ \A u : IdAt(u)' = IdAt(u)
  BY <1>1 DEF Present, InBox, IdAt, MessageId, Stored, Convs
<1>9. InboxGrows
  BY <1>1, <1>8 DEF InboxGrows
<1>10. Mailbox' /\ Origins' /\ Joined' /\ AnswerJoinsReply'
  BY <1>1, <1>6, <1>8, BoxType DEF Mailbox, Origins, Joined, AnswerJoinsReply
<1>11. Answers'
  <2>1. ASSUME NEW x \in KeepsReferences, Written(x)', InReplyTo[x] \in Replies
        PROVE  /\ reply[InReplyTo[x]] # None
               /\ references'[x] = Append(reply[InReplyTo[x]].references, InReplyTo[x])
    <3>1. CASE x = m
      BY <3>1, <2>1, <1>1, <1>4, <1>5
    <3>2. CASE x # m
      <4>1. x \in Mails
        BY MailsAssumption
      <4> QED
        BY <3>2, <4>1, <2>1, <1>5 DEF Answers, Written
    <3> QED
      BY <3>1, <3>2
  <2>2. \A l, r, c : EndsIn(l, r, c) => EndsIn(l, r, c)'
    BY <1>1, <1>8 DEF EndsIn
  <2> QED
    BY <2>1, <1>1, <1>8 DEF Answers, EndsIn
<1>12. Cursor' /\ Poll'
  <2>1. next \in Nat /\ \A u \in Present : Handled(u) => Handled(u)'
    BY <1>1, <1>9, HandledStays DEF TypeOK
  <2>2. Cursor'
    BY <1>1, <1>8, <2>1, CursorStays
  <2>3. Poll'
    BY <1>1, <1>6, <1>8, <1>9, <2>1, PollStays
  <2> QED
    BY <2>2, <2>3
<1> QED
  BY <1>7, <1>10, <1>11, <1>12

LEMMA AgeInv == ASSUME IInv, NEW m \in Mails, Age(m) PROVE IInv'
<1> USE DEF IInv
<1>1. /\ aged' = aged \cup {m}
      /\ UNCHANGED <<box, next, validity, gone, references, hub, cursor, session, outside, failures, crashes>>
      /\ UNCHANGED <<message, filed, thread, reply>>
  BY DEF Age, hub
<1>2. TypeOK'
  BY <1>1 DEF TypeOK, Stored, Convs, Rows, Threads, Sent
<1>3. /\ Mailbox' /\ Origins' /\ Answers' /\ Joined' /\ AnswerJoinsReply'
      /\ InboxGrows /\ Present' = Present /\ \A u \in Present : Handled(u) => Handled(u)'
  BY <1>1, Frame
<1>4. next \in Nat /\ \A x \in Mails : Written(x) => Written(x)'
  BY <1>1 DEF TypeOK, Written
<1>5. Cursor'
  BY <1>1, <1>3, <1>4, CursorStays
<1>6. Poll'
  BY <1>1, <1>3, <1>4, PollStays
<1> QED
  BY <1>2, <1>3, <1>5, <1>6

LEMMA ArriveInv == ASSUME IInv, NEW m \in Mails, Arrive(m) PROVE IInv'
<1> USE DEF IInv
<1>1. /\ Written(m) /\ next <= MaxUid /\ ~InBox(m) /\ m \notin gone
      /\ box' = [box EXCEPT ![next] = m] /\ next' = next + 1
      /\ UNCHANGED <<validity, gone, aged, references, hub, cursor, session, outside, failures, crashes>>
      /\ UNCHANGED <<message, filed, thread, reply>>
  BY DEF Arrive, hub
<1>2. /\ next \in Uids /\ next \in Nat /\ next' \in Nat /\ next <= next' /\ next' \in 1..MaxUid + 1
  BY <1>1, BoundsAssumption DEF TypeOK, Uids
<1>3. m # None /\ next \notin Present
  BY <1>2, IdTypes DEF Mailbox
<1>4. /\ box' \in [Uids -> Mails \cup {None}] /\ box'[next] = m
      /\ \A u \in Uids : u # next => box'[u] = box[u]
  BY <1>1, <1>2 DEF TypeOK
<1>5. /\ Present' = Present \cup {next}
      /\ \A u \in Present : u \in Nat /\ u < next /\ box'[u] = box[u] /\ box[u] # m
  <2>1. Present' = Present \cup {next}
    BY <1>2, <1>3, <1>4 DEF Present
  <2>2. ASSUME NEW u \in Present PROVE u \in Nat /\ u < next /\ box'[u] = box[u] /\ box[u] # m
    <3>1. u \in Uids /\ u \in Nat /\ u < next
      BY BoxType DEF Mailbox
    <3>2. u # next
      BY <1>3
    <3> QED
      BY <3>1, <3>2, <1>1, <1>4 DEF InBox
  <2> QED
    BY <2>1, <2>2
<1>6. /\ Stored' = Stored /\ Convs' = Convs
      /\ \A x : (Written(x)' <=> Written(x)) /\ (InBox(x) => InBox(x)')
      /\ \A u \in Present : IdAt(u)' = IdAt(u)
  BY <1>1, <1>5 DEF Written, InBox, IdAt, MessageId, Stored, Convs
<1>7. TypeOK'
  BY <1>1, <1>2, <1>4, <1>6 DEF TypeOK, Rows, Threads, Sent
<1>8. Mailbox'
  BY <1>1, <1>2, <1>4, <1>5, <1>6 DEF Mailbox
<1>9. Origins'
  <2>1. \A w \in Validities, u \in Uids :
          <<w, u>> \in Stored => w < validity \/ (w = validity /\ u < next + 1)
    <3>1. \A u \in Uids : u < next => u < next + 1
      <4>1. next \in Nat /\ Uids \subseteq Nat
        BY <1>2, BoxType
      <4> QED
        BY <4>1
    <3> QED
      BY <3>1 DEF Origins
  <2> QED
    BY <1>1, <1>6, <2>1 DEF Origins
<1>10. Answers' /\ AnswerJoinsReply'
  BY <1>1, <1>6 DEF Answers, EndsIn, AnswerJoinsReply
<1>11. Joined'
  <2> SUFFICES ASSUME NEW u \in Present', NEW v \in Present', u < v, box'[u] \notin Anonymous,
                      InReplyTo[box'[v]] = box'[u], IdAt(v)' \in Stored
               PROVE  \/ box'[u] \in outside
                      \/ box'[u] \in Stored /\ message[IdAt(v)'].conv = message[box'[u]].conv
    BY <1>1, <1>6 DEF Joined
  <2>1. CASE v \in Present
    <3>1. u \in Present
      BY <2>1, <1>2, <1>5
    <3> QED
      BY <2>1, <3>1, <1>5, <1>6 DEF Joined
  <2>2. CASE v = next
    <3>1. IdAt(v)' = MessageId(m, validity, next)
      BY <2>2, <1>1, <1>4 DEF IdAt, MessageId
    <3>2. MessageId(m, validity, next) \notin Stored
      <4>1. m \notin Stored
        BY <1>1 DEF Origins
      <4>2. <<validity, next>> \notin Stored
        <5>1. ~(validity < validity) /\ ~(next < next)
          BY <1>2, BoxType
        <5> QED
          BY <5>1, <1>2, BoxType DEF Origins
      <4> QED
        BY <4>1, <4>2 DEF MessageId
    <3> QED
      BY <3>1, <3>2
  <2> QED
    BY <2>1, <2>2, <1>5
<1>12. InboxGrows
  BY <1>1, <1>6 DEF InboxGrows
<1>13. Cursor' /\ Poll'
  <2>1. \A u \in Present' : u < next => u \in Present /\ box'[u] = box[u]
    BY <1>2, <1>5
  <2>2. \A u \in Present : Handled(u) => Handled(u)'
    BY <1>1, <1>5, <1>12, HandledStays
  <2>3. Cursor'
    BY <1>1, <1>2, <2>1, <2>2, CursorStays
  <2>4. \A u \in Uids : u < next => box'[u] = box[u]
    BY <1>2, <1>4
  <2>5. Poll'
    BY <1>1, <1>2, <1>6, <1>12, <2>1, <2>4, PollStays
  <2> QED
    BY <2>3, <2>5
<1> QED
  BY <1>7, <1>8, <1>9, <1>10, <1>11, <1>13

LEMMA ExpungeInv == ASSUME IInv, NEW e \in Uids, Expunge(e) PROVE IInv'
<1> USE DEF IInv
<1>1. /\ e \in Present /\ box' = [box EXCEPT ![e] = None] /\ gone' = gone \cup {box[e]}
      /\ UNCHANGED <<next, validity, aged, references, hub, cursor, session, outside, failures, crashes>>
      /\ UNCHANGED <<message, filed, thread, reply>>
  BY DEF Expunge, hub
<1>2. /\ box' \in [Uids -> Mails \cup {None}] /\ box'[e] = None
      /\ \A u \in Uids : u # e => box'[u] = box[u]
  BY <1>1 DEF TypeOK
<1>3. /\ Present' = Present \ {e} /\ box[e] \in Mails
      /\ \A u \in Present' : u \in Present /\ u # e /\ box'[u] = box[u]
  BY <1>1, <1>2, BoxType DEF Present
<1>4. /\ Stored' = Stored /\ Convs' = Convs
      /\ \A x : (Written(x)' <=> Written(x)) /\ (InBox(x) => InBox(x)' \/ x \in gone')
      /\ \A u \in Present' : IdAt(u)' = IdAt(u)
  <2>1. ASSUME NEW x, InBox(x) PROVE InBox(x)' \/ x \in gone'
    <3>1. PICK u \in Present : box[u] = x
      BY <2>1 DEF InBox
    <3> QED
      BY <3>1, <1>1, <1>3 DEF InBox
  <2> QED
    BY <1>1, <1>3, <2>1 DEF Written, IdAt, MessageId, Stored, Convs
<1>5. TypeOK'
  BY <1>1, <1>2, <1>3, <1>4 DEF TypeOK, Rows, Threads, Sent
<1>6. Mailbox'
  BY <1>1, <1>3, <1>4 DEF Mailbox
<1>7. Origins'
  BY <1>1, <1>4 DEF Origins
<1>8. Answers' /\ AnswerJoinsReply'
  BY <1>1, <1>4 DEF Answers, EndsIn, AnswerJoinsReply
<1>9. Joined'
  BY <1>1, <1>3, <1>4 DEF Joined
<1>10. InboxGrows
  BY <1>1, <1>4 DEF InboxGrows
<1>11. Cursor' /\ Poll'
  <2>1. next \in Nat /\ next <= next' /\ next' \in Nat
    BY <1>1, BoundsAssumption DEF TypeOK
  <2>2. \A u \in Present' : Handled(u) => Handled(u)'
    BY <1>1, <1>3, <1>10, HandledStays
  <2>3. Cursor'
    BY <1>1, <1>3, <2>1, <2>2, CursorStays
  <2>4. \A u \in Uids : box'[u] = box[u] \/ (u \in Present /\ box'[u] = None /\ box[u] \in gone')
    BY <1>1, <1>2
  <2>5. Poll'
    BY <1>1, <1>3, <1>4, <1>10, <2>1, <2>4, PollStays
  <2> QED
    BY <2>3, <2>5
<1> QED
  BY <1>5, <1>6, <1>7, <1>8, <1>9, <1>11

\* The mails keep their order under their new numbers; nothing is stored under these yet.
LEMMA RenumberInv == ASSUME IInv, Renumber PROVE IInv'
<1> USE DEF IInv
<1> DEFINE n == Cardinality(Present)
<1>1. /\ validity < MaxValidity /\ validity' = validity + 1
      /\ box' = [u \in Uids |-> IF u <= n THEN box[Nth(Present, u)] ELSE None]
      /\ next' = n + 1 /\ session' = None
      /\ failures' = IF session = None THEN failures ELSE failures + 1
      /\ UNCHANGED <<gone, aged, references, hub, cursor, outside, crashes>>
      /\ UNCHANGED <<message, filed, thread, reply>>
  BY DEF Renumber, hub
<1>2. /\ n \in Nat /\ n <= MaxUid /\ MaxUid \in Nat
      /\ \A k \in 1..n : Nth(Present, k) \in Present
      /\ \A u \in Present : \E k \in 1..n : Nth(Present, k) = u
      /\ \A k, l \in 1..n : k < l => Nth(Present, k) < Nth(Present, l)
  <2>1. MaxUid \in Nat /\ Present \in SUBSET (1..MaxUid)
    BY BoxType, BoundsAssumption DEF Uids
  <2>2. n <= MaxUid
    <3>1. 1 \in Int /\ MaxUid \in Int
      BY <2>1
    <3>2. IsFiniteSet(1..MaxUid) /\ Cardinality(1..MaxUid) = IF 1 > MaxUid THEN 0 ELSE MaxUid - 1 + 1
      BY <3>1, FS_Interval
    <3>3. n <= Cardinality(1..MaxUid)
      BY <2>1, <3>2, FS_Subset
    <3>4. Cardinality(1..MaxUid) = MaxUid
      BY <2>1, <3>2
    <3> QED
      BY <3>3, <3>4
  <2>3. /\ n \in Nat
        /\ \A k \in 1..n : Nth(Present, k) \in Present
        /\ \A u \in Present : \E k \in 1..n : Nth(Present, k) = u
        /\ \A k, l \in 1..n : k < l => Nth(Present, k) < Nth(Present, l)
    BY <2>1, NthIn
  <2> QED
    BY <2>1, <2>2, <2>3
<1> HIDE DEF n
<1>3. /\ Present' = 1..n /\ \A k \in 1..n : box'[k] = box[Nth(Present, k)]
      /\ box' \in [Uids -> Mails \cup {None}]
  <2>1. 1..n \subseteq Uids /\ \A u \in Uids : u \in Nat /\ (u <= n <=> u \in 1..n)
    BY <1>2 DEF Uids
  <2>2. \A k \in 1..n : box[Nth(Present, k)] \in Mails /\ box[Nth(Present, k)] # None
    BY <1>2, BoxType, IdTypes
  <2>3. \A u \in Uids : box'[u] = IF u \in 1..n THEN box[Nth(Present, u)] ELSE None
    BY <1>1, <2>1
  <2>4. Present' = 1..n
    BY <2>1, <2>2, <2>3 DEF Present
  <2>5. box' \in [Uids -> Mails \cup {None}]
    BY <1>1, <2>1, <2>2
  <2> QED
    BY <2>1, <2>3, <2>4, <2>5
<1>4. /\ Stored' = Stored /\ Convs' = Convs
      /\ \A x : (Written(x)' <=> Written(x)) /\ (InBox(x) => InBox(x)')
  <2>1. ASSUME NEW x, InBox(x) PROVE InBox(x)'
    BY <2>1, <1>2, <1>3 DEF InBox
  <2> QED
    BY <1>1, <2>1 DEF Written, Stored, Convs
<1>5. /\ validity \in Nat /\ validity' \in Nat /\ validity' \in Validities /\ validity < validity'
  BY <1>1, BoxType, BoundsAssumption DEF Validities
<1>6. TypeOK'
  <2>1. failures' \in 0..DegradedAfter
    BY <1>1, BoundsAssumption DEF TypeOK, Poll
  <2>2. next' \in 1..MaxUid + 1
    BY <1>1, <1>2
  <2> QED
    BY <1>1, <1>3, <1>4, <1>5, <2>1, <2>2 DEF TypeOK, Rows, Threads, Sent
<1>7. Mailbox'
  <2>1. ASSUME NEW u \in 1..n, NEW v \in 1..n, box'[u] = box'[v] PROVE u = v
    <3>1. Nth(Present, u) = Nth(Present, v) /\ Nth(Present, u) \in Nat
      BY <2>1, <1>2, <1>3, BoxType DEF Mailbox
    <3>2. ~(u < v) /\ ~(v < u)
      BY <3>1, <1>2
    <3> QED
      BY <3>2
  <2>2. ASSUME NEW u \in 1..n PROVE u < n + 1 /\ Written(box'[u]) /\ box'[u] \notin gone
    BY <1>2, <1>3 DEF Mailbox
  <2>3. \A u \in Present' : u < next' /\ Written(box[u])' /\ box'[u] \notin gone'
    BY <2>2, <1>1, <1>3 DEF Written
  <2>4. \A u, v \in Present' : box'[u] = box'[v] => u = v
    BY <2>1, <1>3
  <2> QED
    BY <2>3, <2>4 DEF Mailbox
<1>8. \A w \in Validities, u \in Uids : <<w, u>> \in Stored => w <= validity /\ w < validity'
  <2>1. Validities \subseteq Nat
    BY BoundsAssumption DEF Validities
  <2> QED
    BY <2>1, <1>5 DEF Origins
<1>9. Origins'
  BY <1>1, <1>4, <1>8 DEF Origins
<1>10. Answers' /\ AnswerJoinsReply'
  BY <1>1, <1>4 DEF Answers, EndsIn, AnswerJoinsReply
<1>11. Joined'
  <2> SUFFICES ASSUME NEW u \in 1..n, NEW v \in 1..n, u < v, box'[u] \notin Anonymous,
                      InReplyTo[box'[v]] = box'[u], IdAt(v)' \in Stored
               PROVE  \/ box'[u] \in outside
                      \/ box'[u] \in Stored /\ message[IdAt(v)'].conv = message[box'[u]].conv
    BY <1>1, <1>3, <1>4 DEF Joined
  <2> DEFINE a == Nth(Present, u)
             b == Nth(Present, v)
  <2>1. /\ a \in Present /\ b \in Present /\ a < b
        /\ box'[u] = box[a] /\ box'[v] = box[b]
    BY <1>2, <1>3
  <2> HIDE DEF a, b
  <2>2. IdAt(v)' = MessageId(box[b], validity', v)
    BY <2>1 DEF IdAt, MessageId
  <2>3. v \in Uids
    BY <1>2 DEF Uids
  <2>4. box[b] \notin Anonymous
    <3> SUFFICES ASSUME box[b] \in Anonymous PROVE FALSE
      OBVIOUS
    <3>1. <<validity', v>> \in Stored
      BY <2>2 DEF MessageId
    <3>2. validity' < validity'
      BY <3>1, <2>3, <1>5, <1>8
    <3> QED
      BY <3>2, <1>5
  <2>5. IdAt(v)' = IdAt(b)
    BY <2>2, <2>4 DEF IdAt, MessageId
  <2> QED
    BY <2>1, <2>5 DEF Joined
<1>12. Cursor'
  <2>1. ASSUME cursor # None PROVE cursor.validity <= validity' /\ cursor.validity # validity'
    <3>1. cursor.validity \in Nat /\ cursor.validity <= validity
      BY <2>1, BoundsAssumption DEF Cursor, TypeOK, Validities
    <3> QED
      BY <3>1, <1>5
  <2> QED
    BY <1>1, <2>1 DEF Cursor
<1>13. Poll'
  BY <1>1 DEF Poll
<1> QED
  BY <1>6, <1>7, <1>9, <1>10, <1>11, <1>12, <1>13

-----------------------------------------------------------------------------
(* The replies.                                                            *)

\* A reply takes the thread's latest id and references with it.
LEMMA SendInv == ASSUME IInv, NEW h \in Replies, NEW c \in Convs, Send(h, c) PROVE IInv'
<1> USE DEF IInv
<1> DEFINE r == [conv |-> c, inReplyTo |-> thread[c].latest, references |-> thread[c].references]
<1>1. /\ reply[h] = None /\ reply' = [reply EXCEPT ![h] = r]
      /\ UNCHANGED <<mailbox, message, filed, thread, cursor, session, outside, failures, crashes>>
      /\ UNCHANGED <<box, next, validity, gone, aged, references>>
  BY DEF Send, mailbox
<1>2. r \in Sent /\ r.conv = c /\ EndsIn(r.inReplyTo, r.references, r.conv)
  BY RowType DEF Sent, Answers
<1> HIDE DEF r
<1>3. /\ reply' \in [Replies -> Sent \cup {None}] /\ reply'[h] = r
      /\ \A g \in Replies : g # h => reply'[g] = reply[g]
  BY <1>1, <1>2 DEF TypeOK
<1>4. /\ Stored' = Stored /\ Convs' = Convs /\ Present' = Present
      /\ \A m : (Written(m)' <=> Written(m)) /\ (InBox(m)' <=> InBox(m))
      /\ \A u : IdAt(u)' = IdAt(u)
  BY <1>1 DEF Stored, Convs, Present, Written, InBox, IdAt, MessageId
<1>5. TypeOK'
  BY <1>1, <1>3, <1>4 DEF TypeOK, Rows, Threads, Sent
<1>6. Mailbox' /\ Origins' /\ Joined'
  BY <1>1, <1>4 DEF Mailbox, Written, Origins, Joined
<1>7. \A m \in KeepsReferences : Written(m) => InReplyTo[m] # h
  BY <1>1 DEF Answers
<1>8. Answers'
  <2>1. h \notin Stored
    BY <1>1 DEF Answers
  <2>2. \A m \in KeepsReferences : LET g == InReplyTo[m] IN
          Written(m) /\ g \in Replies
            => reply'[g] # None /\ references[m] = Append(reply'[g].references, g)
    BY <1>3, <1>7 DEF Answers
  <2>3. \A g \in Replies \cap Stored : reply'[g] # None /\ message[g].conv = reply'[g].conv
    BY <2>1, <1>3 DEF Answers
  <2>4. \A g \in Replies : reply'[g] # None
          => EndsIn(reply'[g].inReplyTo, reply'[g].references, reply'[g].conv)
    BY <1>2, <1>3 DEF Answers
  <2> QED
    BY <1>1, <1>4, <2>2, <2>3, <2>4 DEF Answers, EndsIn
<1>9. AnswerJoinsReply'
  <2>1. \A m \in KeepsReferences \cap Stored : Written(m)
    BY MailsAssumption DEF Origins
  <2> QED
    BY <1>1, <1>3, <1>4, <1>7, <2>1 DEF AnswerJoinsReply
<1>10. InboxGrows
  BY <1>1, <1>4 DEF InboxGrows
<1>11. Cursor' /\ Poll'
  <2>1. next \in Nat /\ \A u \in Present : Handled(u) => Handled(u)'
    BY <1>1, <1>10, HandledStays DEF TypeOK
  <2>2. Cursor'
    BY <1>1, <1>4, <2>1, CursorStays
  <2>3. Poll'
    BY <1>1, <1>4, <1>10, <2>1, PollStays
  <2> QED
    BY <2>2, <2>3
<1> QED
  BY <1>5, <1>6, <1>8, <1>9, <1>11

LEMMA RecordedInv == ASSUME IInv, NEW h \in Replies, Recorded(h) PROVE IInv'
<1> USE DEF IInv
<1> DEFINE row == [conv |-> reply[h].conv, mail |-> h]
<1>1. /\ reply[h] # None /\ h \notin Stored
      /\ message' = [j \in Stored \cup {h} |-> IF j = h THEN row ELSE message[j]]
      /\ UNCHANGED <<mailbox, filed, thread, reply, cursor, session, outside, failures, crashes>>
      /\ UNCHANGED <<box, next, validity, gone, aged, references>>
  BY DEF Recorded, mailbox, WithMessage
<1>2. row \in Rows /\ row.conv = reply[h].conv
  BY <1>1, RowType DEF Rows
<1> HIDE DEF row
<1>3. /\ Stored' = Stored \cup {h} /\ message'[h] = row /\ Convs' = Convs
      /\ \A j \in Stored : message'[j] = message[j]
  BY <1>1 DEF Stored, Convs
<1>4. /\ Present' = Present
      /\ \A m : (Written(m)' <=> Written(m)) /\ (InBox(m)' <=> InBox(m))
      /\ \A u : IdAt(u)' = IdAt(u)
  BY <1>1 DEF Present, Written, InBox, IdAt, MessageId
<1>5. TypeOK'
  <2>1. Stored' \subseteq Ids /\ Convs' \subseteq Stored'
    BY <1>3 DEF TypeOK, Ids
  <2>2. message' \in [Stored' -> Rows]
    <3>1. \A j \in Stored' : message'[j] \in Rows
      BY <1>2, <1>3 DEF TypeOK
    <3>2. DOMAIN message' = Stored' /\ message' = [j \in Stored' |-> message'[j]]
      BY <1>1, <1>3 DEF Stored
    <3> QED
      BY <3>1, <3>2
  <2> QED
    BY <1>1, <1>3, <2>1, <2>2 DEF TypeOK, Rows, Threads, Sent
<1>6. h \notin Mails /\ \A w \in Validities, u \in Uids : <<w, u>> # h
  BY MailsAssumption
<1>7. Mailbox' /\ Origins'
  BY <1>1, <1>3, <1>4, <1>6 DEF Mailbox, Written, Origins
<1>8. Answers'
  <2>1. \A g \in Replies \cap Stored' : reply[g] # None /\ message'[g].conv = reply[g].conv
    BY <1>1, <1>2, <1>3 DEF Answers
  <2>2. ASSUME NEW d \in Convs PROVE EndsIn(thread[d].latest, thread[d].references, d)'
    BY <1>1, <1>3 DEF Answers, EndsIn
  <2>3. ASSUME NEW g \in Replies, reply[g] # None
        PROVE  EndsIn(reply[g].inReplyTo, reply[g].references, reply[g].conv)'
    BY <2>3, <1>1, <1>3 DEF Answers, EndsIn
  <2> QED
    BY <1>1, <1>3, <1>4, <2>1, <2>2, <2>3 DEF Answers
<1>9. Joined'
  <2>1. \A u \in Present : IdAt(u) # h /\ box[u] # h
    BY <1>6, BoxType
  <2> QED
    BY <1>1, <1>3, <1>4, <2>1 DEF Joined
<1>10. AnswerJoinsReply'
  BY <1>1, <1>3, <1>6, MailsAssumption DEF AnswerJoinsReply
<1>11. InboxGrows
  BY <1>1, <1>3 DEF InboxGrows
<1>12. Cursor' /\ Poll'
  <2>1. next \in Nat /\ \A u \in Present : Handled(u) => Handled(u)'
    BY <1>1, <1>11, HandledStays DEF TypeOK
  <2>2. Cursor'
    BY <1>1, <1>4, <2>1, CursorStays
  <2>3. Poll'
    BY <1>1, <1>4, <1>11, <2>1, PollStays
  <2> QED
    BY <2>2, <2>3
<1> QED
  BY <1>5, <1>7, <1>8, <1>9, <1>10, <1>12

-----------------------------------------------------------------------------
(* The theorems.                                                           *)

LEMMA InitInv == Init => IInv
<1> SUFFICES ASSUME Init PROVE IInv
  OBVIOUS
<1>1. Stored = {} /\ Convs = {} /\ Present = {}
  BY DEF Init, Stored, Convs, Present
<1>2. message \in [Stored -> Rows] /\ thread \in [Convs -> Threads]
  BY <1>1 DEF Init, Stored, Convs
<1>3. \A m \in Mails : ~Written(m)
  BY DEF Init, Written
<1>4. TypeOK
  BY <1>1, <1>2, BoundsAssumption DEF Init, TypeOK, Validities
<1> QED
  BY <1>1, <1>3, <1>4, MailsAssumption
     DEF Init, IInv, Mailbox, Origins, Answers, Cursor, Poll, Joined, AnswerJoinsReply

LEMMA StepInv == IInv /\ [Next]_vars => IInv'
<1> SUFFICES ASSUME IInv, [Next]_vars PROVE IInv'
  OBVIOUS
<1>1. CASE PollStep
  BY <1>1, OpenInv, ListInv, FetchInv, FailsInv, IngestRowInv, PersistInv, DescribeInv, FinishInv
     DEF PollStep
<1>2. CASE Fail \/ Crash \/ Renumber
  BY <1>2, FailsInv, RenumberInv
<1>3. ASSUME NEW m \in Mails, Write(m) \/ Arrive(m) \/ Age(m) PROVE IInv'
  BY <1>3, WriteInv, ArriveInv, AgeInv
<1>4. CASE \E u \in Uids : Expunge(u)
  BY <1>4, ExpungeInv
<1>5. CASE \E h \in Replies : Recorded(h) \/ \E c \in Convs : Send(h, c)
  BY <1>5, SendInv, RecordedInv
<1>6. CASE UNCHANGED vars
  <2>1. UNCHANGED <<box, next, validity, gone, aged, references, message, filed, thread, reply,
                    cursor, session, outside, failures, crashes>>
    BY <1>6 DEF vars, mailbox, hub
  <2>2. /\ Mailbox' /\ Origins' /\ Answers' /\ Joined' /\ AnswerJoinsReply'
        /\ InboxGrows /\ Present' = Present /\ \A u \in Present : Handled(u) => Handled(u)'
    BY <2>1, Frame DEF hub
  <2>3. TypeOK'
    BY <2>1 DEF IInv, TypeOK, Stored, Convs, Rows, Threads, Sent
  <2>4. next \in Nat /\ \A x \in Mails : Written(x) => Written(x)'
    BY <2>1 DEF IInv, TypeOK, Written
  <2>5. Cursor'
    BY <2>1, <2>2, <2>4, CursorStays
  <2>6. Poll'
    BY <2>1, <2>2, <2>4, PollStays
  <2> QED
    BY <2>2, <2>3, <2>5, <2>6 DEF IInv
<1> QED
  BY <1>1, <1>2, <1>3, <1>4, <1>5, <1>6 DEF Next

\* Mailbox, cursors, threads and polls agree as described above.
THEOREM Inductive == Spec => []IInv
  BY InitInv, StepInv, PTL DEF Spec

\* Type correctness of the inbox's tables, of the poll and of the account's failure count.
THEOREM TypeCorrect == Spec => []TypeOK
<1>1. IInv => TypeOK
  BY DEF IInv
<1> QED
  BY <1>1, Inductive, PTL

LEMMA BehindIsHandled ==
  ASSUME IInv, NEW u \in Behind
  PROVE  u \in Present /\ Whole(IdAt(u), box[u])
  BY DEF IInv, Behind, Cursor, Handled

\* Every mail behind the cursor is stored, whatever arrived, was deleted, renumbered or failed
\* while the polls ran (syncMessages, storeCursors), and has its files and its place in the
\* thread's references, though the three transactions of ingestMessage may fail one by one.
THEOREM BehindCursorIsComplete == Spec => []CompleteBehindCursor
<1>1. IInv => CompleteBehindCursor
  BY BehindIsHandled DEF CompleteBehindCursor, Whole, IdAt, ToSet
<1> QED
  BY <1>1, Inductive, PTL

\* An answer and the mail of the mailbox that it answers are in one conversation
\* (resolveEmailThread, and the ascending order in which syncMessages ingests).
THEOREM AnswersTogether == Spec => []ThreadsTogether
<1>1. ASSUME IInv PROVE ThreadsTogether
  <2> SUFFICES ASSUME NEW u \in Present, NEW v \in Present, u < v,
                      InReplyTo[box[v]] = IdAt(u), box[u] \notin outside,
                      IdAt(u) \in Stored, IdAt(v) \in Stored
               PROVE  message[IdAt(v)].conv = message[IdAt(u)].conv
    BY DEF ThreadsTogether, IdAt
  <2>1. /\ box[u] \in Mails /\ box[v] \in Mails /\ u \in Uids /\ validity \in Validities
        /\ IdAt(u) = IF box[u] \in Anonymous THEN <<validity, u>> ELSE box[u]
    BY <1>1, BoxType DEF IInv
  <2>2. InReplyTo[box[v]] \in Mails \cup Replies \cup {None}
    BY <2>1, MailsAssumption
  <2>3. box[u] \notin Anonymous
    BY <2>1, <2>2, MailsAssumption
  <2>4. IdAt(u) = box[u]
    BY <2>1, <2>3
  <2> QED
    BY <1>1, <2>3, <2>4 DEF IInv, Joined
<1> QED
  BY <1>1, Inductive, PTL

\* An answer to a reply of the hub is in the reply's conversation, before and after the reply's
\* Message-ID is recorded (sendMessage, resolveEmailThread).
THEOREM AnswersFollowReplies == Spec => []AnswerJoinsReply
<1>1. IInv => AnswerJoinsReply
  BY DEF IInv
<1> QED
  BY <1>1, Inductive, PTL
=============================================================================
